------------------------------- MODULE Poller -------------------------------
(***************************************************************************)
(* The channels of one EventLoop and its Poller, which is a PollPoller or  *)
(* an EPollPoller: the map channels_, the array pollfds_ or the kernel's   *)
(* epoll set, the index_ of each channel, and the round of active channels *)
(* in which handlers change and remove channels.                           *)
(*                                                                         *)
(* The owners of channels behave as those of the library: an update        *)
(* changes something, a channel is removed when it asks for nothing and    *)
(* deleted after it was removed, not in its own handler; and the Acceptor  *)
(* of a server that never started disables and removes a channel that      *)
(* never asked for anything.  With the pollers in ReEnabled a channel that *)
(* asked for nothing may ask again, which Channel allows but none of the   *)
(* library's owners does.                                                  *)
(***************************************************************************)
EXTENDS Integers, Sequences, FiniteSets

CONSTANTS Chans,              \* Channel objects
          Fds,                \* descriptors, natural numbers
          Events,             \* what a channel may ask for
          InitEventListSize,  \* kInitEventListSize
          ReEnabled,          \* pollers whose channels are enabled again
          None                \* no channel

ASSUME FdsAssumption == Fds \subseteq Nat /\ IsFiniteSet(Fds)
ASSUME SizeAssumption == InitEventListSize \in Nat \ {0}
ASSUME NoneAssumption == None \notin Chans

VARIABLES kind,      \* "poll" or "epoll": what newDefaultPoller chose
          life,      \* of each channel: unborn, alive or deleted
          fd,        \* fd_; -1 before the channel exists
          events,    \* events_
          index,     \* index_
          channels,  \* channels_, from descriptors to channels
          pollfds,   \* PollPoller: pollfds_
          epoll,     \* EPollPoller: the kernel's set, from descriptors to
                     \*   what update() passed last
          eventList, \* EPollPoller: the size of events_
          phase,     \* of the loop: "events" of a round, or between two rounds
          hot,       \* the descriptors the kernel found ready
          active,    \* activeChannels_
          todo,      \* those not handled yet
          current,   \* currentActiveChannel_
          failed     \* the assertion that stopped the program, or "none"

table == <<channels, pollfds, epoll>>
loop == <<phase, hot, active, todo, current>>
vars == <<kind, life, fd, events, index, table, eventList, loop, failed>>

\* the states of index_ in an EPollPoller
kNew == -1
kAdded == 1
kDeleted == 2

\* an absent entry of the epoll set
Absent == [ptr |-> None, events |-> {}]

Init ==
    /\ kind \in {"poll", "epoll"}
    /\ life = [c \in Chans |-> "unborn"]
    /\ fd = [c \in Chans |-> -1]
    /\ events = [c \in Chans |-> {}]
    /\ index = [c \in Chans |-> kNew]
    /\ channels = [f \in Fds |-> None]
    /\ pollfds = <<>>
    /\ epoll = [f \in Fds |-> Absent]
    /\ eventList = InitEventListSize
    /\ phase = "functors" /\ hot = {} /\ active = {} /\ todo = {} /\ current = None
    /\ failed = "none"

\* user code runs: functors, or the handler of a channel
InUserCode == phase = "functors" \/ current # None

Check(assertion, name) == failed' = IF assertion THEN failed ELSE name

\* an owner creates a channel for a descriptor it has just opened
NewChannel(c, f) ==
    /\ InUserCode /\ life[c] = "unborn"
    /\ \A d \in Chans : life[d] = "alive" => fd[d] # f
    /\ life' = [life EXCEPT ![c] = "alive"]
    /\ fd' = [fd EXCEPT ![c] = f]
    /\ UNCHANGED <<kind, events, index, table, eventList, loop, failed>>
-----------------------------------------------------------------------------
(* PollPoller.                                                             *)

\* the descriptor of an entry poll() ignores
Ignored(f) == -f - 1

\* defect: the entry of a channel without interests stays as it is
FdAfterUpdate_kept(pfd, f, ev) == pfd.fd

\* the descriptor of entry pfd after updateChannel
FdAfterUpdate(pfd, f, ev) == IF ev = {} THEN Ignored(f) ELSE pfd.fd

\* the entry of a new channel
NewEntry(f, ev) == [fd |-> f, events |-> ev]

\* updateChannel, for the events ev
PollUpdate(c, ev) ==
    LET f == fd[c]  i == index[c] + 1
    IN  /\ \/ /\ index[c] < 0
              /\ pollfds' = Append(pollfds, NewEntry(f, ev))
              /\ index' = [index EXCEPT ![c] = Len(pollfds)]
              /\ channels' = [channels EXCEPT ![f] = c]
              /\ Check(channels[f] = None, "updateChannel: channels_")
           \/ /\ index[c] >= 0
              /\ pollfds' = [pollfds EXCEPT ![i] = [fd |-> FdAfterUpdate(@, f, ev), events |-> ev]]
              /\ Check(channels[f] = c /\ i <= Len(pollfds) /\ pollfds[i].fd \in {f, Ignored(f)},
                       "updateChannel: pfd.fd")
              /\ UNCHANGED <<index, channels>>
        /\ UNCHANGED epoll

\* the last entry, of channel last, has taken the place of c
MovedIndex(c, last) == [index EXCEPT ![last] = index[c]]

\* removeChannel
PollRemove(c) ==
    LET f == fd[c]  i == index[c] + 1  n == Len(pollfds)
        end == pollfds[n].fd
        last == channels[IF end < 0 THEN Ignored(end) ELSE end]
    IN  /\ Check(channels[f] = c /\ i <= n /\ pollfds[i].fd = Ignored(f) /\ pollfds[i].events = events[c],
                 "removeChannel: pfd.fd")
        /\ channels' = [channels EXCEPT ![f] = None]
        /\ pollfds' = SubSeq([pollfds EXCEPT ![i] = pollfds[n]], 1, n - 1)
        /\ index' = IF i = n THEN index ELSE MovedIndex(c, last)
        /\ UNCHANGED epoll
-----------------------------------------------------------------------------
(* EPollPoller.                                                            *)

\* the epoll_ctl operation updateChannel uses
Operation(i, ev) ==
    CASE i \in {kNew, kDeleted} -> "ADD"
      [] i = kAdded /\ ev = {}  -> "DEL"
      [] i = kAdded /\ ev # {}  -> "MOD"

\* kernel: the epoll set after epoll_ctl; MOD and DEL of an absent entry fail
Ctl(op, f, c, ev) ==
    CASE op = "DEL" -> [epoll EXCEPT ![f] = Absent]
      [] op = "MOD" /\ epoll[f] = Absent -> epoll
      [] OTHER -> [epoll EXCEPT ![f] = [ptr |-> c, events |-> ev]]

\* updateChannel, for the events ev
EpollUpdate(c, ev) ==
    LET f == fd[c]  op == Operation(index[c], ev)
    IN  /\ channels' = IF index[c] = kNew THEN [channels EXCEPT ![f] = c] ELSE channels
        /\ index' = [index EXCEPT ![c] = IF op = "DEL" THEN kDeleted ELSE kAdded]
        /\ epoll' = Ctl(op, f, c, ev)
        /\ Check(channels[f] = IF index[c] = kNew THEN None ELSE c, "updateChannel: channels_")
        /\ UNCHANGED pollfds

\* removeChannel
EpollRemove(c) ==
    LET f == fd[c]
    IN  /\ Check(channels[f] = c /\ index[c] \in {kAdded, kDeleted}, "removeChannel: index")
        /\ channels' = [channels EXCEPT ![f] = None]
        /\ epoll' = IF index[c] = kAdded THEN Ctl("DEL", f, c, {}) ELSE epoll
        /\ index' = [index EXCEPT ![c] = kNew]
        /\ UNCHANGED pollfds
-----------------------------------------------------------------------------
(* The owners, in a handler or a functor.                                  *)

Registered(c) == life[c] = "alive" /\ channels[fd[c]] = c

\* enableReading, enableWriting, disableWriting, disableAll
Update(c, ev) ==
    /\ InUserCode /\ life[c] = "alive" /\ ev # events[c]
    /\ events[c] = {} => index[c] < 0 \/ kind \in ReEnabled
    /\ events' = [events EXCEPT ![c] = ev]
    /\ IF kind = "poll" THEN PollUpdate(c, ev) ELSE EpollUpdate(c, ev)
    /\ UNCHANGED <<kind, life, fd, eventList, loop>>

\* defect: any channel may be removed in a round
MayRemove_any(c) == TRUE

\* the assertion of EventLoop::removeChannel
MayRemove(c) == phase = "events" => current = c \/ c \notin active

Remove(c) ==
    /\ InUserCode /\ Registered(c) /\ events[c] = {}
    /\ MayRemove(c)
    /\ IF kind = "poll" THEN PollRemove(c) ELSE EpollRemove(c)
    /\ UNCHANGED <<kind, life, fd, events, eventList, loop>>

\* the program stops when it does not hold
RemoveRefused(c) ==
    /\ InUserCode /\ Registered(c) /\ events[c] = {}
    /\ ~MayRemove(c)
    /\ failed' = "removeChannel: activeChannels_"
    /\ UNCHANGED <<kind, life, fd, events, index, table, eventList, loop>>

\* the owner deletes the channel and closes the descriptor
Delete(c) ==
    /\ InUserCode /\ life[c] = "alive" /\ ~Registered(c) /\ current # c
    /\ life' = [life EXCEPT ![c] = "deleted"]
    /\ UNCHANGED <<kind, fd, events, index, table, eventList, loop, failed>>

\* ~Acceptor of a server that was not started: disableAll() and remove() on a
\* new channel.  Its entry comes and goes, unless removeChannel asserts that
\* the descriptor in it is negated
DestroyAcceptor(c) ==
    /\ InUserCode /\ life[c] = "alive" /\ index[c] = kNew /\ c \notin active
    /\ Check(kind = "poll" => NewEntry(fd[c], {}).fd = Ignored(fd[c]), "~Acceptor: pfd.fd")
    /\ life' = [life EXCEPT ![c] = "deleted"]
    /\ UNCHANGED <<kind, fd, events, index, table, eventList, loop>>
-----------------------------------------------------------------------------
(* The loop.                                                               *)

\* kernel: the descriptors poll() or epoll_wait() watches
WatchedFds ==
    IF kind = "poll" THEN {pollfds[i].fd : i \in DOMAIN pollfds} \cap Fds
    ELSE {f \in Fds : epoll[f] # Absent}

\* fillActiveChannels: the channel of a descriptor that was reported
ChannelOf(f) == IF kind = "poll" THEN channels[f] ELSE epoll[f].ptr

\* poll() reports every entry that is ready
PollReturns(H, R) == R = H \cap WatchedFds

\* epoll_wait() reports no more than events_ holds
EpollReturns(H, R) ==
    /\ R \subseteq H \cap WatchedFds /\ Cardinality(R) <= eventList
    /\ R = H \cap WatchedFds \/ Cardinality(R) = eventList

\* events_ is doubled when it was full
EventListAfter(R) == IF R # {} /\ Cardinality(R) = eventList THEN 2 * eventList ELSE eventList

\* poll(): the kernel reports R of the descriptors H that are ready
Poll(H, R) ==
    /\ phase = "functors"
    /\ IF kind = "poll" THEN PollReturns(H, R) ELSE EpollReturns(H, R)
    /\ phase' = "events" /\ hot' = H
    /\ active' = {ChannelOf(f) : f \in R} /\ todo' = active'
    /\ Check(\A f \in R : channels[f] = ChannelOf(f) /\ channels[f] # None, "fillActiveChannels")
    /\ eventList' = IF kind = "epoll" THEN EventListAfter(R) ELSE eventList
    /\ UNCHANGED <<kind, life, fd, events, index, table, current>>

Handle(c) ==
    /\ phase = "events" /\ current = None /\ c \in todo
    /\ current' = c /\ todo' = todo \ {c}
    /\ UNCHANGED <<kind, life, fd, events, index, table, eventList, phase, hot, active, failed>>

HandlerReturns ==
    /\ current # None
    /\ current' = None
    /\ UNCHANGED <<kind, life, fd, events, index, table, eventList, phase, hot, active, todo, failed>>

\* doPendingFunctors, until the next poll() clears activeChannels_
EndRound ==
    /\ phase = "events" /\ current = None /\ todo = {}
    /\ phase' = "functors" /\ active' = {} /\ hot' = {}
    /\ UNCHANGED <<kind, life, fd, events, index, table, eventList, todo, current, failed>>

Next ==
    /\ failed = "none"
    /\ \/ \E c \in Chans, f \in Fds : NewChannel(c, f)
       \/ \E c \in Chans, ev \in SUBSET Events : Update(c, ev)
       \/ \E c \in Chans : Remove(c) \/ RemoveRefused(c) \/ Delete(c) \/ DestroyAcceptor(c) \/ Handle(c)
       \/ \E H \in SUBSET Fds : \E R \in SUBSET H : Poll(H, R)
       \/ HandlerReturns \/ EndRound

Spec == Init /\ [][Next]_vars
-----------------------------------------------------------------------------
\* what the kernel is asked to watch for channel c
Watched(c) ==
    IF kind = "poll"
    THEN UNION {pollfds[i].events : i \in {j \in DOMAIN pollfds : pollfds[j].fd = fd[c]}}
    ELSE IF epoll[fd[c]].ptr = c THEN epoll[fd[c]].events ELSE {}

\* the tables agree whatever was added, changed and removed before: the
\* kernel watches for a channel of channels_ what that channel asks for, a
\* channel that asks for something is in channels_, pollfds_ and the epoll
\* set hold nothing else, and index_ finds the channel's entry.
TablesAgree ==
    failed = "none" =>
        /\ \A c \in Chans : Registered(c) => Watched(c) = events[c]
        /\ \A c \in Chans : events[c] # {} => Registered(c)
        /\ \A f \in Fds : channels[f] # None => life[channels[f]] = "alive" /\ fd[channels[f]] = f
        /\ kind = "poll" =>
               /\ Len(pollfds) = Cardinality({c \in Chans : Registered(c)})
               /\ \A c \in Chans : Registered(c) =>
                      /\ index[c] + 1 \in DOMAIN pollfds
                      /\ pollfds[index[c] + 1].fd \in {fd[c], Ignored(fd[c])}
        /\ kind = "epoll" =>
               \A f \in Fds : epoll[f] # Absent <=> channels[f] # None /\ index[channels[f]] = kAdded

\* a channel that is still to be handled in this round exists, and no assertion
\* of the pollers has failed, save in two cases: EventLoop::removeChannel's, when a
\* handler removes another channel of its round, and PollPoller::removeChannel's
\* in ~Acceptor of a server that was never started, since disableAll() hands it a
\* new channel and only an entry it had before is negated
ActiveAreAlive ==
    /\ failed \in {"none", "removeChannel: activeChannels_", "~Acceptor: pfd.fd"}
    /\ failed = "~Acceptor: pfd.fd" => kind = "poll"
    /\ \A c \in todo : Registered(c)

\* Whatever channels are added, changed, removed and deleted by the handlers of
\* a round and by functors, and however descriptors are reused: channels_,
\* index_ and what the kernel watches agree with the channels, a channel the
\* round still has to handle exists, and the pollers' assertions hold, except
\* the two that ActiveAreAlive names.
Consistent == TablesAgree /\ ActiveAreAlive

\* Both pollers implement the registry: each poll() reports exactly the ready
\* channels, up to the size of the event list.
R == INSTANCE Registry WITH capacity <- IF kind = "poll" THEN Cardinality(Fds) ELSE eventList

IsRegistry == R!Spec
=============================================================================
