----------------------------- MODULE TimerQueue -----------------------------
(***************************************************************************)
(* muduo::net::TimerQueue: the timers of one EventLoop on one timerfd.     *)
(*                                                                         *)
(* A Timer is an object on the heap: an address, which is used again once  *)
(* the timer is deleted, and a sequence number, which is not.  A TimerId   *)
(* is the pair of both.  The loop thread is at the control point pc:       *)
(*   "idle"      in the loop, or in user code called from it               *)
(*   "expired"   in handleRead, between two expired timers                 *)
(*   "callback"  in the callback of the timer with sequence number current *)
(* Functors of other threads wait in the FIFO mailbox EventLoop implements.*)
(*                                                                         *)
(* timers_ orders by the wall clock, which can be set; the timerfd counts  *)
(* down on CLOCK_MONOTONIC.  One tick stands for the 100 microseconds that *)
(* are the least howMuchTimeFromNow returns.                               *)
(***************************************************************************)
EXTENDS Integers, Sequences

CONSTANTS Threads,     \* threads that are not the loop's
          Loop,        \* the loop thread, as a caller
          Adders,      \* who calls addTimer
          Cancellers,  \* who calls cancel
          Addresses,   \* where a Timer can be allocated, in the order of <
          Intervals,   \* intervals of the timers; 0 does not repeat
          MaxTimers,   \* bound: timers created
          MaxTime,     \* bound: the wall clock stops here
          MaxCancels,  \* bound: calls of cancel
          MaxJumps     \* bound: the wall clock is set

ASSUME AddressesAssumption == Addresses \subseteq Nat \ {0}
ASSUME IntervalsAssumption == Intervals \subseteq Nat
ASSUME BoundsAssumption ==
    MaxTimers \in Nat /\ MaxTime \in Nat /\ MaxCancels \in Nat /\ MaxJumps \in Nat

VARIABLES heap,      \* Timer objects that exist, by address
          created,   \* s_numCreated_
          timers,    \* timers_: pairs of expiration and address
          active,    \* activeTimers_: pairs of address and sequence number
          canceling, \* cancelingTimers_
          calling,   \* callingExpiredTimers_
          expired,   \* handleRead's vector ...
          todo,      \* ... and its entries not run yet
          started,   \* handleRead's now
          pc, current,
          functors,  \* addTimerInLoop and cancelInLoop pending in the loop
          tpc,       \* the address a thread in addTimer is about to read, or 0
          tseq,      \* history: the number of the timer it has created there
          ids,       \* TimerIds handed out, each with the number of the timer that
                     \*   addTimer created (history)
          now,       \* Timestamp::now()
          timerfd,   \* ticks until it is readable, 0 when it is, or Off
          reported,  \* poll() reported the timerfd and handleRead is to come
          cancels, jumps,
          cancelled, \* history: timers that cancelInLoop found in the queue or
                     \*   in the batch, by sequence number
          asked      \* history: timers cancel() was called for with the TimerId
                     \*   that addTimer returned when it created them

queue == <<timers, active, canceling, calling>>
batch == <<expired, todo, started, pc, current>>
adding == <<tpc, tseq>>
bounds == <<cancels, jumps>>
history == <<cancelled, asked>>
vars == <<heap, created, queue, batch, functors, adding, ids, now, timerfd, reported,
          bounds, history>>

Off == -1
Times == 0..MaxTime
TimerIds == Addresses \X (0..MaxTimers)
HandedOut == TimerIds \X (0..MaxTimers)
Functor == {[op |-> "add", timer |-> a] : a \in Addresses}
           \cup {[op |-> "cancel", id |-> x] : x \in HandedOut}

Timer == [sequence : 0..MaxTimers, expiration : Nat, interval : Nat]

\* no Timer at this address
Free == [sequence |-> 0, expiration |-> 0, interval |-> 0]
Allocated(a) == heap[a].sequence # 0

InUserCode == pc \in {"idle", "callback"}

Init ==
    /\ heap = [a \in Addresses |-> Free]
    /\ created = 0
    /\ timers = {} /\ active = {} /\ canceling = {} /\ calling = FALSE
    /\ expired = {} /\ todo = {} /\ started = 0
    /\ pc = "idle" /\ current = 0
    /\ functors = <<>>
    /\ tpc = [t \in Threads |-> 0] /\ tseq = [t \in Threads |-> 0]
    /\ ids = {}
    /\ now = 0 /\ timerfd = Off /\ reported = FALSE
    /\ cancels = 0 /\ jumps = 0
    /\ cancelled = {} /\ asked = {}
-----------------------------------------------------------------------------
(* The timerfd and the two sets.                                           *)

\* defect: a time that has passed disarms the timer
HowMuchTimeFromNow_zero(when) == IF when > now THEN when - now ELSE Off

\* howMuchTimeFromNow: at least 100 microseconds
HowMuchTimeFromNow(when) == IF when - now < 1 THEN 1 ELSE when - now

\* insert: when is before every timer there is
EarliestChanged(when) == \A e \in timers : when < e[1]

\* insert
Insert(a, h) ==
    /\ timers' = timers \cup {<<h[a].expiration, a>>}
    /\ active' = active \cup {<<a, h[a].sequence>>}

\* addTimerInLoop(timer at a), when the heap is h
AddTimerInLoop(a, h) ==
    /\ Insert(a, h)
    /\ timerfd' = IF EarliestChanged(h[a].expiration)
                  THEN HowMuchTimeFromNow(h[a].expiration) ELSE timerfd
    /\ UNCHANGED <<canceling, calling>>

\* defect: the sequence number is not compared
Named_address(id) == {x \in active : x[1] = id[1]}

\* defect: any timer that exists can be deleted
Named_anywhere(id) == {x \in TimerIds : x = id /\ heap[x[1]].sequence = x[2]}

\* activeTimers_.find(timer)
Named(id) == {x \in active : x = id}

\* cancelingTimers_ after cancelInLoop does not find the timer
Canceling(id) == IF calling THEN canceling \cup {id} ELSE canceling

\* the timer exists and its addTimerInLoop has run
InQueueOrBatch(id) == id \in active \/ \E e \in expired : id = <<e[2], heap[e[2]].sequence>>

\* cancelInLoop(timerId): erase and delete the timer, or keep it from being
\* restarted
CancelInLoop(id) ==
    /\ cancelled' = IF InQueueOrBatch(id) THEN cancelled \cup {id[2]} ELSE cancelled
    /\ LET found == Named(id)
           gone  == {x[1] : x \in found}
       IN  /\ timers' = {e \in timers : e[2] \notin gone \/ e[1] # heap[e[2]].expiration}
           /\ active' = active \ found
           /\ heap' = [a \in Addresses |-> IF a \in gone THEN Free ELSE heap[a]]
           /\ canceling' = IF found = {} THEN Canceling(id) ELSE canceling
    /\ UNCHANGED calling
-----------------------------------------------------------------------------
(* addTimer and cancel.                                                    *)

\* new Timer(cb, when, interval)
NewTimer(a, when, interval) ==
    [heap EXCEPT ![a] = [sequence |-> created + 1, expiration |-> when, interval |-> interval]]

CanCreate(a) == created < MaxTimers /\ ~Allocated(a)

\* addTimer in the loop thread
AddTimer(a, when, interval) ==
    /\ Loop \in Adders /\ InUserCode /\ CanCreate(a)
    /\ created' = created + 1
    /\ heap' = NewTimer(a, when, interval)
    /\ AddTimerInLoop(a, heap')
    /\ ids' = ids \cup {<<<<a, created + 1>>, created + 1>>}
    /\ UNCHANGED <<batch, functors, adding, now, reported, bounds, history>>

\* addTimer in another thread, up to runInLoop
AddTimerFrom(t, a, when, interval) ==
    /\ t \in Adders /\ tpc[t] = 0 /\ CanCreate(a)
    /\ created' = created + 1
    /\ heap' = NewTimer(a, when, interval)
    /\ functors' = Append(functors, [op |-> "add", timer |-> a])
    /\ tpc' = [tpc EXCEPT ![t] = a] /\ tseq' = [tseq EXCEPT ![t] = created + 1]
    /\ UNCHANGED <<queue, batch, ids, now, timerfd, reported, bounds, history>>

\* addTimer returns TimerId(timer, timer->sequence()); when the timer is
\* already deleted the memory holds any number
AddTimerReturns(t) ==
    /\ tpc[t] # 0
    /\ \E s \in IF Allocated(tpc[t]) THEN {heap[tpc[t]].sequence} ELSE 0..MaxTimers :
         ids' = ids \cup {<<<<tpc[t], s>>, tseq[t]>>}
    /\ tpc' = [tpc EXCEPT ![t] = 0] /\ tseq' = [tseq EXCEPT ![t] = 0]
    /\ UNCHANGED <<heap, created, queue, batch, functors, now, timerfd, reported, bounds,
                   history>>

\* cancel in the loop thread, with a TimerId handed out
Cancel(x) ==
    /\ Loop \in Cancellers /\ InUserCode /\ cancels < MaxCancels
    /\ cancels' = cancels + 1
    /\ CancelInLoop(x[1]) /\ asked' = asked \cup {x[2]}
    /\ UNCHANGED <<created, batch, functors, adding, ids, now, timerfd, reported, jumps>>

\* cancel in another thread
CancelFrom(t, x) ==
    /\ t \in Cancellers /\ tpc[t] = 0 /\ cancels < MaxCancels
    /\ cancels' = cancels + 1
    /\ functors' = Append(functors, [op |-> "cancel", id |-> x])
    /\ UNCHANGED <<heap, created, queue, batch, adding, ids, now, timerfd, reported, jumps,
                   history>>

Runs(op) == pc = "idle" /\ functors # <<>> /\ Head(functors).op = op

RunAdd ==
    /\ Runs("add")
    /\ functors' = Tail(functors)
    /\ AddTimerInLoop(Head(functors).timer, heap)
    /\ UNCHANGED <<heap, created, batch, adding, ids, now, reported, bounds, history>>

RunCancel ==
    /\ Runs("cancel")
    /\ functors' = Tail(functors)
    /\ CancelInLoop(Head(functors).id[1]) /\ asked' = asked \cup {Head(functors).id[2]}
    /\ UNCHANGED <<created, batch, adding, ids, now, timerfd, reported, bounds>>
-----------------------------------------------------------------------------
(* The timerfd's channel.                                                  *)

\* poll() reports the timerfd; channels before it in the same round may
\* still add and cancel timers
Poll ==
    /\ pc = "idle" /\ ~reported /\ timerfd = 0
    /\ reported' = TRUE
    /\ UNCHANGED <<heap, created, queue, batch, functors, adding, ids, now, timerfd, bounds,
                   history>>

\* getExpired: the entries below the sentry (now, UINTPTR_MAX)
Expired == {e \in timers : e[1] <= now}

\* activeTimers_ after getExpired
StillActive == {x \in active : <<heap[x[1]].expiration, x[1]>> \notin Expired}

\* handleRead up to the first callback.  The read fails, and is logged, when
\* the timerfd was armed anew since poll() reported it
HandleRead ==
    /\ pc = "idle" /\ reported
    /\ reported' = FALSE
    /\ timerfd' = IF timerfd = 0 THEN Off ELSE timerfd
    /\ expired' = Expired /\ todo' = Expired
    /\ timers' = timers \ Expired
    /\ active' = StillActive
    /\ calling' = TRUE /\ canceling' = {}
    /\ started' = now
    /\ pc' = "expired"
    /\ UNCHANGED <<heap, created, current, functors, adding, ids, now, bounds, history>>

\* the order of Entry
Precedes(e, f) == e[1] < f[1] \/ (e[1] = f[1] /\ e[2] <= f[2])

\* it->second->run()
RunTimer(e) ==
    /\ pc = "expired" /\ e \in todo
    /\ \A f \in todo : Precedes(e, f)
    /\ todo' = todo \ {e}
    /\ pc' = "callback"
    /\ current' = heap[e[2]].sequence
    /\ UNCHANGED <<heap, created, queue, expired, started, functors, adding, ids, now, timerfd,
                   reported, bounds, history>>

CallbackReturns ==
    /\ pc = "callback"
    /\ pc' = "expired" /\ current' = 0
    /\ UNCHANGED <<heap, created, queue, expired, todo, started, functors, adding, ids, now,
                   timerfd, reported, bounds, history>>

\* defect: the cancelled timers are not looked at
Again_all == {e \in expired : heap[e[2]].interval > 0}

\* reset: the expired timers that are restarted
Again == {e \in expired : /\ heap[e[2]].interval > 0
                          /\ <<e[2], heap[e[2]].sequence>> \notin canceling}

\* Timer::restart
Restarted(a) == [heap[a] EXCEPT !.expiration = started + heap[a].interval]

\* the expiration of timers_.begin()
Earliest(left) == CHOOSE when \in {e[1] : e \in left} : \A e \in left : when <= e[1]

\* defect: the timerfd is armed only when a timer was run
Rearmed_expired(left) ==
    IF expired = {} \/ left = {} THEN timerfd ELSE HowMuchTimeFromNow(Earliest(left))

\* reset: the timerfd afterwards, with left in timers_, whose expirations are
\* times after the epoch and so valid()
Rearmed(left) == IF left = {} THEN timerfd ELSE HowMuchTimeFromNow(Earliest(left))

\* handleRead after the last callback: reset
Reset ==
    /\ pc = "expired" /\ todo = {}
    /\ calling' = FALSE
    /\ heap' = [a \in Addresses |->
                  IF \E e \in Again : e[2] = a THEN Restarted(a)
                  ELSE IF \E e \in expired : e[2] = a THEN Free ELSE heap[a]]
    /\ timers' = timers \cup {<<Restarted(e[2]).expiration, e[2]>> : e \in Again}
    /\ active' = active \cup {<<e[2], heap[e[2]].sequence>> : e \in Again}
    /\ timerfd' = Rearmed(timers')
    /\ expired' = {}
    /\ pc' = "idle"
    /\ UNCHANGED <<created, canceling, todo, started, current, functors, adding, ids, now,
                   reported, bounds, history>>
-----------------------------------------------------------------------------
(* Time.                                                                   *)

\* 100 microseconds go by (the wall clock stops at MaxTime)
Tick ==
    /\ now < MaxTime \/ timerfd > 0
    /\ now' = IF now < MaxTime THEN now + 1 ELSE now
    /\ timerfd' = IF timerfd > 0 THEN timerfd - 1 ELSE timerfd
    /\ UNCHANGED <<heap, created, queue, batch, functors, adding, ids, reported, bounds,
                   history>>

\* the wall clock is set
SetClock(n) ==
    /\ jumps < MaxJumps
    /\ jumps' = jumps + 1
    /\ now' = n
    /\ UNCHANGED <<heap, created, queue, batch, functors, adding, ids, timerfd, reported, cancels,
                   history>>
-----------------------------------------------------------------------------
LoopStep ==
    \/ Poll \/ HandleRead \/ CallbackReturns \/ Reset
    \/ \E e \in todo : RunTimer(e)
    \/ RunAdd \/ RunCancel

Next ==
    \/ LoopStep
    \/ \E a \in Addresses, when \in Times, i \in Intervals :
         \/ AddTimer(a, when, i)
         \/ \E t \in Threads : AddTimerFrom(t, a, when, i)
    \/ \E x \in ids : Cancel(x) \/ \E t \in Threads : CancelFrom(t, x)
    \/ \E t \in Threads : AddTimerReturns(t)
    \/ Tick
    \/ \E n \in Times : SetClock(n)

Spec == Init /\ [][Next]_vars

\* time goes by, the loop runs and callbacks return
Fairness == WF_vars(LoopStep) /\ WF_vars(Tick)

FairSpec == Spec /\ Fairness
-----------------------------------------------------------------------------
TypeOK ==
    /\ heap \in [Addresses -> Timer]
    /\ created \in 0..MaxTimers
    /\ timers \subseteq Nat \X Addresses
    /\ active \subseteq TimerIds /\ canceling \subseteq TimerIds
    /\ calling \in BOOLEAN
    /\ expired \subseteq Nat \X Addresses /\ todo \subseteq expired
    /\ started \in Times /\ now \in Times
    /\ pc \in {"idle", "expired", "callback"}
    /\ current \in 0..MaxTimers
    /\ functors \in Seq(Functor)
    /\ tpc \in [Threads -> {0} \cup Addresses] /\ tseq \in [Threads -> 0..MaxTimers]
    /\ ids \subseteq HandedOut
    /\ timerfd \in Int /\ timerfd >= Off
    /\ reported \in BOOLEAN
    /\ cancels \in 0..MaxCancels /\ jumps \in 0..MaxJumps
    /\ cancelled \subseteq 0..MaxTimers /\ asked \subseteq 0..MaxTimers

\* the addresses of functors that will add a timer
Waiting == {functors[i].timer : i \in {j \in DOMAIN functors : functors[j].op = "add"}}

\* timers_ and activeTimers_ hold the same timers, which exist, under their
\* present expiration and sequence number: what the asserts on the sizes are
\* meant to see.
SetsAgree ==
    /\ timers = {<<heap[x[1]].expiration, x[1]>> : x \in active}
    /\ \A x \in active : x[2] # 0 /\ heap[x[1]].sequence = x[2]

\* A Timer has one owner, timers_, the batch of handleRead or a functor, and
\* one that has none is deleted: no leak, no second delete, no run of a
\* deleted timer.
OneOwner ==
    LET queued == {x[1] : x \in active}
        due    == {e[2] : e \in expired}
    IN  /\ queued \cap due = {} /\ queued \cap Waiting = {} /\ due \cap Waiting = {}
        /\ {a \in Addresses : Allocated(a)} = queued \cup due \cup Waiting

\* The two sets agree and own their timers alone.
QueueConsistent == SetsAgree /\ OneOwner

\* Outside handleRead a timer never waits on a timerfd that is off, whatever
\* is done to the clock, whoever added or cancelled the earlier timers.
NoTimerForgotten == pc = "idle" /\ timers # {} => timerfd # Off \/ reported

\* ... and as long as nobody sets the clock the timerfd is not set to a time
\* after the first timer.
ArmedInTime ==
    pc = "idle" /\ jumps = 0 /\ ~reported =>
        \A e \in timers : timerfd <= IF e[1] - now < 1 THEN 1 ELSE e[1] - now

\* The timerfd looks after every queued timer: it is on, and in time.
TimerfdCovers == NoTimerForgotten /\ ArmedInTime

\* A timer cancelled once it was added is not queued again: a callback can
\* cancel its own repeating timer, which is then in neither set, and so can
\* another thread while callbacks run.
CancelledStaysOut == \A x \in active : x[2] \notin cancelled

\* the timers that exist on the heap h
Living(h) == {h[a].sequence : a \in Addresses} \ {0}

\* addTimer returned the name of timer s for a timer that was not s: in another
\* thread it reads timer->sequence() when the loop may have run and deleted its
\* timer, and a new one may be at the address
NamedByMistake(s) == \E x \in ids : x[1][2] = s /\ x[2] # s

\* A timer is deleted only when it has run and does not repeat, or when cancel()
\* was called with the TimerId its own addTimer returned: an old TimerId whose
\* address has a new timer does no harm.  Excepted are timers whose name an
\* addTimer that raced with the loop returned for another timer: although the
\* header calls addTimer thread safe, to cancel that TimerId deletes them.
OnlyNamedTimersDie ==
    [][\A s \in Living(heap) \ Living(heap') :
         \/ s \in asked'
         \/ \E e \in expired : heap[e[2]].sequence = s /\ heap[e[2]].interval = 0
         \/ NamedByMistake(s)']_vars

\* A timer that is added runs once its time has come, unless it is cancelled
\* after that; a cancel that comes before addTimerInLoop has no effect.
DueTimerRuns ==
    \A s \in 1..MaxTimers :
        (\E x \in active : x[2] = s /\ heap[x[1]].expiration <= MaxTime)
            ~> (current = s \/ s \in cancelled)
=============================================================================
