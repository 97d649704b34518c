-------------------------- MODULE TimerQueueProofs --------------------------
(***************************************************************************)
(* TimerQueue for any number of threads, timers, addresses and times.      *)
(***************************************************************************)
EXTENDS TimerQueue, SequenceTheorems, WellFoundedInduction, TLAPS

(* timers_.begin() exists and is the least entry.                          *)
LEMMA EarliestIsLeast ==
    ASSUME NEW left, left \subseteq Nat \X Addresses, left # {}
    PROVE  Earliest(left) \in Nat /\ \A e \in left : Earliest(left) <= e[1]
<1> DEFINE W == {e[1] : e \in left}
<1>1. W \subseteq Nat /\ W # {}
  OBVIOUS
<1>2. PICK w \in W : \A v \in W : ~ (<<v, w>> \in OpToRel(<, Nat))
  BY <1>1, NatLessThanWellFounded, WFMin
<1>3. \A v \in W : w <= v
  <2> SUFFICES ASSUME NEW v \in W, v < w PROVE FALSE
    BY <1>1
  <2>1. <<v, w>> \in Nat \X Nat
    BY <1>1
  <2>2. <<v, w>> \in OpToRel(<, Nat)
    BY <2>1 DEF OpToRel
  <2>. QED  BY <1>2, <2>2
<1>4. \E when \in W : \A e \in left : when <= e[1]
  BY <1>3
<1>5. Earliest(left) \in W /\ \A e \in left : Earliest(left) <= e[1]
  BY <1>4 DEF Earliest
<1>. QED  BY <1>1, <1>5

(* howMuchTimeFromNow never disarms the timerfd.                           *)
LEMMA HowMuchTimeIsPositive ==
    ASSUME NEW when \in Int, now \in Int
    PROVE  HowMuchTimeFromNow(when) \in Nat \ {0}
BY DEF HowMuchTimeFromNow

(* The functor at the head, by its kind.                                   *)
LEMMA HeadFunctor ==
    ASSUME functors \in Seq(Functor), functors # <<>>
    PROVE  /\ Tail(functors) \in Seq(Functor)
           /\ Head(functors).op = "add" => Head(functors).timer \in Addresses
           /\ Head(functors).op = "cancel" => /\ Head(functors).id \in HandedOut
                                             /\ Head(functors).id[1] \in TimerIds
                                             /\ Head(functors).id[2] \in 0..MaxTimers
<1>1. Head(functors) \in Functor /\ Tail(functors) \in Seq(Functor)
  BY HeadTailProperties
<1>2. CASE \E a \in Addresses : Head(functors) = [op |-> "add", timer |-> a]
  BY <1>1, <1>2
<1>3. CASE \E x \in HandedOut : Head(functors) = [op |-> "cancel", id |-> x]
  BY <1>1, <1>3 DEF HandedOut
<1>. QED  BY <1>1, <1>2, <1>3 DEF Functor
-----------------------------------------------------------------------------
(* Both clocks are natural numbers.                                        *)
LEMMA ClockIsNat == TypeOK => now \in Nat /\ started \in Nat
BY BoundsAssumption DEF TypeOK, Times

(* addTimerInLoop and cancelInLoop keep the types of what they change.     *)
LEMMA AddTimerInLoopType ==
    ASSUME TypeOK, NEW a \in Addresses, NEW h,
           h \in [Addresses -> Timer],
           AddTimerInLoop(a, h)
    PROVE  /\ timers' \subseteq Nat \X Addresses
           /\ active' \subseteq TimerIds
           /\ timerfd' \in Int /\ timerfd' >= Off
           /\ canceling' = canceling /\ calling' = calling
<1>1. h[a].expiration \in Nat /\ h[a].sequence \in 0..MaxTimers
  BY DEF Timer
<1>2. HowMuchTimeFromNow(h[a].expiration) \in Nat
  BY <1>1, ClockIsNat, HowMuchTimeIsPositive
<1>3. timers' \subseteq Nat \X Addresses
  BY <1>1 DEF AddTimerInLoop, Insert, TypeOK
<1>4. <<a, h[a].sequence>> \in TimerIds
  BY <1>1 DEF TimerIds
<1>5. active' \subseteq TimerIds
  BY <1>4 DEF AddTimerInLoop, Insert, TypeOK
<1>6. timerfd' \in Int /\ timerfd' >= Off
  BY <1>2 DEF AddTimerInLoop, TypeOK, Off
<1>. QED
  BY <1>3, <1>5, <1>6 DEF AddTimerInLoop

(* cancelInLoop keeps the types.                                           *)
LEMMA CancelInLoopType ==
    ASSUME TypeOK, NEW id \in TimerIds, CancelInLoop(id)
    PROVE  /\ heap' \in [Addresses -> Timer]
           /\ timers' \subseteq Nat \X Addresses
           /\ active' \subseteq TimerIds /\ canceling' \subseteq TimerIds
           /\ calling' = calling
           /\ cancelled' \subseteq 0..MaxTimers
<1>1. id[2] \in 0..MaxTimers
  BY DEF TimerIds
<1>2. Free \in Timer
  BY BoundsAssumption DEF Free, Timer
<1>3. heap' \in [Addresses -> Timer]
  BY <1>2 DEF CancelInLoop, TypeOK
<1>4. canceling' \subseteq TimerIds
  BY DEF CancelInLoop, Canceling, TypeOK
<1>. QED
  BY <1>1, <1>3, <1>4 DEF CancelInLoop, TypeOK

(* A new Timer keeps the types.                                            *)
LEMMA NewTimerType ==
    ASSUME TypeOK, NEW a \in Addresses, NEW when \in Times, NEW i \in Intervals, CanCreate(a)
    PROVE  /\ NewTimer(a, when, i) \in [Addresses -> Timer]
           /\ created + 1 \in 0..MaxTimers
           /\ <<a, created + 1>> \in TimerIds
<1>1. when \in Nat /\ i \in Nat
  BY BoundsAssumption, IntervalsAssumption DEF Times
<1>2. created + 1 \in 0..MaxTimers
  BY BoundsAssumption DEF TypeOK, CanCreate
<1>3. <<a, created + 1>> \in TimerIds
  BY <1>2 DEF TimerIds
<1>4. [sequence |-> created + 1, expiration |-> when, interval |-> i] \in Timer
  BY <1>1, <1>2 DEF Timer
<1>. QED
  BY <1>2, <1>3, <1>4 DEF NewTimer, TypeOK

(* Every step keeps the types of the state of TimerQueue.                  *)
LEMMA TypeStep == TypeOK /\ [Next]_vars => TypeOK'
<1> SUFFICES ASSUME TypeOK, [Next]_vars PROVE TypeOK'
  OBVIOUS
<1> USE DEF queue, batch, bounds, adding, history
<1>1. ASSUME NEW a \in Addresses, NEW when \in Times, NEW i \in Intervals, AddTimer(a, when, i)
      PROVE  TypeOK'
  <2>1. heap' \in [Addresses -> Timer]
        /\ created' \in 0..MaxTimers
    BY <1>1, NewTimerType DEF AddTimer
  <2>2. ids' \subseteq HandedOut
    BY <1>1, NewTimerType DEF AddTimer, HandedOut, TypeOK
  <2>3. AddTimerInLoop(a, heap')
    BY <1>1 DEF AddTimer
  <2>4. /\ timers' \subseteq Nat \X Addresses
        /\ active' \subseteq TimerIds
        /\ timerfd' \in Int /\ timerfd' >= Off
        /\ canceling' = canceling /\ calling' = calling
    BY <2>1, <2>3, AddTimerInLoopType
  <2>. QED  BY <1>1, <2>1, <2>2, <2>4 DEF AddTimer, TypeOK
<1>2. ASSUME NEW a \in Addresses, NEW when \in Times, NEW i \in Intervals, NEW t \in Threads,
             AddTimerFrom(t, a, when, i)
      PROVE  TypeOK'
  <2>1. [op |-> "add", timer |-> a] \in Functor
    BY DEF Functor
  <2>2. functors' \in Seq(Functor)
    BY <1>2, <2>1, AppendProperties DEF AddTimerFrom, TypeOK
  <2>3. heap' \in [Addresses -> Timer]
        /\ created' \in 0..MaxTimers
    BY <1>2, NewTimerType DEF AddTimerFrom
  <2>4. tseq' \in [Threads -> 0..MaxTimers]
    BY <1>2, NewTimerType DEF AddTimerFrom, TypeOK
  <2>. QED  BY <1>2, <2>2, <2>3, <2>4 DEF AddTimerFrom, TypeOK
<1>3. ASSUME NEW t \in Threads, AddTimerReturns(t) PROVE TypeOK'
  <2>1. tpc[t] \in Addresses
    BY <1>3 DEF AddTimerReturns, TypeOK
  <2>2. heap[tpc[t]].sequence \in 0..MaxTimers
    BY <2>1 DEF TypeOK, Timer
  <2>3. PICK s \in 0..MaxTimers : ids' = ids \cup {<<<<tpc[t], s>>, tseq[t]>>}
    BY <1>3, <2>2 DEF AddTimerReturns
  <2>4. ids' \subseteq HandedOut
    BY <2>1, <2>3 DEF TypeOK, TimerIds, HandedOut
  <2>. QED  BY <1>3, <2>4, BoundsAssumption DEF AddTimerReturns, TypeOK
<1>4. ASSUME NEW x \in ids, Cancel(x) PROVE TypeOK'
  <2>1. x[1] \in TimerIds /\ CancelInLoop(x[1]) /\ asked' \subseteq 0..MaxTimers
    BY <1>4 DEF Cancel, TypeOK, HandedOut
  <2>2. cancels' \in 0..MaxCancels
    BY <1>4, BoundsAssumption DEF Cancel, TypeOK
  <2>. QED  BY <1>4, <2>1, <2>2, CancelInLoopType DEF Cancel, TypeOK
<1>5. ASSUME NEW x \in ids, NEW t \in Threads, CancelFrom(t, x) PROVE TypeOK'
  <2>1. [op |-> "cancel", id |-> x] \in Functor
    BY DEF Functor, TypeOK
  <2>2. functors' \in Seq(Functor)
    BY <1>5, <2>1, AppendProperties DEF CancelFrom, TypeOK
  <2>3. cancels' \in 0..MaxCancels
    BY <1>5, BoundsAssumption DEF CancelFrom, TypeOK
  <2>. QED  BY <1>5, <2>2, <2>3 DEF CancelFrom, TypeOK
<1>6. CASE RunAdd
  <2>1. Head(functors).timer \in Addresses /\ functors' \in Seq(Functor)
    BY <1>6, HeadFunctor DEF RunAdd, Runs, TypeOK
  <2>2. heap \in [Addresses -> Timer]
    BY DEF TypeOK
  <2>3. AddTimerInLoop(Head(functors).timer, heap)
    BY <1>6 DEF RunAdd
  <2>4. /\ timers' \subseteq Nat \X Addresses
        /\ active' \subseteq TimerIds
        /\ timerfd' \in Int /\ timerfd' >= Off
        /\ canceling' = canceling /\ calling' = calling
    BY <2>1, <2>2, <2>3, AddTimerInLoopType
  <2>. QED  BY <1>6, <2>1, <2>4 DEF RunAdd, TypeOK
<1>7. CASE RunCancel
  <2>1. Head(functors).id[1] \in TimerIds /\ functors' \in Seq(Functor)
    BY <1>7, HeadFunctor DEF RunCancel, Runs, TypeOK
  <2>2. CancelInLoop(Head(functors).id[1]) /\ asked' \subseteq 0..MaxTimers
    BY <1>7, HeadFunctor DEF RunCancel, Runs, TypeOK
  <2>. QED  BY <1>7, <2>1, <2>2, CancelInLoopType DEF RunCancel, TypeOK
<1>8. CASE Poll
  BY <1>8 DEF Poll, TypeOK
<1>9. CASE HandleRead
  <2>1. /\ expired' \subseteq timers /\ todo' = expired'
        /\ timers' \subseteq timers /\ active' \subseteq active
    BY <1>9 DEF HandleRead, Expired, StillActive
  <2>2. timerfd' \in Int /\ timerfd' >= Off
    BY <1>9 DEF HandleRead, TypeOK, Off
  <2>. QED  BY <1>9, <2>1, <2>2 DEF HandleRead, TypeOK
<1>10. ASSUME NEW e \in todo, RunTimer(e) PROVE TypeOK'
  <2>1. heap[e[2]] \in Timer
    BY DEF TypeOK
  <2>2. current' \in 0..MaxTimers
    BY <1>10, <2>1 DEF RunTimer, Timer
  <2>. QED  BY <1>10, <2>2 DEF RunTimer, TypeOK
<1>11. CASE CallbackReturns
  BY <1>11, BoundsAssumption DEF CallbackReturns, TypeOK
<1>12. CASE Reset
  <2>1. \A e \in expired : e[2] \in Addresses /\ Restarted(e[2]) \in Timer
    <3> SUFFICES ASSUME NEW e \in expired PROVE e[2] \in Addresses /\ Restarted(e[2]) \in Timer
      OBVIOUS
    <3>1. e[2] \in Addresses
      BY DEF TypeOK
    <3>2. heap[e[2]] \in Timer
      BY <3>1 DEF TypeOK
    <3>. QED  BY <3>1, <3>2, ClockIsNat DEF Restarted, Timer
  <2>2. Free \in Timer
    BY BoundsAssumption DEF Free, Timer
  <2>3. heap' \in [Addresses -> Timer]
    BY <1>12, <2>1, <2>2 DEF Reset, Again, TypeOK
  <2>4. timers' \subseteq Nat \X Addresses
    <3>1. \A e \in Again : <<Restarted(e[2]).expiration, e[2]>> \in Nat \X Addresses
      BY <2>1 DEF Again, Timer
    <3>. QED  BY <1>12, <3>1 DEF Reset, TypeOK
  <2>5. active' \subseteq TimerIds
    <3>1. \A e \in Again : <<e[2], heap[e[2]].sequence>> \in TimerIds
      BY <2>1 DEF Again, Timer, TypeOK, TimerIds
    <3>. QED  BY <1>12, <3>1 DEF Reset, TypeOK
  <2>6. timerfd' \in Int /\ timerfd' >= Off
    <3>1. CASE timers' = {}
      BY <1>12, <3>1 DEF Reset, Rearmed, TypeOK
    <3>2. CASE timers' # {}
      <4>1. HowMuchTimeFromNow(Earliest(timers')) \in Nat
        BY <2>4, <3>2, EarliestIsLeast, HowMuchTimeIsPositive, ClockIsNat
      <4>. QED  BY <1>12, <3>2, <4>1 DEF Reset, Rearmed, Off
    <3>. QED  BY <3>1, <3>2
  <2>. QED  BY <1>12, <2>3, <2>4, <2>5, <2>6 DEF Reset, TypeOK
<1>13. CASE Tick
  BY <1>13, BoundsAssumption DEF Tick, TypeOK, Times, Off
<1>14. ASSUME NEW n \in Times, SetClock(n) PROVE TypeOK'
  BY <1>14, BoundsAssumption DEF SetClock, TypeOK
<1>15. CASE UNCHANGED vars
  BY <1>15 DEF vars, TypeOK
<1>. QED
  BY <1>1, <1>2, <1>3, <1>4, <1>5, <1>6, <1>7, <1>8, <1>9, <1>10, <1>11, <1>12, <1>13,
     <1>14, <1>15
  DEF Next, LoopStep

(* The initial state is well typed.                                        *)
LEMMA TypeInit == Init => TypeOK
<1> SUFFICES ASSUME Init PROVE TypeOK
  OBVIOUS
<1>1. Free \in Timer
  BY BoundsAssumption DEF Free, Timer
<1>2. heap \in [Addresses -> Timer]
  BY <1>1 DEF Init
<1>3. <<>> \in Seq(Functor)
  OBVIOUS
<1>4. 0 \in Times /\ 0 \in 0..MaxTimers /\ 0 \in 0..MaxCancels /\ 0 \in 0..MaxJumps
  BY BoundsAssumption DEF Times
<1>5. timerfd \in Int /\ timerfd >= Off
  BY DEF Init, Off
<1>. QED
  BY <1>2, <1>3, <1>4, <1>5 DEF Init, TypeOK

(* The variables of a TimerQueue always have their types; in particular    *)
(* the timerfd is never set to less than one tick.                         *)
THEOREM TypeCorrect == Spec => []TypeOK
BY TypeInit, TypeStep, PTL DEF Spec
-----------------------------------------------------------------------------
(* The timerfd.  With the types, NoTimerForgotten and ArmedInTime are      *)
(* inductive as they stand.                                                *)
Armed == NoTimerForgotten /\ ArmedInTime

(* An earlier expiration never gives a longer delay.                       *)
LEMMA HowMuchTimeIsMonotone ==
    ASSUME NEW v \in Int, NEW w \in Int, now \in Int, v <= w
    PROVE  HowMuchTimeFromNow(v) <= HowMuchTimeFromNow(w)
BY DEF HowMuchTimeFromNow

(* A step that adds no timer and leaves clocks and control alone.          *)
LEMMA ArmedFrame ==
    ASSUME Armed, timers' \subseteq timers,
           timerfd' = timerfd, pc' = pc, now' = now, jumps' = jumps, reported' = reported
    PROVE  Armed'
BY DEF Armed, NoTimerForgotten, ArmedInTime

(* addTimerInLoop arms the timerfd for a timer before all others, and      *)
(* otherwise leaves it to an earlier one.                                  *)
LEMMA AddTimerInLoopArms ==
    ASSUME TypeOK, Armed, NEW a \in Addresses, NEW h, h \in [Addresses -> Timer],
           AddTimerInLoop(a, h),
           pc' = pc, now' = now, jumps' = jumps, reported' = reported
    PROVE  Armed'
<1> DEFINE w == h[a].expiration
<1>1. w \in Nat /\ now \in Nat
  BY ClockIsNat DEF Timer
<1>2. timers' = timers \cup {<<w, a>>}
  BY DEF AddTimerInLoop, Insert
<1>3. \A e \in timers : e[1] \in Nat
  BY DEF TypeOK
<1>4. CASE EarliestChanged(w)
  <2>1. timerfd' = HowMuchTimeFromNow(w) /\ timerfd' \in Nat \ {0}
    BY <1>1, <1>4, HowMuchTimeIsPositive DEF AddTimerInLoop
  <2>2. NoTimerForgotten'
    BY <2>1 DEF NoTimerForgotten, Off
  <2>3. \A e \in timers' : timerfd' <= HowMuchTimeFromNow(e[1])
    <3>1. ASSUME NEW e \in timers PROVE timerfd' <= HowMuchTimeFromNow(e[1])
      BY <1>1, <1>3, <1>4, <2>1 DEF EarliestChanged, HowMuchTimeFromNow
    <3>2. timerfd' <= HowMuchTimeFromNow(w)
      BY <2>1
    <3>. QED  BY <1>2, <3>1, <3>2
  <2>. QED  BY <2>2, <2>3 DEF Armed, ArmedInTime, HowMuchTimeFromNow
<1>5. CASE ~EarliestChanged(w)
  <2>1. timerfd' = timerfd /\ timerfd \in Int
    BY <1>5 DEF AddTimerInLoop, TypeOK
  <2>2. PICK f \in timers : f[1] <= w
    BY <1>1, <1>3, <1>5 DEF EarliestChanged
  <2>3. NoTimerForgotten'
    BY <2>1, <2>2 DEF Armed, NoTimerForgotten
  <2>4. ASSUME pc = "idle", jumps = 0, ~reported
        PROVE  \A e \in timers' : timerfd' <= HowMuchTimeFromNow(e[1])
    <3>1. \A e \in timers : timerfd <= HowMuchTimeFromNow(e[1])
      BY <2>4 DEF Armed, ArmedInTime, HowMuchTimeFromNow
    <3>2. timerfd <= HowMuchTimeFromNow(w)
      BY <1>1, <1>3, <2>1, <2>2, <3>1 DEF HowMuchTimeFromNow
    <3>. QED  BY <1>2, <2>1, <3>1, <3>2
  <2>. QED  BY <2>3, <2>4 DEF Armed, ArmedInTime, HowMuchTimeFromNow
<1>. QED  BY <1>4, <1>5

(* Every step keeps the timerfd armed for the first timer.                 *)
LEMMA ArmedStep == TypeOK /\ Armed /\ [Next]_vars => Armed'
<1> SUFFICES ASSUME TypeOK, Armed, [Next]_vars PROVE Armed'
  OBVIOUS
<1>0. TypeOK' /\ now \in Nat
  BY TypeStep, ClockIsNat
<1> USE DEF queue, batch, bounds, adding, history
<1>1. ASSUME NEW a \in Addresses, NEW when \in Times, NEW i \in Intervals, AddTimer(a, when, i)
      PROVE  Armed'
  <2>1. heap' \in [Addresses -> Timer] /\ AddTimerInLoop(a, heap')
    BY <1>0, <1>1 DEF AddTimer, TypeOK
  <2>2. pc' = pc /\ now' = now /\ jumps' = jumps /\ reported' = reported
    BY <1>1 DEF AddTimer
  <2>. QED  BY <2>1, <2>2, AddTimerInLoopArms
<1>2. CASE RunAdd
  <2>1. /\ heap \in [Addresses -> Timer] /\ Head(functors).timer \in Addresses
        /\ AddTimerInLoop(Head(functors).timer, heap)
    BY <1>2, HeadFunctor DEF RunAdd, Runs, TypeOK
  <2>2. pc' = pc /\ now' = now /\ jumps' = jumps /\ reported' = reported
    BY <1>2 DEF RunAdd
  <2>. QED  BY <2>1, <2>2, AddTimerInLoopArms
<1>3. CASE \/ \E a \in Addresses, when \in Times, i \in Intervals, t \in Threads :
                AddTimerFrom(t, a, when, i)
           \/ \E t \in Threads : AddTimerReturns(t)
  BY <1>3, ArmedFrame DEF AddTimerFrom, AddTimerReturns
<1>4. CASE \E x \in ids : Cancel(x) \/ \E t \in Threads : CancelFrom(t, x)
  BY <1>4, ArmedFrame DEF Cancel, CancelInLoop, CancelFrom
<1>5. CASE RunCancel
  BY <1>5, ArmedFrame DEF RunCancel, CancelInLoop
<1>6. CASE Poll
  BY <1>6 DEF Poll, Armed, NoTimerForgotten, ArmedInTime
<1>7. CASE HandleRead \/ CallbackReturns \/ \E e \in todo : RunTimer(e)
  BY <1>7 DEF HandleRead, CallbackReturns, RunTimer, Armed, NoTimerForgotten, ArmedInTime
<1>8. CASE Reset
  <2>1. CASE timers' = {}
    BY <2>1 DEF Armed, NoTimerForgotten, ArmedInTime
  <2>2. CASE timers' # {}
    <3>1. timers' \subseteq Nat \X Addresses /\ now' = now
      BY <1>0, <1>8 DEF Reset, TypeOK
    <3>2. /\ Earliest(timers') \in Nat
          /\ \A e \in timers' : Earliest(timers') <= e[1] /\ e[1] \in Nat
      BY <2>2, <3>1, EarliestIsLeast
    <3>3. timerfd' = HowMuchTimeFromNow(Earliest(timers')) /\ timerfd' \in Nat \ {0}
      BY <1>0, <1>8, <2>2, <3>2, HowMuchTimeIsPositive DEF Reset, Rearmed
    <3>4. \A e \in timers' : timerfd' <= HowMuchTimeFromNow(e[1])
      BY <1>0, <3>2, <3>3, HowMuchTimeIsMonotone
    <3>. QED
      BY <3>1, <3>3, <3>4 DEF Armed, NoTimerForgotten, ArmedInTime, HowMuchTimeFromNow, Off
  <2>. QED  BY <2>1, <2>2
<1>9. CASE Tick
  <2>1. /\ timers' = timers /\ pc' = pc /\ jumps' = jumps /\ reported' = reported
        /\ now' = now \/ now' = now + 1
        /\ timerfd' = IF timerfd > 0 THEN timerfd - 1 ELSE timerfd
        /\ timerfd \in Int
    BY <1>9 DEF Tick, TypeOK
  <2>2. NoTimerForgotten'
    BY <2>1 DEF Armed, NoTimerForgotten, Off
  <2>3. \A e \in timers : e[1] \in Nat
    BY DEF TypeOK
  <2>4. ArmedInTime'
    BY <1>0, <2>1, <2>3 DEF Armed, ArmedInTime
  <2>. QED  BY <2>2, <2>4 DEF Armed
<1>10. ASSUME NEW n \in Times, SetClock(n) PROVE Armed'
  BY <1>10 DEF SetClock, TypeOK, Armed, NoTimerForgotten, ArmedInTime
<1>11. CASE UNCHANGED vars
  BY <1>11, ArmedFrame DEF vars
<1>. QED
  BY <1>1, <1>2, <1>3, <1>4, <1>5, <1>6, <1>7, <1>8, <1>9, <1>10, <1>11 DEF Next, LoopStep

(* So it is armed in every reachable state.                                *)
LEMMA ArmedInvariant == Spec => [](TypeOK /\ Armed)
<1>1. Init => TypeOK /\ Armed
  BY TypeInit DEF Init, Armed, NoTimerForgotten, ArmedInTime
<1>2. TypeOK /\ Armed /\ [Next]_vars => (TypeOK /\ Armed)'
  BY TypeStep, ArmedStep
<1>. QED  BY <1>1, <1>2, PTL DEF Spec

(* Outside handleRead no timer waits on a timerfd that is off, whatever is *)
(* added, cancelled or done to the wall clock.                             *)
THEOREM TimerNeverForgotten == Spec => []NoTimerForgotten
<1>1. Armed => NoTimerForgotten
  BY DEF Armed
<1>. QED  BY <1>1, ArmedInvariant, PTL

(* As long as nobody sets the clock the timerfd expires no later than the  *)
(* first timer is due, but for the least delay of howMuchTimeFromNow.      *)
THEOREM TimerfdInTime == Spec => []ArmedInTime
<1>1. Armed => ArmedInTime
  BY DEF Armed
<1>. QED  BY <1>1, ArmedInvariant, PTL

(* Both together: whatever thread adds a timer and whatever the clock does *)
(* the timerfd looks after the queued timers.                              *)
THEOREM TimerfdAlwaysCovers == Spec => []TimerfdCovers
BY TimerNeverForgotten, TimerfdInTime, PTL DEF TimerfdCovers
-----------------------------------------------------------------------------
(* The owners of a timer.                                                  *)

Queued == {x[1] : x \in active}
Due == {e[2] : e \in expired}

\* the entries of handleRead's vector still describe their timers
BatchIsReal == \A e \in expired : e[1] = heap[e[2]].expiration

\* the vector is handleRead's own
BatchIsLocal == pc = "idle" => expired = {}

\* no two functors add the same timer
AddsDiffer ==
    \A i, j \in DOMAIN functors :
        /\ functors[i].op = "add" /\ functors[j].op = "add"
        /\ functors[i].timer = functors[j].timer
        => i = j

\* SetsAgree, timer by timer
Agree ==
    /\ \A x \in active : /\ x[2] # 0 /\ heap[x[1]].sequence = x[2]
                         /\ <<heap[x[1]].expiration, x[1]>> \in timers
    /\ \A e \in timers : e[1] = heap[e[2]].expiration /\ e[2] \in Queued

\* OneOwner, address by address
OwnersApart ==
    \A a \in Addresses :
        /\ ~(a \in Queued /\ a \in Due)
        /\ ~(a \in Queued /\ a \in Waiting)
        /\ ~(a \in Due /\ a \in Waiting)
        /\ Allocated(a) <=> a \in Queued \/ a \in Due \/ a \in Waiting

Owned == Agree /\ OwnersApart /\ BatchIsReal /\ BatchIsLocal /\ AddsDiffer

(* The pointwise form of ownership gives OneOwner.                         *)
LEMMA OwnersApartIsOneOwner ==
    ASSUME TypeOK, OwnersApart
    PROVE  OneOwner
<1>1. Queued \subseteq Addresses
  BY DEF Queued, TypeOK, TimerIds
<1>2. Due \subseteq Addresses
  BY DEF Due, TypeOK
<1>3. Waiting \subseteq Addresses
  <2> SUFFICES ASSUME NEW i \in DOMAIN functors, functors[i].op = "add"
               PROVE  functors[i].timer \in Addresses
    BY DEF Waiting
  <2>1. functors[i] \in Functor
    BY DEF TypeOK
  <2>. QED  BY <2>1 DEF Functor
<1>4. /\ Queued \cap Due = {} /\ Queued \cap Waiting = {} /\ Due \cap Waiting = {}
      /\ {a \in Addresses : Allocated(a)} = Queued \cup Due \cup Waiting
  BY <1>1, <1>2, <1>3 DEF OwnersApart
<1>. QED  BY <1>4 DEF OneOwner, Queued, Due

(* The pointwise form of agreement gives SetsAgree.                        *)
LEMMA AgreeIsSetsAgree ==
    ASSUME TypeOK, Agree
    PROVE  SetsAgree
<1>1. ASSUME NEW x \in active PROVE <<heap[x[1]].expiration, x[1]>> \in timers
  BY DEF Agree
<1>2. ASSUME NEW e \in timers PROVE \E x \in active : e = <<heap[x[1]].expiration, x[1]>>
  <2>1. e = <<e[1], e[2]>>
    BY DEF TypeOK
  <2>2. PICK x \in active : x[1] = e[2]
    BY DEF Agree, Queued
  <2>. QED  BY <2>1, <2>2 DEF Agree
<1>3. timers = {<<heap[x[1]].expiration, x[1]>> : x \in active}
  BY <1>1, <1>2
<1>. QED  BY <1>3 DEF Agree, SetsAgree

(* How the queue of functors changes the timers that wait in it.           *)
LEMMA WaitingAppendAdd ==
    ASSUME TypeOK, AddsDiffer, NEW a \in Addresses, a \notin Waiting,
           functors' = Append(functors, [op |-> "add", timer |-> a])
    PROVE  Waiting' = Waiting \cup {a} /\ AddsDiffer'
<1> DEFINE f == [op |-> "add", timer |-> a]
           n == Len(functors)
<1>1. functors \in Seq(Functor) /\ f \in Functor
  BY DEF TypeOK, Functor
<1>2. /\ n \in Nat /\ DOMAIN functors = 1..n /\ DOMAIN functors' = 1..(n + 1)
      /\ \A i \in 1..n : functors'[i] = functors[i]
      /\ functors'[n + 1] = f
  BY <1>1
<1>3. Waiting' = {functors'[i].timer : i \in {j \in 1..(n + 1) : functors'[j].op = "add"}}
  BY <1>2 DEF Waiting
<1>4. Waiting = {functors[i].timer : i \in {j \in 1..n : functors[j].op = "add"}}
  BY <1>2 DEF Waiting
<1>5. Waiting' = Waiting \cup {a}
  BY <1>2, <1>3, <1>4
<1>6. AddsDiffer'
  <2> SUFFICES ASSUME NEW i \in 1..(n + 1), NEW j \in 1..(n + 1),
                      functors'[i].op = "add", functors'[j].op = "add",
                      functors'[i].timer = functors'[j].timer
               PROVE  i = j
    BY <1>2 DEF AddsDiffer
  <2>1. \A k \in 1..n : functors[k].op = "add" => functors[k].timer # a
    BY <1>4
  <2>2. CASE i = n + 1 \/ j = n + 1
    BY <1>2, <2>1, <2>2
  <2>3. CASE i \in 1..n /\ j \in 1..n
    BY <1>2, <2>3 DEF AddsDiffer
  <2>. QED  BY <1>2, <2>2, <2>3
<1>. QED  BY <1>5, <1>6

(* A queued cancel adds no timer that waits to be added.                   *)
LEMMA WaitingAppendCancel ==
    ASSUME TypeOK, AddsDiffer, NEW x \in HandedOut,
           functors' = Append(functors, [op |-> "cancel", id |-> x])
    PROVE  Waiting' = Waiting /\ AddsDiffer'
<1> DEFINE f == [op |-> "cancel", id |-> x]
           n == Len(functors)
<1>1. functors \in Seq(Functor) /\ f \in Functor
  BY DEF TypeOK, Functor
<1>2. /\ n \in Nat /\ DOMAIN functors = 1..n /\ DOMAIN functors' = 1..(n + 1)
      /\ \A i \in 1..n : functors'[i] = functors[i]
      /\ functors'[n + 1].op = "cancel"
  BY <1>1
<1>3. Waiting' = {functors'[i].timer : i \in {j \in 1..(n + 1) : functors'[j].op = "add"}}
  BY <1>2 DEF Waiting
<1>4. Waiting = {functors[i].timer : i \in {j \in 1..n : functors[j].op = "add"}}
  BY <1>2 DEF Waiting
<1>5. {j \in 1..(n + 1) : functors'[j].op = "add"} = {j \in 1..n : functors[j].op = "add"}
  BY <1>2
<1>6. Waiting' = Waiting
  BY <1>2, <1>3, <1>4, <1>5
<1>. QED  BY <1>2, <1>5, <1>6 DEF AddsDiffer

(* Running a functor leaves at most the timers that waited.                *)
LEMMA WaitingTail ==
    ASSUME TypeOK, AddsDiffer, functors # <<>>, functors' = Tail(functors)
    PROVE  /\ AddsDiffer'
           /\ Head(functors).op = "cancel" => Waiting' = Waiting
           /\ Head(functors).op = "add" =>
                /\ Head(functors).timer \in Waiting
                /\ Waiting' = Waiting \ {Head(functors).timer}
<1> DEFINE n == Len(functors)
<1>1. /\ n \in Nat \ {0} /\ DOMAIN functors = 1..n /\ DOMAIN functors' = 1..(n - 1)
      /\ \A i \in 1..(n - 1) : functors'[i] = functors[i + 1]
      /\ Head(functors) = functors[1]
  BY DEF TypeOK
<1>2. AddsDiffer'
  <2> SUFFICES ASSUME NEW i \in 1..(n - 1), NEW j \in 1..(n - 1),
                      functors'[i].op = "add", functors'[j].op = "add",
                      functors'[i].timer = functors'[j].timer
               PROVE  i = j
    BY <1>1 DEF AddsDiffer
  <2>1. i + 1 \in DOMAIN functors /\ j + 1 \in DOMAIN functors
    BY <1>1
  <2>2. i + 1 = j + 1
    BY <1>1, <2>1 DEF AddsDiffer
  <2>. QED  BY <2>2
<1>3. \A a : a \in Waiting <=> \E i \in 1..n : functors[i].op = "add" /\ functors[i].timer = a
  BY <1>1 DEF Waiting
<1>4. \A a : a \in Waiting' <=>
        \E i \in 1..(n - 1) : functors'[i].op = "add" /\ functors'[i].timer = a
  BY <1>1 DEF Waiting
<1>5. \A a : a \in Waiting' <=> \E i \in 2..n : functors[i].op = "add" /\ functors[i].timer = a
  <2>1. ASSUME NEW a, NEW i \in 2..n, functors[i].op = "add", functors[i].timer = a
        PROVE  a \in Waiting'
    <3>1. i - 1 \in 1..(n - 1) /\ functors'[i - 1] = functors[i]
      BY <1>1
    <3>. QED  BY <1>4, <2>1, <3>1
  <2>2. ASSUME NEW a, a \in Waiting'
        PROVE  \E i \in 2..n : functors[i].op = "add" /\ functors[i].timer = a
    <3>1. PICK i \in 1..(n - 1) : functors'[i].op = "add" /\ functors'[i].timer = a
      BY <1>4, <2>2
    <3>2. i + 1 \in 2..n /\ functors[i + 1] = functors'[i]
      BY <1>1
    <3>. QED  BY <3>1, <3>2
  <2>. QED  BY <2>1, <2>2
<1>6. ASSUME Head(functors).op = "cancel" PROVE Waiting' = Waiting
  <2>1. functors[1].op # "add"
    BY <1>1, <1>6
  <2>2. \A a : a \in Waiting' <=> a \in Waiting
    BY <1>1, <1>3, <1>5, <2>1
  <2>. QED  BY <2>2
<1>7. ASSUME Head(functors).op = "add"
      PROVE  /\ Head(functors).timer \in Waiting
             /\ Waiting' = Waiting \ {Head(functors).timer}
  <2>1. functors[1].timer \in Waiting
    BY <1>1, <1>3, <1>7
  <2>2. functors[1].timer \notin Waiting'
    BY <1>1, <1>5, <1>7 DEF AddsDiffer
  <2>3. \A a : a \in Waiting' <=> a \in Waiting /\ a # functors[1].timer
    BY <1>1, <1>3, <1>5, <2>2
  <2>. QED  BY <1>1, <2>1, <2>3
<1>. QED  BY <1>2, <1>6, <1>7

(* A step that touches neither the heap nor the sets nor the functors.     *)
LEMMA OwnedFrame ==
    ASSUME Owned, heap' = heap, timers' = timers, active' = active, functors' = functors,
           expired' = expired, pc' = "idle" => pc = "idle"
    PROVE  Owned'
<1>1. Queued' = Queued /\ Due' = Due /\ Waiting' = Waiting
  BY DEF Queued, Due, Waiting
<1>2. Agree' /\ OwnersApart'
  BY <1>1 DEF Owned, Agree, OwnersApart, Allocated
<1>3. BatchIsReal' /\ BatchIsLocal' /\ AddsDiffer'
  BY DEF Owned, BatchIsReal, BatchIsLocal, AddsDiffer
<1>. QED  BY <1>2, <1>3 DEF Owned

(* new Timer takes an address that nobody owns.                            *)
LEMMA NewTimerIsOnlyNew ==
    ASSUME TypeOK, Owned, NEW a \in Addresses, NEW when, NEW i, CanCreate(a),
           heap' = NewTimer(a, when, i)
    PROVE  /\ a \notin Queued /\ a \notin Due /\ a \notin Waiting
           /\ heap'[a] = [sequence |-> created + 1, expiration |-> when, interval |-> i]
           /\ heap'[a].sequence # 0
           /\ \A b \in Addresses : b # a => heap'[b] = heap[b]
<1>1. a \notin Queued /\ a \notin Due /\ a \notin Waiting
  BY DEF CanCreate, Owned, OwnersApart
<1>2. heap'[a] = [sequence |-> created + 1, expiration |-> when, interval |-> i]
  BY DEF NewTimer, TypeOK
<1>3. heap'[a].sequence # 0
  BY <1>2 DEF TypeOK
<1>4. \A b \in Addresses : b # a => heap'[b] = heap[b]
  BY DEF NewTimer, TypeOK
<1>. QED  BY <1>1, <1>2, <1>3, <1>4

(* insert of a timer at a, which is not queued.                            *)
LEMMA InsertAgrees ==
    ASSUME TypeOK, Agree, NEW a \in Addresses, a \notin Queued,
           heap'[a].sequence # 0,
           \A b \in Addresses : b # a => heap'[b] = heap[b],
           timers' = timers \cup {<<heap'[a].expiration, a>>},
           active' = active \cup {<<a, heap'[a].sequence>>}
    PROVE  Agree' /\ Queued' = Queued \cup {a}
<1>1. \A x \in active : x[1] \in Addresses /\ x[1] # a /\ heap'[x[1]] = heap[x[1]]
  BY DEF Queued, TypeOK, TimerIds
<1>2. \A b : b \in Queued' <=> b \in Queued \/ b = a
  <2>1. \A x \in active' : x \in active \/ x[1] = a
    OBVIOUS
  <2>2. <<a, heap'[a].sequence>> \in active' /\ <<a, heap'[a].sequence>>[1] = a
    OBVIOUS
  <2>. QED  BY <2>1, <2>2 DEF Queued
<1>3. \A x \in active' : /\ x[2] # 0 /\ heap'[x[1]].sequence = x[2]
                         /\ <<heap'[x[1]].expiration, x[1]>> \in timers'
  BY <1>1 DEF Agree
<1>4. \A e \in timers : e[2] \in Addresses /\ e[2] # a /\ heap'[e[2]] = heap[e[2]]
  BY DEF Agree, TypeOK
<1>5. \A e \in timers' : e[1] = heap'[e[2]].expiration /\ e[2] \in Queued'
  BY <1>2, <1>4 DEF Agree
<1>. QED  BY <1>2, <1>3, <1>5 DEF Agree

(* addTimer in the loop thread gives the new Timer to the queue.           *)
LEMMA AddTimerOwned ==
    ASSUME TypeOK, Owned, NEW a \in Addresses, NEW when \in Times,
           NEW i \in Intervals, AddTimer(a, when, i)
    PROVE  Owned'
<1>1. /\ a \notin Queued /\ a \notin Due /\ a \notin Waiting
      /\ heap'[a].sequence # 0
      /\ \A b \in Addresses : b # a => heap'[b] = heap[b]
  BY NewTimerIsOnlyNew DEF AddTimer
<1>2. timers' = timers \cup {<<heap'[a].expiration, a>>}
      /\ active' = active \cup {<<a, heap'[a].sequence>>}
  BY DEF AddTimer, AddTimerInLoop, Insert
<1>3. Agree' /\ Queued' = Queued \cup {a}
  BY <1>1, <1>2, InsertAgrees DEF Owned
<1>4. expired' = expired /\ functors' = functors /\ pc' = pc
  BY DEF AddTimer, batch
<1>5. Due' = Due /\ Waiting' = Waiting /\ AddsDiffer' /\ BatchIsLocal'
  BY <1>4 DEF Due, Waiting, Owned, AddsDiffer, BatchIsLocal
<1>6. OwnersApart'
  BY <1>1, <1>3, <1>5 DEF Owned, OwnersApart, Allocated
<1>7. BatchIsReal'
  BY <1>1, <1>4 DEF Owned, BatchIsReal, Due, TypeOK
<1>. QED  BY <1>3, <1>5, <1>6, <1>7 DEF Owned

(* addTimer in another thread gives it to the functor.                     *)
LEMMA AddTimerFromOwned ==
    ASSUME TypeOK, Owned, NEW a \in Addresses, NEW when \in Times,
           NEW i \in Intervals, NEW t \in Threads, AddTimerFrom(t, a, when, i)
    PROVE  Owned'
<1>1. /\ a \notin Queued /\ a \notin Due /\ a \notin Waiting
      /\ heap'[a].sequence # 0
      /\ \A b \in Addresses : b # a => heap'[b] = heap[b]
  BY NewTimerIsOnlyNew DEF AddTimerFrom
<1>2. Waiting' = Waiting \cup {a} /\ AddsDiffer'
  BY <1>1, WaitingAppendAdd DEF AddTimerFrom, Owned
<1>3. expired' = expired /\ active' = active /\ timers' = timers /\ pc' = pc
  BY DEF AddTimerFrom, batch, queue
<1>4. Due' = Due /\ Queued' = Queued /\ BatchIsLocal'
  BY <1>3 DEF Due, Queued, Owned, BatchIsLocal
<1>5. OwnersApart'
  BY <1>1, <1>2, <1>4 DEF Owned, OwnersApart, Allocated
<1>6. \A x \in active : x[1] \in Addresses /\ x[1] # a
  BY <1>1 DEF Queued, TypeOK, TimerIds
<1>7. \A e \in timers : e[2] \in Addresses /\ e[2] # a
  BY <1>1 DEF Agree, Owned, TypeOK
<1>8. Agree'
  BY <1>1, <1>3, <1>4, <1>6, <1>7 DEF Owned, Agree
<1>9. BatchIsReal'
  BY <1>1, <1>3 DEF Owned, BatchIsReal, Due, TypeOK
<1>. QED  BY <1>2, <1>4, <1>5, <1>8, <1>9 DEF Owned

(* addTimerInLoop takes the Timer from the functor into the queue.         *)
LEMMA RunAddOwned ==
    ASSUME TypeOK, Owned, RunAdd
    PROVE  Owned'
<1> DEFINE a == Head(functors).timer
<1>1. functors # <<>> /\ functors' = Tail(functors) /\ Head(functors).op = "add" /\ heap' = heap
  BY DEF RunAdd, Runs
<1>2. a \in Addresses
  BY <1>1, HeadFunctor DEF TypeOK
<1>3. a \in Waiting /\ Waiting' = Waiting \ {a} /\ AddsDiffer'
  BY <1>1, WaitingTail DEF Owned
<1>4. a \notin Queued /\ a \notin Due /\ heap'[a].sequence # 0
  BY <1>1, <1>2, <1>3 DEF Owned, OwnersApart, Allocated
<1>5. timers' = timers \cup {<<heap'[a].expiration, a>>}
      /\ active' = active \cup {<<a, heap'[a].sequence>>}
  BY <1>1 DEF RunAdd, AddTimerInLoop, Insert
<1>6. Agree' /\ Queued' = Queued \cup {a}
  BY <1>1, <1>2, <1>4, <1>5, InsertAgrees DEF Owned
<1>7. expired' = expired /\ pc' = pc
  BY DEF RunAdd, batch
<1>8. Due' = Due /\ BatchIsLocal' /\ BatchIsReal'
  BY <1>1, <1>7 DEF Due, Owned, BatchIsLocal, BatchIsReal
<1>9. OwnersApart'
  BY <1>1, <1>2, <1>3, <1>6, <1>8 DEF Owned, OwnersApart, Allocated
<1>. QED  BY <1>3, <1>6, <1>8, <1>9 DEF Owned

(* cancelInLoop deletes a queued timer, or leaves heap and sets alone.     *)
LEMMA CancelInLoopOwned ==
    ASSUME TypeOK, Owned, NEW id \in TimerIds, CancelInLoop(id),
           expired' = expired, pc' = pc, Waiting' = Waiting, AddsDiffer'
    PROVE  Owned'
<1>1. Due' = Due /\ BatchIsLocal'
  BY DEF Due, Owned, BatchIsLocal
<1>2. \A x \in active : x[1] \in Addresses /\ heap[x[1]].sequence = x[2] /\ x = <<x[1], x[2]>>
  <2>1. \A x \in active : x[1] \in Addresses /\ x = <<x[1], x[2]>>
    BY DEF TypeOK, TimerIds
  <2>. QED  BY <2>1 DEF Owned, Agree
<1>3. \A e \in timers : e[2] \in Addresses /\ e[1] = heap[e[2]].expiration /\ e[2] \in Queued
  BY DEF Owned, Agree, TypeOK
<1>4. CASE id \in active
  <2> DEFINE a == id[1]
  <2>1. Named(id) = {id} /\ {x[1] : x \in Named(id)} = {a} /\ a \in Addresses
    BY <1>2, <1>4 DEF Named
  <2>2. /\ heap'[a] = Free
        /\ \A b \in Addresses : b # a => heap'[b] = heap[b]
    BY <2>1 DEF CancelInLoop
  <2>3. active' = active \ {id}
    BY <2>1 DEF CancelInLoop
  <2>4. timers' = {e \in timers : e[2] # a}
    BY <1>3, <2>1 DEF CancelInLoop
  <2>5. \A x \in active : x[1] = a => x = id
    BY <1>2, <1>4
  <2>6. \A b : b \in Queued' <=> b \in Queued /\ b # a
    BY <2>3, <2>5 DEF Queued
  <2>7. a \in Queued /\ a \notin Due /\ a \notin Waiting
    BY <1>4, <2>1 DEF Queued, Owned, OwnersApart
  <2>8. OwnersApart'
    BY <1>1, <2>1, <2>2, <2>6, <2>7 DEF Owned, OwnersApart, Allocated, Free
  <2>9. \A x \in active' : /\ x[2] # 0 /\ heap'[x[1]].sequence = x[2]
                           /\ <<heap'[x[1]].expiration, x[1]>> \in timers'
    <3> SUFFICES ASSUME NEW x \in active, x # id
                 PROVE  /\ x[2] # 0 /\ heap'[x[1]].sequence = x[2]
                        /\ <<heap'[x[1]].expiration, x[1]>> \in timers'
      BY <2>3
    <3>1. x[1] # a /\ heap'[x[1]] = heap[x[1]]
      BY <1>2, <2>2, <2>5
    <3>2. x[2] # 0 /\ <<heap[x[1]].expiration, x[1]>> \in timers
      BY DEF Owned, Agree
    <3>. QED  BY <1>2, <2>4, <3>1, <3>2
  <2>10. \A e \in timers' : e[1] = heap'[e[2]].expiration /\ e[2] \in Queued'
    BY <1>3, <2>2, <2>4, <2>6
  <2>11. BatchIsReal'
    BY <2>2, <2>7 DEF Owned, BatchIsReal, Due, TypeOK
  <2>. QED  BY <1>1, <2>8, <2>9, <2>10, <2>11 DEF Owned, Agree
<1>5. CASE id \notin active
  <2>1. Named(id) = {}
    BY <1>5 DEF Named
  <2>2. timers' = timers /\ active' = active
    BY <2>1 DEF CancelInLoop
  <2>3. heap' = heap
    BY <2>1 DEF CancelInLoop, TypeOK
  <2>4. Queued' = Queued
    BY <2>2 DEF Queued
  <2>. QED
    BY <1>1, <2>2, <2>3, <2>4 DEF Owned, Agree, OwnersApart, Allocated, BatchIsReal
<1>. QED  BY <1>4, <1>5

(* getExpired moves timers from the sets to the vector.                    *)
LEMMA HandleReadOwned ==
    ASSUME TypeOK, Owned, HandleRead
    PROVE  Owned'
<1>1. /\ expired = {} /\ expired' = Expired /\ timers' = timers \ Expired
      /\ active' = StillActive /\ heap' = heap /\ functors' = functors /\ pc' = "expired"
  BY DEF HandleRead, Owned, BatchIsLocal
<1>2. \A e \in timers : /\ e[2] \in Addresses /\ e[1] = heap[e[2]].expiration
                        /\ e[2] \in Queued /\ e = <<heap[e[2]].expiration, e[2]>>
  BY DEF Owned, Agree, TypeOK
<1>3. Expired \subseteq timers
  BY DEF Expired
<1>4. \A a : a \in Due' <=> a \in Queued /\ <<heap[a].expiration, a>> \in Expired
  BY <1>1, <1>2, <1>3 DEF Due
<1>5. \A a : a \in Queued' <=> a \in Queued /\ <<heap[a].expiration, a>> \notin Expired
  BY <1>1 DEF Queued, StillActive
<1>6. Due = {} /\ Waiting' = Waiting /\ AddsDiffer' /\ BatchIsLocal'
  BY <1>1 DEF Due, Waiting, Owned, AddsDiffer, BatchIsLocal
<1>7. OwnersApart'
  BY <1>1, <1>4, <1>5, <1>6 DEF Owned, OwnersApart, Allocated
<1>8. BatchIsReal'
  BY <1>1, <1>2, <1>3 DEF BatchIsReal
<1>9. \A x \in active' : /\ x[2] # 0 /\ heap'[x[1]].sequence = x[2]
                         /\ <<heap'[x[1]].expiration, x[1]>> \in timers'
  BY <1>1 DEF Owned, Agree, StillActive
<1>10. \A e \in timers' : e[1] = heap'[e[2]].expiration /\ e[2] \in Queued'
  BY <1>1, <1>2, <1>5
<1>. QED  BY <1>6, <1>7, <1>8, <1>9, <1>10 DEF Owned, Agree

(* reset restarts or deletes every timer of the vector, and no other.      *)
LEMMA ResetOwned ==
    ASSUME TypeOK, Owned, Reset
    PROVE  Owned'
<1> DEFINE R == {e[2] : e \in Again}
<1>1. \A e \in expired : e[2] \in Addresses /\ e[1] = heap[e[2]].expiration
  BY DEF Owned, BatchIsReal, TypeOK
<1>2. R \subseteq Due /\ Due \subseteq Addresses /\ Again \subseteq expired
  BY <1>1 DEF Again, Due
<1>3. /\ \A a \in R : heap'[a] = Restarted(a)
      /\ \A a \in Due : a \notin R => heap'[a] = Free
      /\ \A a \in Addresses : a \notin Due => heap'[a] = heap[a]
  BY <1>2 DEF Reset, Due
<1>4. /\ timers' = timers \cup {<<Restarted(e[2]).expiration, e[2]>> : e \in Again}
      /\ active' = active \cup {<<e[2], heap[e[2]].sequence>> : e \in Again}
      /\ expired' = {} /\ functors' = functors
  BY DEF Reset
<1>5. \A a \in R : heap'[a].sequence = heap[a].sequence /\ heap[a].sequence # 0
  <2> SUFFICES ASSUME NEW a \in R
               PROVE  heap'[a].sequence = heap[a].sequence /\ heap[a].sequence # 0
    OBVIOUS
  <2>1. a \in Addresses /\ a \in Due
    BY <1>2
  <2>2. heap[a] \in Timer /\ heap[a].sequence # 0
    BY <2>1 DEF TypeOK, Owned, OwnersApart, Allocated
  <2>. QED  BY <1>3, <2>2 DEF Restarted, Timer
<1>6. \A a : a \in Queued' <=> a \in Queued \/ a \in R
  <2>1. ASSUME NEW a, a \in Queued' PROVE a \in Queued \/ a \in R
    BY <1>4, <2>1 DEF Queued
  <2>2. ASSUME NEW a \in R PROVE a \in Queued'
    <3>1. PICK e \in Again : a = e[2]
      OBVIOUS
    <3>2. <<a, heap[a].sequence>> \in active' /\ <<a, heap[a].sequence>>[1] = a
      BY <1>4, <3>1
    <3>. QED  BY <3>2 DEF Queued
  <2>3. ASSUME NEW a \in Queued PROVE a \in Queued'
    BY <1>4 DEF Queued
  <2>. QED  BY <2>1, <2>2, <2>3
<1>7. Due' = {} /\ Waiting' = Waiting /\ AddsDiffer' /\ BatchIsLocal' /\ BatchIsReal'
  BY <1>4 DEF Due, Waiting, Owned, AddsDiffer, BatchIsLocal, BatchIsReal
<1>8. OwnersApart'
  <2> SUFFICES ASSUME NEW a \in Addresses
               PROVE  /\ ~(a \in Queued' /\ a \in Waiting')
                      /\ Allocated(a)' <=> a \in Queued' \/ a \in Waiting'
    BY <1>7 DEF OwnersApart
  <2>1. CASE a \in R
    BY <1>2, <1>5, <1>6, <1>7, <2>1 DEF Owned, OwnersApart, Allocated
  <2>2. CASE a \in Due /\ a \notin R
    BY <1>3, <1>6, <1>7, <2>2 DEF Owned, OwnersApart, Allocated, Free
  <2>3. CASE a \notin Due
    BY <1>2, <1>3, <1>6, <1>7, <2>3 DEF Owned, OwnersApart, Allocated
  <2>. QED  BY <2>1, <2>2, <2>3
<1>9. \A a \in Queued : a \in Addresses /\ a \notin Due /\ heap'[a] = heap[a]
  <2>1. Queued \subseteq Addresses
    BY DEF Queued, TypeOK, TimerIds
  <2>. QED  BY <1>3, <2>1 DEF Owned, OwnersApart
<1>10. \A x \in active' : /\ x[2] # 0 /\ heap'[x[1]].sequence = x[2]
                          /\ <<heap'[x[1]].expiration, x[1]>> \in timers'
  <2>1. ASSUME NEW x \in active
        PROVE  /\ x[2] # 0 /\ heap'[x[1]].sequence = x[2]
               /\ <<heap'[x[1]].expiration, x[1]>> \in timers'
    BY <1>4, <1>9 DEF Owned, Agree, Queued
  <2>2. ASSUME NEW e \in Again
        PROVE  /\ heap[e[2]].sequence # 0 /\ heap'[e[2]].sequence = heap[e[2]].sequence
               /\ <<heap'[e[2]].expiration, e[2]>> \in timers'
    BY <1>3, <1>4, <1>5
  <2>3. ASSUME NEW x \in active', x \notin active
        PROVE  /\ x[2] # 0 /\ heap'[x[1]].sequence = x[2]
               /\ <<heap'[x[1]].expiration, x[1]>> \in timers'
    <3>1. PICK e \in Again : x = <<e[2], heap[e[2]].sequence>>
      BY <1>4, <2>3
    <3>2. x[1] = e[2] /\ x[2] = heap[e[2]].sequence
      BY <3>1
    <3>. QED  BY <2>2, <3>2
  <2>. QED  BY <2>1, <2>3
<1>11. \A e \in timers' : e[1] = heap'[e[2]].expiration /\ e[2] \in Queued'
  <2>1. ASSUME NEW e \in timers PROVE e[1] = heap'[e[2]].expiration /\ e[2] \in Queued'
    BY <1>6, <1>9 DEF Owned, Agree
  <2>2. ASSUME NEW e \in Again PROVE Restarted(e[2]).expiration = heap'[e[2]].expiration
                                     /\ e[2] \in Queued'
    BY <1>3, <1>6
  <2>. QED  BY <1>4, <2>1, <2>2
<1>. QED  BY <1>7, <1>8, <1>10, <1>11 DEF Owned, Agree

(* Every step keeps the ownership.                                         *)
LEMMA OwnedStep == TypeOK /\ Owned /\ [Next]_vars => Owned'
<1> SUFFICES ASSUME TypeOK, Owned, [Next]_vars PROVE Owned'
  OBVIOUS
<1> USE DEF queue, batch, bounds, adding, history
<1>1. CASE RunAdd \/ HandleRead \/ Reset
  BY <1>1, RunAddOwned, HandleReadOwned, ResetOwned
<1>2. ASSUME NEW a \in Addresses, NEW when \in Times, NEW i \in Intervals,
             AddTimer(a, when, i) \/ \E t \in Threads : AddTimerFrom(t, a, when, i)
      PROVE  Owned'
  BY <1>2, AddTimerOwned, AddTimerFromOwned
<1>3. ASSUME NEW t \in Threads, AddTimerReturns(t) PROVE Owned'
  BY <1>3, OwnedFrame DEF AddTimerReturns
<1>4. ASSUME NEW x \in ids, Cancel(x) PROVE Owned'
  <2>1. x[1] \in TimerIds /\ CancelInLoop(x[1]) /\ functors' = functors
    BY <1>4 DEF Cancel, TypeOK, HandedOut
  <2>2. Waiting' = Waiting /\ AddsDiffer'
    BY <2>1 DEF Waiting, AddsDiffer, Owned
  <2>3. expired' = expired /\ pc' = pc
    BY <1>4 DEF Cancel
  <2>. QED  BY <2>1, <2>2, <2>3, CancelInLoopOwned
<1>5. ASSUME NEW x \in ids, NEW t \in Threads, CancelFrom(t, x) PROVE Owned'
  <2>1. x \in HandedOut /\ functors' = Append(functors, [op |-> "cancel", id |-> x])
    BY <1>5 DEF CancelFrom, TypeOK
  <2>2. Waiting' = Waiting /\ AddsDiffer'
    BY <2>1, WaitingAppendCancel DEF Owned
  <2>3. /\ heap' = heap /\ timers' = timers /\ active' = active
        /\ expired' = expired /\ pc' = pc
    BY <1>5 DEF CancelFrom
  <2>4. Queued' = Queued /\ Due' = Due
    BY <2>3 DEF Queued, Due
  <2>5. Agree' /\ OwnersApart'
    BY <2>2, <2>3, <2>4 DEF Owned, Agree, OwnersApart, Allocated
  <2>6. BatchIsReal' /\ BatchIsLocal'
    BY <2>3 DEF Owned, BatchIsReal, BatchIsLocal
  <2>. QED  BY <2>2, <2>5, <2>6 DEF Owned
<1>6. CASE RunCancel
  <2>1. /\ functors # <<>> /\ functors' = Tail(functors) /\ Head(functors).op = "cancel"
        /\ CancelInLoop(Head(functors).id[1]) /\ expired' = expired /\ pc' = pc
    BY <1>6 DEF RunCancel, Runs
  <2>2. Head(functors).id[1] \in TimerIds
    BY <2>1, HeadFunctor DEF TypeOK
  <2>3. Waiting' = Waiting /\ AddsDiffer'
    BY <2>1, WaitingTail DEF Owned
  <2>. QED  BY <2>1, <2>2, <2>3, CancelInLoopOwned
<1>7. CASE Poll \/ CallbackReturns \/ \E e \in todo : RunTimer(e)
  BY <1>7, OwnedFrame DEF Poll, CallbackReturns, RunTimer
<1>8. CASE Tick \/ \E n \in Times : SetClock(n)
  BY <1>8, OwnedFrame DEF Tick, SetClock
<1>9. CASE UNCHANGED vars
  BY <1>9, OwnedFrame DEF vars
<1>. QED
  BY <1>1, <1>2, <1>3, <1>4, <1>5, <1>6, <1>7, <1>8, <1>9 DEF Next, LoopStep

(* Initially nobody owns a timer.                                          *)
LEMMA OwnedInit == Init => Owned
<1> SUFFICES ASSUME Init PROVE Owned
  OBVIOUS
<1>1. Queued = {} /\ Due = {} /\ Waiting = {}
  BY DEF Init, Queued, Due, Waiting
<1>2. \A a \in Addresses : ~Allocated(a)
  BY DEF Init, Allocated, Free
<1>3. Agree /\ OwnersApart
  BY <1>1, <1>2 DEF Init, Agree, OwnersApart
<1>. QED  BY <1>3 DEF Init, Owned, BatchIsReal, BatchIsLocal, AddsDiffer

(* The ownership holds in every reachable state.                           *)
LEMMA OwnedInvariant == Spec => [](TypeOK /\ Owned)
<1>1. Init => TypeOK /\ Owned
  BY TypeInit, OwnedInit
<1>2. TypeOK /\ Owned /\ [Next]_vars => (TypeOK /\ Owned)'
  BY TypeStep, OwnedStep
<1>. QED  BY <1>1, <1>2, PTL DEF Spec

(* timers_ and activeTimers_ hold the same timers at every step, which     *)
(* exist and are as both sets say: what the assertions on the sizes of the *)
(* sets and on their erasures in TimerQueue.cc rely on.                    *)
THEOREM SetsAlwaysAgree == Spec => []SetsAgree
<1>1. TypeOK /\ Owned => SetsAgree
  BY AgreeIsSetsAgree DEF Owned
<1>. QED  BY <1>1, OwnedInvariant, PTL

(* Every Timer on the heap has exactly one owner, so that it is neither    *)
(* leaked nor deleted twice nor run after its deletion, whoever cancels    *)
(* what from where and however addresses are used again.                   *)
THEOREM TimerHasOneOwner == Spec => []OneOwner
<1>1. TypeOK /\ Owned => OneOwner
  BY OwnersApartIsOneOwner DEF Owned
<1>. QED  BY <1>1, OwnedInvariant, PTL

(* Both together: the sets agree on timers that they alone own.            *)
THEOREM QueueAlwaysConsistent == Spec => []QueueConsistent
BY SetsAlwaysAgree, TimerHasOneOwner, PTL DEF QueueConsistent
-----------------------------------------------------------------------------
(* Cancellation.                                                           *)

\* callingExpiredTimers_ tells where the loop thread is
FlagTellsPhase == calling <=> pc # "idle"

\* sequence numbers name timers: no two that exist share one, and none was
\* used before it was given out
SequencesDiffer ==
    \A a, b \in Addresses :
        heap[a].sequence # 0 /\ heap[a].sequence = heap[b].sequence => a = b
SequencesOld ==
    /\ \A a \in Addresses : heap[a].sequence <= created
    /\ \A s \in cancelled : s <= created

\* a timer whose addTimerInLoop is to come is not cancelled
WaitingNotCancelled == \A a \in Waiting : heap[a].sequence \notin cancelled

\* cancelingTimers_ names the timers of the batch that were cancelled
CancelNoted ==
    \A e \in expired : heap[e[2]].sequence \in cancelled <=>
                       <<e[2], heap[e[2]].sequence>> \in canceling

CancelInv == /\ FlagTellsPhase /\ SequencesDiffer /\ SequencesOld
             /\ CancelledStaysOut /\ WaitingNotCancelled /\ CancelNoted

(* A step that leaves timers, batch and history alone keeps CancelInv.     *)
LEMMA CancelFrame ==
    ASSUME CancelInv, heap' = heap, created' = created, active' = active,
           canceling' = canceling, calling' = calling, expired' = expired,
           cancelled' = cancelled, Waiting' = Waiting, pc' = "idle" <=> pc = "idle"
    PROVE  CancelInv'
<1>1. FlagTellsPhase' /\ SequencesDiffer' /\ SequencesOld'
  BY DEF CancelInv, FlagTellsPhase, SequencesDiffer, SequencesOld
<1>2. CancelledStaysOut' /\ WaitingNotCancelled' /\ CancelNoted'
  BY DEF CancelInv, CancelledStaysOut, WaitingNotCancelled, CancelNoted
<1>. QED  BY <1>1, <1>2 DEF CancelInv

(* A new timer has a number that was never cancelled.                      *)
LEMMA NewTimerKeepsCancelInv ==
    ASSUME TypeOK, Owned, CancelInv, NEW a \in Addresses, NEW when, NEW i, CanCreate(a),
           heap' = NewTimer(a, when, i), created' = created + 1,
           \/ active' = active /\ Waiting' = Waiting \cup {a}
           \/ active' = active \cup {<<a, created + 1>>} /\ Waiting' = Waiting,
           canceling' = canceling, calling' = calling, expired' = expired,
           cancelled' = cancelled, pc' = pc
    PROVE  CancelInv'
<1>1. /\ a \notin Queued /\ a \notin Due /\ a \notin Waiting
      /\ heap'[a].sequence = created + 1
      /\ \A b \in Addresses : b # a => heap'[b] = heap[b]
  <2>1. heap'[a] = [sequence |-> created + 1, expiration |-> when, interval |-> i]
    BY NewTimerIsOnlyNew
  <2>2. heap'[a].sequence = created + 1
    BY <2>1
  <2>3. /\ a \notin Queued /\ a \notin Due /\ a \notin Waiting
        /\ \A b \in Addresses : b # a => heap'[b] = heap[b]
    BY NewTimerIsOnlyNew
  <2>. QED  BY <2>2, <2>3
<1>2. created \in Nat /\ cancelled \subseteq Nat /\ \A b \in Addresses : heap[b].sequence \in Nat
  BY BoundsAssumption DEF TypeOK, Timer
<1>3. FlagTellsPhase'
  BY DEF CancelInv, FlagTellsPhase
<1>4. SequencesDiffer' /\ SequencesOld'
  BY <1>1, <1>2 DEF CancelInv, SequencesDiffer, SequencesOld
<1>5. created + 1 \notin cancelled
  BY <1>2 DEF CancelInv, SequencesOld
<1>6. CancelledStaysOut'
  BY <1>5 DEF CancelInv, CancelledStaysOut
<1>7. Waiting \subseteq Addresses
  BY OwnersApartIsOneOwner DEF Owned, OneOwner
<1>8. WaitingNotCancelled'
  BY <1>1, <1>5, <1>7 DEF CancelInv, WaitingNotCancelled
<1>9. \A e \in expired : e[2] \in Addresses /\ e[2] # a /\ heap'[e[2]] = heap[e[2]]
  BY <1>1 DEF Due, TypeOK
<1>10. CancelNoted'
  BY <1>9 DEF CancelInv, CancelNoted
<1>. QED  BY <1>3, <1>4, <1>6, <1>8, <1>10 DEF CancelInv

(* cancelInLoop takes a queued timer out, notes one of the batch, and does *)
(* nothing to any other.                                                   *)
LEMMA CancelInLoopKeepsCancelInv ==
    ASSUME TypeOK, Owned, CancelInv, NEW id \in TimerIds, CancelInLoop(id),
           created' = created, expired' = expired, pc' = pc, Waiting' = Waiting
    PROVE  CancelInv'
<1>1. calling' = calling /\ FlagTellsPhase'
  BY DEF CancelInLoop, CancelInv, FlagTellsPhase
<1>2. Waiting \subseteq Addresses
  BY OwnersApartIsOneOwner DEF Owned, OneOwner
<1>3. \A x \in active : /\ x[1] \in Addresses /\ x[1] \in Queued /\ x[2] # 0
                        /\ heap[x[1]].sequence = x[2] /\ x = <<x[1], x[2]>>
  <2>1. \A x \in active : x[1] \in Addresses /\ x[1] \in Queued /\ x = <<x[1], x[2]>>
    BY DEF TypeOK, TimerIds, Queued
  <2>. QED  BY <2>1 DEF Owned, Agree
<1>4. \A e \in expired : /\ e[2] \in Addresses /\ e[2] \in Due /\ heap[e[2]].sequence # 0
  BY DEF TypeOK, Due, Owned, OwnersApart, Allocated
<1>5. CASE id \in active
  <2>1. Named(id) = {id} /\ {x[1] : x \in Named(id)} = {id[1]}
    BY <1>5 DEF Named
  <2>2. /\ heap'[id[1]] = Free
        /\ \A b \in Addresses : b # id[1] => heap'[b] = heap[b]
        /\ active' = active \ {id} /\ canceling' = canceling
        /\ cancelled' = cancelled \cup {id[2]}
    BY <1>3, <1>5, <2>1 DEF CancelInLoop, InQueueOrBatch
  <2>3. /\ id[1] \in Addresses /\ id[1] \notin Due /\ id[1] \notin Waiting
        /\ heap[id[1]].sequence = id[2] /\ id[2] # 0
    BY <1>3, <1>5 DEF Owned, OwnersApart
  <2>4. \A b \in Addresses : b # id[1] => heap[b].sequence # id[2]
    BY <2>3 DEF CancelInv, SequencesDiffer
  <2>5. created \in Nat /\ id[2] <= created
    BY <2>3, BoundsAssumption DEF TypeOK, CancelInv, SequencesOld
  <2>6. SequencesDiffer'
    BY <2>2, <2>3 DEF CancelInv, SequencesDiffer, Free
  <2>7. SequencesOld'
    BY <2>2, <2>3, <2>5 DEF CancelInv, SequencesOld, Free
  <2>8. CancelledStaysOut'
    <3>1. \A x \in active : x[1] = id[1] => x = id
      BY <1>3, <1>5
    <3>2. \A x \in active' : x \in active /\ x[2] # id[2]
      BY <1>3, <2>2, <2>4, <3>1
    <3>. QED  BY <2>2, <3>2 DEF CancelInv, CancelledStaysOut
  <2>9. WaitingNotCancelled'
    BY <1>2, <2>2, <2>3, <2>4 DEF CancelInv, WaitingNotCancelled
  <2>10. CancelNoted'
    BY <1>4, <2>2, <2>3, <2>4 DEF CancelInv, CancelNoted
  <2>. QED  BY <1>1, <2>6, <2>7, <2>8, <2>9, <2>10 DEF CancelInv
<1>6. CASE id \notin active
  <2>1. /\ heap' = heap /\ active' = active
        /\ canceling' = IF calling THEN canceling \cup {id} ELSE canceling
    BY <1>6 DEF CancelInLoop, Named, Canceling, TypeOK
  <2>2. SequencesDiffer'
    BY <2>1 DEF CancelInv, SequencesDiffer
  <2>3. CASE \E e \in expired : id = <<e[2], heap[e[2]].sequence>>
    <3>1. PICK e \in expired : id = <<e[2], heap[e[2]].sequence>>
      BY <2>3
    <3>2. id[1] = e[2] /\ id[2] = heap[e[2]].sequence /\ cancelled' = cancelled \cup {id[2]}
      BY <3>1 DEF CancelInLoop, InQueueOrBatch
    <3>3. id[1] \in Addresses /\ id[1] \in Due /\ id[2] # 0
      BY <1>4, <3>2
    <3>4. \A b \in Addresses : b # id[1] => heap[b].sequence # id[2]
      BY <3>2, <3>3 DEF CancelInv, SequencesDiffer
    <3>5. canceling' = canceling \cup {id}
      BY <2>1, <3>1 DEF CancelInv, FlagTellsPhase, Owned, BatchIsLocal
    <3>6. SequencesOld'
      BY <2>1, <3>2, <3>3 DEF CancelInv, SequencesOld
    <3>7. CancelledStaysOut'
      BY <1>3, <2>1, <3>2, <3>3, <3>4 DEF CancelInv, CancelledStaysOut, Owned, OwnersApart
    <3>8. WaitingNotCancelled'
      BY <1>2, <2>1, <3>2, <3>3, <3>4
      DEF CancelInv, WaitingNotCancelled, Owned, OwnersApart
    <3>9. ASSUME NEW f \in expired
          PROVE  heap[f[2]].sequence \in cancelled' <=>
                 <<f[2], heap[f[2]].sequence>> \in canceling'
      <4>1. CASE f[2] = id[1]
        BY <3>1, <3>2, <3>5, <4>1
      <4>2. CASE f[2] # id[1]
        BY <1>4, <3>2, <3>4, <3>5, <4>2 DEF CancelInv, CancelNoted
      <4>. QED  BY <4>1, <4>2
    <3>10. CancelNoted'
      BY <2>1, <3>9 DEF CancelNoted
    <3>. QED  BY <1>1, <2>2, <3>6, <3>7, <3>8, <3>10 DEF CancelInv
  <2>4. CASE ~\E e \in expired : id = <<e[2], heap[e[2]].sequence>>
    <3>1. cancelled' = cancelled
      BY <1>6, <2>4 DEF CancelInLoop, InQueueOrBatch
    <3>2. CancelNoted'
      BY <2>1, <2>4, <3>1 DEF CancelInv, CancelNoted
    <3>. QED
      BY <1>1, <2>1, <2>2, <3>1, <3>2
      DEF CancelInv, SequencesOld, CancelledStaysOut, WaitingNotCancelled
  <2>. QED  BY <2>3, <2>4
<1>. QED  BY <1>5, <1>6

(* handleRead begins a batch with nothing cancelled in it.                 *)
LEMMA HandleReadKeepsCancelInv ==
    ASSUME TypeOK, Owned, CancelInv, HandleRead
    PROVE  CancelInv'
<1>1. /\ heap' = heap /\ created' = created /\ cancelled' = cancelled /\ functors' = functors
      /\ expired' \subseteq timers /\ active' \subseteq active /\ canceling' = {}
      /\ calling' = TRUE /\ pc' = "expired"
  BY DEF HandleRead, Expired, StillActive, history
<1>2. \A e \in timers : heap[e[2]].sequence \notin cancelled
  <2> SUFFICES ASSUME NEW e \in timers PROVE heap[e[2]].sequence \notin cancelled
    OBVIOUS
  <2>1. PICK x \in active : x[1] = e[2]
    BY DEF Owned, Agree, Queued
  <2>. QED  BY <2>1 DEF Owned, Agree, CancelInv, CancelledStaysOut
<1>3. CancelNoted'
  BY <1>1, <1>2 DEF CancelNoted
<1>4. FlagTellsPhase' /\ SequencesDiffer' /\ SequencesOld'
  BY <1>1 DEF CancelInv, FlagTellsPhase, SequencesDiffer, SequencesOld
<1>5. CancelledStaysOut' /\ WaitingNotCancelled'
  BY <1>1 DEF CancelInv, CancelledStaysOut, WaitingNotCancelled, Waiting
<1>. QED  BY <1>3, <1>4, <1>5 DEF CancelInv

(* reset queues again what repeats and was not cancelled.                  *)
LEMMA ResetKeepsCancelInv ==
    ASSUME TypeOK, Owned, CancelInv, Reset
    PROVE  CancelInv'
<1>1. /\ created' = created /\ cancelled' = cancelled /\ functors' = functors
      /\ active' = active \cup {<<e[2], heap[e[2]].sequence>> : e \in Again}
      /\ expired' = {} /\ calling' = FALSE /\ pc' = "idle"
  BY DEF Reset, history
<1>2. ASSUME NEW a \in Addresses
      PROVE  heap'[a].sequence = heap[a].sequence \/ heap'[a].sequence = 0
  <2>1. heap'[a] \in {Restarted(a), Free, heap[a]}
    BY DEF Reset
  <2>2. Restarted(a).sequence = heap[a].sequence
    BY DEF Restarted, TypeOK, Timer
  <2>. QED  BY <2>1, <2>2 DEF Free
<1>3. SequencesDiffer'
  BY <1>2 DEF CancelInv, SequencesDiffer
<1>4. created \in Nat
  BY DEF TypeOK
<1>5. SequencesOld'
  BY <1>1, <1>2, <1>4 DEF CancelInv, SequencesOld
<1>6. \A e \in Again : heap[e[2]].sequence \notin cancelled
  BY DEF Again, CancelInv, CancelNoted
<1>7. CancelledStaysOut'
  <2> SUFFICES ASSUME NEW x \in active', x \notin active PROVE x[2] \notin cancelled
    BY <1>1 DEF CancelInv, CancelledStaysOut
  <2>1. PICK e \in Again : x = <<e[2], heap[e[2]].sequence>>
    BY <1>1
  <2>. QED  BY <1>6, <2>1
<1>8. \A a \in Waiting : a \in Addresses /\ heap'[a] = heap[a]
  <2>1. Waiting \subseteq Addresses
    BY OwnersApartIsOneOwner DEF Owned, OneOwner
  <2>2. \A a \in Waiting : a \notin Due
    BY <2>1 DEF Owned, OwnersApart
  <2>. QED  BY <2>1, <2>2 DEF Reset, Again, Due
<1>9. Waiting' = Waiting
  BY <1>1 DEF Waiting
<1>10. WaitingNotCancelled'
  BY <1>1, <1>8, <1>9 DEF CancelInv, WaitingNotCancelled
<1>11. FlagTellsPhase' /\ CancelNoted'
  BY <1>1 DEF FlagTellsPhase, CancelNoted
<1>. QED  BY <1>3, <1>5, <1>7, <1>10, <1>11 DEF CancelInv

(* addTimerInLoop adds a timer that is not cancelled.                      *)
LEMMA RunAddKeepsCancelInv ==
    ASSUME TypeOK, Owned, CancelInv, RunAdd
    PROVE  CancelInv'
<1> DEFINE a == Head(functors).timer
<1>1. /\ functors # <<>> /\ functors' = Tail(functors) /\ Head(functors).op = "add"
      /\ heap' = heap /\ created' = created /\ cancelled' = cancelled
      /\ expired' = expired /\ pc' = pc /\ canceling' = canceling /\ calling' = calling
      /\ active' = active \cup {<<a, heap[a].sequence>>}
  BY DEF RunAdd, Runs, AddTimerInLoop, Insert, batch, history
<1>2. a \in Waiting /\ Waiting' \subseteq Waiting
  BY <1>1, WaitingTail DEF Owned
<1>3. heap[a].sequence \notin cancelled
  BY <1>2 DEF CancelInv, WaitingNotCancelled
<1>4. CancelledStaysOut'
  BY <1>1, <1>3 DEF CancelInv, CancelledStaysOut
<1>5. WaitingNotCancelled'
  BY <1>1, <1>2 DEF CancelInv, WaitingNotCancelled
<1>6. FlagTellsPhase' /\ SequencesDiffer' /\ SequencesOld' /\ CancelNoted'
  BY <1>1 DEF CancelInv, FlagTellsPhase, SequencesDiffer, SequencesOld, CancelNoted
<1>. QED  BY <1>4, <1>5, <1>6 DEF CancelInv

(* Every step keeps CancelInv.                                             *)
LEMMA CancelStep == TypeOK /\ Owned /\ CancelInv /\ [Next]_vars => CancelInv'
<1> SUFFICES ASSUME TypeOK, Owned, CancelInv, [Next]_vars PROVE CancelInv'
  OBVIOUS
<1> USE DEF queue, batch, bounds, adding, history
<1>1. CASE RunAdd \/ HandleRead \/ Reset
  BY <1>1, RunAddKeepsCancelInv, HandleReadKeepsCancelInv, ResetKeepsCancelInv
<1>2. ASSUME NEW a \in Addresses, NEW when \in Times, NEW i \in Intervals, AddTimer(a, when, i)
      PROVE  CancelInv'
  <2>1. heap'[a] = [sequence |-> created + 1, expiration |-> when, interval |-> i]
    BY <1>2, NewTimerIsOnlyNew DEF AddTimer
  <2>2. active' = active \cup {<<a, created + 1>>} /\ canceling' = canceling /\ calling' = calling
    BY <1>2, <2>1 DEF AddTimer, AddTimerInLoop, Insert
  <2>3. Waiting' = Waiting
    BY <1>2 DEF AddTimer, Waiting
  <2>4. /\ CanCreate(a) /\ heap' = NewTimer(a, when, i) /\ created' = created + 1
        /\ expired' = expired /\ cancelled' = cancelled /\ pc' = pc
    BY <1>2 DEF AddTimer
  <2>. QED  BY <2>2, <2>3, <2>4, NewTimerKeepsCancelInv
<1>3. ASSUME NEW a \in Addresses, NEW when \in Times, NEW i \in Intervals, NEW t \in Threads,
             AddTimerFrom(t, a, when, i)
      PROVE  CancelInv'
  <2>1. a \notin Waiting
    BY <1>3, NewTimerIsOnlyNew DEF AddTimerFrom
  <2>2. Waiting' = Waiting \cup {a}
    BY <1>3, <2>1, WaitingAppendAdd DEF AddTimerFrom, Owned
  <2>3. /\ CanCreate(a) /\ heap' = NewTimer(a, when, i) /\ created' = created + 1
        /\ expired' = expired /\ cancelled' = cancelled /\ pc' = pc
        /\ active' = active /\ canceling' = canceling /\ calling' = calling
    BY <1>3 DEF AddTimerFrom
  <2>. QED  BY <2>2, <2>3, NewTimerKeepsCancelInv
<1>4. ASSUME NEW t \in Threads, AddTimerReturns(t) PROVE CancelInv'
  BY <1>4, CancelFrame DEF AddTimerReturns, Waiting
<1>5. ASSUME NEW x \in ids, Cancel(x) PROVE CancelInv'
  <2>1. /\ x[1] \in TimerIds /\ CancelInLoop(x[1]) /\ Waiting' = Waiting
        /\ created' = created /\ expired' = expired /\ pc' = pc
    BY <1>5 DEF Cancel, TypeOK, HandedOut, Waiting
  <2>. QED  BY <2>1, CancelInLoopKeepsCancelInv
<1>6. ASSUME NEW x \in ids, NEW t \in Threads, CancelFrom(t, x) PROVE CancelInv'
  <2>1. Waiting' = Waiting
    BY <1>6, WaitingAppendCancel DEF CancelFrom, TypeOK, Owned
  <2>. QED  BY <1>6, <2>1, CancelFrame DEF CancelFrom
<1>7. CASE RunCancel
  <2>1. /\ functors # <<>> /\ functors' = Tail(functors) /\ Head(functors).op = "cancel"
        /\ CancelInLoop(Head(functors).id[1])
        /\ created' = created /\ expired' = expired /\ pc' = pc
    BY <1>7 DEF RunCancel, Runs
  <2>2. Head(functors).id[1] \in TimerIds
    BY <2>1, HeadFunctor DEF TypeOK
  <2>3. Waiting' = Waiting
    BY <2>1, WaitingTail DEF Owned
  <2>. QED  BY <2>1, <2>2, <2>3, CancelInLoopKeepsCancelInv
<1>8. CASE Poll \/ CallbackReturns \/ \E e \in todo : RunTimer(e)
  BY <1>8, CancelFrame DEF Poll, CallbackReturns, RunTimer, Waiting
<1>9. CASE Tick \/ \E n \in Times : SetClock(n)
  BY <1>9, CancelFrame DEF Tick, SetClock, Waiting
<1>10. CASE UNCHANGED vars
  BY <1>10, CancelFrame DEF vars, Waiting
<1>. QED
  BY <1>1, <1>2, <1>3, <1>4, <1>5, <1>6, <1>7, <1>8, <1>9, <1>10 DEF Next, LoopStep

(* CancelInv holds in every reachable state.                               *)
LEMMA CancelInvariant == Spec => [](TypeOK /\ Owned /\ CancelInv)
<1>1. Init => CancelInv
  BY DEF Init, CancelInv, FlagTellsPhase, SequencesDiffer, SequencesOld, CancelledStaysOut,
         WaitingNotCancelled, CancelNoted, Waiting, Free
<1>2. Init => TypeOK /\ Owned /\ CancelInv
  BY <1>1, TypeInit, OwnedInit
<1>3. TypeOK /\ Owned /\ CancelInv /\ [Next]_vars => (TypeOK /\ Owned /\ CancelInv)'
  BY TypeStep, OwnedStep, CancelStep
<1>. QED  BY <1>2, <1>3, PTL DEF Spec

(* A timer that was cancelled once it was added is never queued again,     *)
(* also when it is cancelled in its own callback or in another's of the    *)
(* same batch.                                                             *)
THEOREM CancelledNeverQueued == Spec => []CancelledStaysOut
<1>1. CancelInv => CancelledStaysOut
  BY DEF CancelInv
<1>. QED  BY <1>1, CancelInvariant, PTL
-----------------------------------------------------------------------------
(* Deletion.                                                               *)

\* a timer that exists and is gone after the step
Dies(s) == s \in Living(heap) \ Living(heap')

\* it was cancelled, or has run and does not repeat
MayDie(s) == \/ s \in cancelled'
             \/ \E e \in expired : heap[e[2]].sequence = s /\ heap[e[2]].interval = 0

(* A timer that is deleted had an address.                                 *)
LEMMA DiesAtAddress ==
    ASSUME NEW s, Dies(s)
    PROVE  \E a \in Addresses : heap[a].sequence = s /\ s # 0 /\ heap'[a].sequence # s
  BY DEF Dies, Living

(* new deletes no timer.                                                   *)
LEMMA NewTimerKillsNobody ==
    ASSUME TypeOK, Owned, NEW a \in Addresses, NEW when, NEW i, CanCreate(a),
           heap' = NewTimer(a, when, i), NEW s
    PROVE  ~Dies(s)
<1> SUFFICES ASSUME Dies(s) PROVE FALSE
  OBVIOUS
<1>1. PICK b \in Addresses : heap[b].sequence = s /\ s # 0 /\ heap'[b].sequence # s
  BY DiesAtAddress
<1>2. b # a
  BY <1>1 DEF CanCreate, Allocated
<1>. QED  BY <1>1, <1>2, NewTimerIsOnlyNew

(* cancelInLoop deletes the timer with the sequence number it was given.   *)
LEMMA CancelKillsNamed ==
    ASSUME TypeOK, Owned, NEW id \in TimerIds, CancelInLoop(id), NEW s, Dies(s)
    PROVE  s \in cancelled'
<1>1. PICK a \in Addresses : heap[a].sequence = s /\ s # 0 /\ heap'[a].sequence # s
  BY DiesAtAddress
<1>2. PICK x \in Named(id) : x[1] = a
  <2>1. heap' = [b \in Addresses |-> IF b \in {x[1] : x \in Named(id)} THEN Free ELSE heap[b]]
    BY DEF CancelInLoop
  <2>. QED  BY <1>1, <2>1
<1>3. id \in active /\ id[1] = a
  BY <1>2 DEF Named
<1>4. id[2] = s
  BY <1>1, <1>3 DEF Owned, Agree
<1>. QED  BY <1>3, <1>4 DEF CancelInLoop, InQueueOrBatch

(* reset deletes the timers of the batch that ran for the last time.       *)
LEMMA ResetKillsDone ==
    ASSUME TypeOK, Owned, CancelInv, Reset, NEW s, Dies(s)
    PROVE  MayDie(s)
<1>1. PICK a \in Addresses : heap[a].sequence = s /\ s # 0 /\ heap'[a].sequence # s
  BY DiesAtAddress
<1>2. Restarted(a).sequence = heap[a].sequence
  BY DEF Restarted, TypeOK, Timer
<1>3. /\ ~\E e \in Again : e[2] = a
      /\ \E e \in expired : e[2] = a
  BY <1>1, <1>2 DEF Reset
<1>4. PICK e \in expired : e[2] = a /\ e \notin Again
  BY <1>3
<1>5. heap[a].interval \in Nat /\ cancelled' = cancelled
  BY DEF TypeOK, Timer, Reset, history
<1>6. CASE heap[a].interval = 0
  BY <1>1, <1>4, <1>6 DEF MayDie
<1>7. CASE <<e[2], heap[e[2]].sequence>> \in canceling
  BY <1>1, <1>4, <1>5, <1>7 DEF CancelInv, CancelNoted, MayDie
<1>8. heap[a].interval > 0 \/ heap[a].interval = 0
  BY <1>5
<1>. QED  BY <1>4, <1>6, <1>7, <1>8 DEF Again

(* A step deletes only a timer that may be deleted.                        *)
LEMMA DeathStep ==
    ASSUME TypeOK, Owned, CancelInv, [Next]_vars, NEW s, Dies(s)
    PROVE  MayDie(s)
<1> USE DEF queue, batch, bounds, adding, history
<1>1. CASE UNCHANGED heap
  BY <1>1 DEF Dies, Living
<1>2. ASSUME NEW a \in Addresses, NEW when \in Times, NEW i \in Intervals,
             AddTimer(a, when, i) \/ \E t \in Threads : AddTimerFrom(t, a, when, i)
      PROVE  FALSE
  <2>1. CanCreate(a) /\ heap' = NewTimer(a, when, i)
    BY <1>2 DEF AddTimer, AddTimerFrom
  <2>. QED  BY <2>1, NewTimerKillsNobody
<1>3. ASSUME NEW x \in ids, Cancel(x) PROVE MayDie(s)
  <2>1. x[1] \in TimerIds /\ CancelInLoop(x[1])
    BY <1>3 DEF Cancel, TypeOK, HandedOut
  <2>. QED  BY <2>1, CancelKillsNamed DEF MayDie
<1>4. CASE RunCancel
  <2>1. functors # <<>> /\ Head(functors).op = "cancel" /\ CancelInLoop(Head(functors).id[1])
    BY <1>4 DEF RunCancel, Runs
  <2>2. Head(functors).id[1] \in TimerIds
    BY <2>1, HeadFunctor DEF TypeOK
  <2>. QED  BY <2>1, <2>2, CancelKillsNamed DEF MayDie
<1>5. CASE Reset
  BY <1>5, ResetKillsDone
<1>6. CASE \E x \in ids, t \in Threads : CancelFrom(t, x)
  BY <1>1, <1>6 DEF CancelFrom
<1>7. CASE RunAdd \/ HandleRead \/ Poll \/ CallbackReturns \/ \E e \in todo : RunTimer(e)
  BY <1>1, <1>7 DEF RunAdd, HandleRead, Poll, CallbackReturns, RunTimer
<1>8. CASE Tick \/ (\E n \in Times : SetClock(n)) \/ \E t \in Threads : AddTimerReturns(t)
  BY <1>1, <1>8 DEF Tick, SetClock, AddTimerReturns
<1>9. CASE UNCHANGED vars
  BY <1>1, <1>9 DEF vars
<1>. QED
  BY <1>2, <1>3, <1>4, <1>5, <1>6, <1>7, <1>8, <1>9 DEF Next, LoopStep

-----------------------------------------------------------------------------
(* Names.                                                                  *)

\* the TimerIds on their way to cancelInLoop were handed out
CancelsHandedOut ==
    \A i \in DOMAIN functors : functors[i].op = "cancel" => functors[i].id \in ids

\* a timer was cancelled by its own name, or by one given by mistake
CancelledByName == \A s \in cancelled : s \in asked \/ NamedByMistake(s)

Names == CancelsHandedOut /\ CancelledByName

(* cancelInLoop with a TimerId that was handed out keeps Names.            *)
LEMMA CancelKeepsNames ==
    ASSUME CancelledByName, NEW x \in ids, CancelInLoop(x[1]), asked' = asked \cup {x[2]}, ids' = ids
    PROVE  CancelledByName'
<1>1. cancelled' \subseteq cancelled \cup {x[1][2]}
  BY DEF CancelInLoop
<1>2. x[1][2] \in asked' \/ NamedByMistake(x[1][2])
  BY DEF NamedByMistake
<1>. QED  BY <1>1, <1>2 DEF CancelledByName, NamedByMistake

(* A step that cancels nothing keeps it too.                               *)
LEMMA CancelledFrame ==
    ASSUME CancelledByName, UNCHANGED history, ids \subseteq ids'
    PROVE  CancelledByName'
BY DEF CancelledByName, NamedByMistake, history

(* Every step keeps Names.                                                 *)
LEMMA NamesStep == TypeOK /\ Names /\ [Next]_vars => Names'
<1> SUFFICES ASSUME TypeOK, Names, [Next]_vars PROVE Names'
  OBVIOUS
<1> USE DEF queue, batch, bounds, adding, Names
<1>1. CASE UNCHANGED functors /\ UNCHANGED history /\ ids \subseteq ids'
  BY <1>1, CancelledFrame DEF CancelsHandedOut
<1>2. ASSUME NEW a \in Addresses, NEW when \in Times, NEW i \in Intervals, NEW t \in Threads,
             AddTimerFrom(t, a, when, i)
      PROVE  Names'
  <2>1. functors \in Seq(Functor) /\ [op |-> "add", timer |-> a] \in Functor
    BY DEF TypeOK, Functor
  <2>2. functors' = Append(functors, [op |-> "add", timer |-> a]) /\ ids' = ids /\ UNCHANGED history
    BY <1>2 DEF AddTimerFrom
  <2>3. CancelsHandedOut'
    BY <2>1, <2>2 DEF CancelsHandedOut
  <2>. QED  BY <2>2, <2>3, CancelledFrame
<1>3. ASSUME NEW x \in ids, Cancel(x) PROVE Names'
  <2>1. CancelInLoop(x[1]) /\ asked' = asked \cup {x[2]} /\ ids' = ids /\ functors' = functors
    BY <1>3 DEF Cancel
  <2>. QED  BY <2>1, CancelKeepsNames DEF CancelsHandedOut
<1>4. ASSUME NEW x \in ids, NEW t \in Threads, CancelFrom(t, x) PROVE Names'
  <2>1. functors \in Seq(Functor) /\ [op |-> "cancel", id |-> x] \in Functor
    BY DEF TypeOK, Functor
  <2>2. functors' = Append(functors, [op |-> "cancel", id |-> x]) /\ ids' = ids /\ UNCHANGED history
    BY <1>4 DEF CancelFrom
  <2>3. CancelsHandedOut'
    BY <2>1, <2>2 DEF CancelsHandedOut
  <2>. QED  BY <2>2, <2>3, CancelledFrame
<1>5. ASSUME functors # <<>>, functors' = Tail(functors), ids' = ids
      PROVE  CancelsHandedOut'
  <2>1. functors \in Seq(Functor)
    BY DEF TypeOK
  <2>2. \A i \in DOMAIN functors' : i + 1 \in DOMAIN functors /\ functors'[i] = functors[i + 1]
    BY <1>5, <2>1
  <2>. QED  BY <1>5, <2>2 DEF CancelsHandedOut
<1>6. CASE RunAdd
  <2>1. functors # <<>> /\ functors' = Tail(functors) /\ ids' = ids /\ UNCHANGED history
    BY <1>6 DEF RunAdd, Runs
  <2>. QED  BY <1>5, <2>1, CancelledFrame
<1>7. CASE RunCancel
  <2>1. /\ functors # <<>> /\ functors' = Tail(functors) /\ ids' = ids
        /\ Head(functors).op = "cancel" /\ CancelInLoop(Head(functors).id[1])
        /\ asked' = asked \cup {Head(functors).id[2]}
    BY <1>7 DEF RunCancel, Runs
  <2>2. Head(functors) = functors[1] /\ 1 \in DOMAIN functors
    BY <2>1 DEF TypeOK
  <2>3. Head(functors).id \in ids
    BY <2>1, <2>2 DEF CancelsHandedOut
  <2>. QED  BY <1>5, <2>1, <2>3, CancelKeepsNames
<1>8. CASE HandleRead \/ Poll \/ CallbackReturns \/ Reset \/ \E e \in todo : RunTimer(e)
  BY <1>1, <1>8 DEF HandleRead, Poll, CallbackReturns, Reset, RunTimer
<1>9. CASE Tick \/ (\E n \in Times : SetClock(n)) \/ \E t \in Threads : AddTimerReturns(t)
  BY <1>1, <1>9 DEF Tick, SetClock, AddTimerReturns
<1>10. CASE \E a \in Addresses, when \in Times, i \in Intervals : AddTimer(a, when, i)
  BY <1>1, <1>10 DEF AddTimer
<1>11. CASE UNCHANGED vars
  BY <1>1, <1>11 DEF vars
<1>. QED
  BY <1>2, <1>3, <1>4, <1>6, <1>7, <1>8, <1>9, <1>10, <1>11 DEF Next, LoopStep

(* A step deletes a timer only when cancel() was called with the TimerId   *)
(* that its own addTimer returned, or when it ran and does not repeat: a   *)
(* TimerId older than the timer at its address deletes nothing.  The one   *)
(* exception is a timer whose name addTimer returned for another timer.    *)
THEOREM TimerDiesByName == Spec => OnlyNamedTimersDie
<1>1. TypeOK /\ Owned /\ CancelInv /\ Names' /\ [Next]_vars =>
        [\A s \in Living(heap) \ Living(heap') :
           \/ s \in asked'
           \/ \E e \in expired : heap[e[2]].sequence = s /\ heap[e[2]].interval = 0
           \/ NamedByMistake(s)']_vars
  <2> SUFFICES ASSUME TypeOK, Owned, CancelInv, Names', [Next]_vars,
                      NEW s \in Living(heap) \ Living(heap')
               PROVE  \/ s \in asked'
                      \/ \E e \in expired : heap[e[2]].sequence = s /\ heap[e[2]].interval = 0
                      \/ NamedByMistake(s)'
    OBVIOUS
  <2>1. MayDie(s)
    BY DeathStep DEF Dies
  <2>2. s \in cancelled' => s \in asked' \/ NamedByMistake(s)'
    BY DEF Names, CancelledByName
  <2>. QED  BY <2>1, <2>2 DEF MayDie
<1>2. Init => Names
  BY DEF Init, Names, CancelsHandedOut, CancelledByName
<1>. QED  BY <1>1, <1>2, NamesStep, CancelInvariant, PTL DEF Spec, OnlyNamedTimersDie
=============================================================================
