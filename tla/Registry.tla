------------------------------ MODULE Registry ------------------------------
(***************************************************************************)
(* What a Poller promises the loop: it knows the events each channel asks  *)
(* for, and poll() reports those channels which ask for some and whose     *)
(* descriptor is ready, all of them up to a capacity.                      *)
(***************************************************************************)
EXTENDS Integers, FiniteSets, FiniteSetsExt

CONSTANTS Chans

VARIABLES events,    \* the events each channel asks for
          fd,        \* its descriptor
          hot,       \* the descriptors that were ready at the last poll()
          active,    \* the channels it reported
          capacity   \* how many it can report

vars == <<events, fd, hot, active, capacity>>

Init ==
    /\ events = [c \in Chans |-> {}]
    /\ hot = {} /\ active = {}

\* a channel gets its descriptor, or changes what it asks for
Ask(c) ==
    /\ \A d \in Chans \ {c} : events'[d] = events[d] /\ fd'[d] = fd[d]
    /\ UNCHANGED <<hot, active, capacity>>

\* the channels a poll() owes the loop when the descriptors H are ready
Due(H) == {c \in Chans : events[c] # {} /\ fd[c] \in H}

Poll ==
    /\ active' \subseteq Due(hot')
    /\ Cardinality(active') = Min({Cardinality(Due(hot')), capacity})
    /\ capacity' >= capacity
    /\ UNCHANGED <<events, fd>>

\* the round is over
Clear ==
    /\ active' = {} /\ hot' = {}
    /\ UNCHANGED <<events, fd, capacity>>

Next == (\E c \in Chans : Ask(c)) \/ Poll \/ Clear

Spec == Init /\ [][Next]_vars
=============================================================================
