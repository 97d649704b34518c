----------------------------- MODULE Condition -----------------------------
(***************************************************************************)
(* muduo::Condition: what pthread_cond_signal and pthread_cond_broadcast   *)
(* do to the threads.  pc says for each thread where it is; "waiting" is   *)
(* inside wait(), "woken" on the way out of it, when the thread has to get *)
(* the mutex again.  A thread may also be woken for no reason.             *)
(***************************************************************************)
Waiting(pc) == {t \in DOMAIN pc : pc[t] = "waiting"}

\* what may follow notify(): it wakes one of the waiting threads, if any
Notify(pc) ==
    IF Waiting(pc) = {} THEN {pc} ELSE {[pc EXCEPT ![t] = "woken"] : t \in Waiting(pc)}

\* after notifyAll()
NotifyAll(pc) == [t \in DOMAIN pc |-> IF pc[t] = "waiting" THEN "woken" ELSE pc[t]]
=============================================================================
