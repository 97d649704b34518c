------------------------------ MODULE Mailbox ------------------------------
(***************************************************************************)
(* What an EventLoop promises to the threads that hand it callbacks: a     *)
(* FIFO mailbox.  Every callback that is submitted is executed at most     *)
(* once, by the owner of the mailbox, in the order of submission, and none *)
(* disappears.                                                             *)
(***************************************************************************)
EXTENDS Sequences

CONSTANT Functors   \* the callbacks that may be submitted

VARIABLES todo,     \* submitted and not yet executed, oldest first
          done      \* executed, oldest first

vars == <<todo, done>>

Init == todo = <<>> /\ done = <<>>

Submit(f) ==
    /\ todo' = Append(todo, f)
    /\ done' = done

Execute ==
    /\ todo # <<>>
    /\ done' = Append(done, Head(todo))
    /\ todo' = Tail(todo)

Next == Execute \/ \E f \in Functors : Submit(f)

Spec == Init /\ [][Next]_vars
=============================================================================
