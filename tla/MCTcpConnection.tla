-------------------------- MODULE MCTcpConnection --------------------------
(* TcpConnection with a message that write() can split and a shorter one.  *)
EXTENDS TcpConnection

CONSTANTS m1, m2

MCSize == [m \in Messages |-> IF m = m1 THEN 2 ELSE 1]
=============================================================================
