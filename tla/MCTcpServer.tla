---------------------------- MODULE MCTcpServer ----------------------------
(* TcpServer with a pool of at most two threads.                           *)
EXTENDS TcpServer

CONSTANTS io1, io2

TwoThreads == <<io1, io2>>
=============================================================================
