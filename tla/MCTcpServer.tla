----------------------------- MODULE MCTcpServer -----------------------------
(* A server with up to two I/O threads, started from two threads. *)
EXTENDS TcpServer
=============================================================================
