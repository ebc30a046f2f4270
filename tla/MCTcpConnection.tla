--------------------------- MODULE MCTcpConnection ---------------------------
(* TcpConnection with small buffers and queues. *)
EXTENDS TcpConnection
=============================================================================
