----------------------------- MODULE MCTcpClient -----------------------------
(* A client that is destructed at any time. *)
EXTENDS TcpClient
=============================================================================
