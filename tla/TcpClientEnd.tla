---------------------------- MODULE TcpClientEnd ----------------------------
(***************************************************************************)
(* How a program with a TcpClient may end, in terms of what TcpClient      *)
(* records of it.  It is a module of its own so that TcpClient, the runs   *)
(* and the proofs about the client state the same promise.                 *)
(***************************************************************************)

VARIABLES
    unsafe,        \* history: destructed when connected, with a functor of the Connector queued
    shared,        \* history: destructed while user code held the connection
    died           \* what ended the program

(* A client may be destructed at any time in its loop, while it connects,  *)
(* waits to retry, is connected or was stopped: neither its Connector nor  *)
(* its connection calls it afterwards, no functor runs on a Connector that *)
(* is gone, and the Connector has no channel when it goes.  The exception  *)
(* is a client with a connection in the iteration of the loop in which the *)
(* connection came up or stop() was called: resetChannel or stopInLoop is  *)
(* still queued, and nothing holds the Connector for it.  Nor is an open   *)
(* connection ever destructed, unless user code held the last pointer and  *)
(* lets go of it.                                                          *)
NothingCallsTheDead ==
    \/ died \in {"none", "~Channel:addedToLoop_"}
    \/ unsafe
    \/ died = "~TcpConnection:state_" /\ shared
=============================================================================
