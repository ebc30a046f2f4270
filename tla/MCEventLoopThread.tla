-------------------------- MODULE MCEventLoopThread --------------------------
(* EventLoopThread with few functors. *)
EXTENDS EventLoopThread
=============================================================================
