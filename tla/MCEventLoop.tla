----------------------------- MODULE MCEventLoop -----------------------------
(* EventLoop with few functors and threads. *)
EXTENDS EventLoop
=============================================================================
