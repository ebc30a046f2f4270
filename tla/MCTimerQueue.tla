---------------------------- MODULE MCTimerQueue ----------------------------
(* TimerQueue with few addresses, timers and instants. *)
EXTENDS TimerQueue, TLC

Symmetric == Permutations(Addr)
=============================================================================
