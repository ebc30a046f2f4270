---------------------------- MODULE MCAsyncLogging ----------------------------
(* AsyncLogging with buffers of few bytes and batches of few buffers. *)
EXTENDS AsyncLogging
=============================================================================
