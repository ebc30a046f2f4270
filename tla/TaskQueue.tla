------------------------------ MODULE TaskQueue ------------------------------
(***************************************************************************)
(* What runInLoop and queneInLoop promise to their callers: a first-in     *)
(* first-out queue of functors, drained one at a time by a single          *)
(* executor, where each functor that is queued runs at most once and in    *)
(* the order of queueing, whoever queued it.  Only the executor itself may *)
(* run a functor at once, past the queue (runInLoop in the loop thread).   *)
(* Nothing is said of threads, wakeups, batches or quitting: EventLoop     *)
(* implements this specification.                                          *)
(***************************************************************************)
EXTENDS Sequences

CONSTANT Functors

VARIABLES queue,     \* functors queued and not yet run, oldest first
          executed   \* functors run so far, in the order in which they began

vars == <<queue, executed>>

Elements(s) == {s[i] : i \in DOMAIN s}

Init == queue = <<>> /\ executed = <<>>

\* A functor that was never handed over before is queued.
Submit(f) == /\ f \notin Elements(queue) \cup Elements(executed)
             /\ queue' = Append(queue, f)
             /\ UNCHANGED executed

\* The executor runs the oldest functor.
Execute == /\ queue # <<>>
           /\ executed' = Append(executed, Head(queue))
           /\ queue' = Tail(queue)

\* The executor is handed a functor by the code it is running.
ExecuteNow(f) == /\ f \notin Elements(queue) \cup Elements(executed)
                 /\ executed' = Append(executed, f)
                 /\ UNCHANGED queue

Next == Execute \/ \E f \in Functors : Submit(f) \/ ExecuteNow(f)

Spec == Init /\ [][Next]_vars
=============================================================================
