------------------------------ MODULE EventLoop ------------------------------
(***************************************************************************)
(* net/EventLoop.cpp: one loop thread that polls, handles active channels  *)
(* and runs queued functors, and other threads that hand functors to it    *)
(* (runInLoop, queneInLoop), stop it (quit) and wake it through an         *)
(* eventfd.                                                                *)
(*                                                                         *)
(* A step of a thread is what it does between two accesses to state that   *)
(* another thread also touches: pendingFunctors_ (under mutex_), quit_     *)
(* (atomic) and the eventfd.  A functor and a channel callback are opaque  *)
(* user code that may call back into the loop any number of times.         *)
(***************************************************************************)
EXTENDS Naturals, Sequences

CONSTANTS Functors,  \* the functors that are ever handed to the loop, once each
          Threads    \* the threads other than the loop thread

VARIABLES
    loopPc,                  \* where the loop thread is
    looping_, quit_, callingPendingFunctors_,
    pendingFunctors_,        \* the vector guarded by mutex_
    functors,                \* doPendingFunctors' local vector, what is left of it
    active,                  \* activeChannels_ that are still to be handled
    wakeupFd_,               \* the eventfd: 0 when its counter is zero, else 1
    pc,                      \* pc[t]: another thread's place in a call
    executed,                \* history: the functors run, in order
    early                    \* history: queued by the loop thread outside loop()

vars == <<loopPc, looping_, quit_, callingPendingFunctors_, pendingFunctors_,
          functors, active, wakeupFd_, pc, executed, early>>

loopVars == <<looping_, callingPendingFunctors_, functors, active>>

\* "out": outside loop(); "io", "body": in user code called by the loop.
LoopPcs == {"out", "while", "poll", "handle", "io", "run", "body"}

Elements(s) == {s[i] : i \in DOMAIN s}

\* f was never handed to the loop.
Fresh(f) == f \notin Elements(pendingFunctors_) \cup Elements(functors)
                       \cup Elements(executed)

Init == /\ loopPc = "out"
        /\ looping_ = FALSE
        /\ quit_ = FALSE
        /\ callingPendingFunctors_ = FALSE
        /\ pendingFunctors_ = <<>>
        /\ functors = <<>>
        /\ active = {}
        /\ wakeupFd_ = 0
        /\ pc = [t \in Threads |-> "idle"]
        /\ executed = <<>>
        /\ early = {}
-----------------------------------------------------------------------------
(* The loop thread in loop(). *)

Loop == /\ loopPc = "out"
        /\ loopPc' = "while"
        /\ looping_' = TRUE
        /\ quit_' = FALSE
        /\ UNCHANGED <<callingPendingFunctors_, pendingFunctors_, functors,
                       active, wakeupFd_, pc, executed, early>>

\* while (!quit_)
While == /\ loopPc = "while"
         /\ loopPc' = IF quit_ THEN "out" ELSE "poll"
         /\ looping_' = ~quit_
         /\ UNCHANGED <<quit_, callingPendingFunctors_, pendingFunctors_, functors,
                        active, wakeupFd_, pc, executed, early>>

\* poll returns the readable eventfd and the I/O channel if it is ready; with
\* neither it returns after kPollTimeMs.
Poll(io) == /\ loopPc = "poll"
            /\ loopPc' = "handle"
            /\ active' = io \cup (IF wakeupFd_ > 0 THEN {"wakeup"} ELSE {})
            /\ UNCHANGED <<looping_, quit_, callingPendingFunctors_,
                           pendingFunctors_, functors, wakeupFd_, pc, executed, early>>

\* handleRead: the read returns the counter and zeroes it.
HandleRead == /\ loopPc = "handle"
              /\ "wakeup" \in active
              /\ active' = active \ {"wakeup"}
              /\ wakeupFd_' = 0
              /\ UNCHANGED <<loopPc, looping_, quit_, callingPendingFunctors_,
                             pendingFunctors_, functors, pc, executed, early>>

\* handleEvent of a channel of the user ...
HandleEvent == /\ loopPc = "handle"
               /\ "io" \in active
               /\ loopPc' = "io"
               /\ active' = active \ {"io"}
               /\ UNCHANGED <<looping_, quit_, callingPendingFunctors_,
                              pendingFunctors_, functors, wakeupFd_, pc, executed, early>>

\* ... and its return.
EventHandled == /\ loopPc = "io"
                /\ loopPc' = "handle"
                /\ UNCHANGED <<loopVars, quit_, pendingFunctors_, wakeupFd_, pc,
                               executed, early>>

MDoPendingFunctors == /\ loopPc = "handle"
                      /\ active = {}
                      /\ loopPc' = "run"
                      /\ callingPendingFunctors_' = TRUE
                      /\ functors' = pendingFunctors_
                      /\ UNCHANGED <<looping_, quit_, active, pendingFunctors_,
                                     wakeupFd_, pc, executed, early>>

\* doPendingFunctors: the queue is swapped for an empty one under the lock ...
DoPendingFunctors == /\ loopPc = "handle"
                     /\ active = {}
                     /\ loopPc' = "run"
                     /\ callingPendingFunctors_' = TRUE
                     /\ functors' = pendingFunctors_
                     /\ pendingFunctors_' = <<>>
                     /\ UNCHANGED <<looping_, quit_, active, wakeupFd_, pc,
                                    executed, early>>

\* ... every functor of the batch is called in turn ...
CallFunctor == /\ loopPc = "run"
               /\ functors # <<>>
               /\ loopPc' = "body"
               /\ executed' = Append(executed, Head(functors))
               /\ functors' = Tail(functors)
               /\ UNCHANGED <<looping_, quit_, callingPendingFunctors_,
                              pendingFunctors_, active, wakeupFd_, pc, early>>

FunctorReturns == /\ loopPc = "body"
                  /\ loopPc' = "run"
                  /\ UNCHANGED <<loopVars, quit_, pendingFunctors_, wakeupFd_, pc,
                                 executed, early>>

\* ... and the loop starts over.
EndPendingFunctors == /\ loopPc = "run"
                      /\ functors = <<>>
                      /\ loopPc' = "while"
                      /\ callingPendingFunctors_' = FALSE
                      /\ UNCHANGED <<looping_, quit_, pendingFunctors_, functors,
                                     active, wakeupFd_, pc, executed, early>>
-----------------------------------------------------------------------------
(* User code in the loop thread: before and after loop(), in a channel's   *)
(* callback, or in a functor.                                              *)

InUserCode == loopPc \in {"out", "io", "body"}

MLoopQueneInLoop(f) == /\ InUserCode
                       /\ Fresh(f)
                       /\ pendingFunctors_' = Append(pendingFunctors_, f)
                       /\ early' = IF looping_ THEN early ELSE early \cup {f}
                       /\ UNCHANGED <<loopPc, loopVars, quit_, wakeupFd_, pc, executed>>

\* queneInLoop in the loop thread writes the eventfd only while functors run.
LoopQueneInLoop(f) == /\ InUserCode
                      /\ Fresh(f)
                      /\ pendingFunctors_' = Append(pendingFunctors_, f)
                      /\ wakeupFd_' = IF callingPendingFunctors_ THEN 1 ELSE wakeupFd_
                      /\ early' = IF looping_ THEN early ELSE early \cup {f}
                      /\ UNCHANGED <<loopPc, loopVars, quit_, pc, executed>>

\* runInLoop in the loop thread calls the functor at once.  The calls the
\* functor makes are then calls of the user code around it.
LoopRunInLoop(f) == /\ InUserCode
                    /\ Fresh(f)
                    /\ executed' = Append(executed, f)
                    /\ UNCHANGED <<loopPc, loopVars, quit_, pendingFunctors_,
                                   wakeupFd_, pc, early>>

\* quit in the loop thread: no wakeup, the loop thread is not polling.
LoopQuit == /\ InUserCode
            /\ quit_' = TRUE
            /\ UNCHANGED <<loopPc, loopVars, pendingFunctors_, wakeupFd_, pc,
                           executed, early>>
-----------------------------------------------------------------------------
(* The other threads. *)

\* queneInLoop, and runInLoop which calls it: the functor is appended under
\* the lock; the eventfd is written after the lock is released.
QueneInLoop(t, f) == /\ pc[t] = "idle"
                     /\ Fresh(f)
                     /\ pendingFunctors_' = Append(pendingFunctors_, f)
                     /\ pc' = [pc EXCEPT ![t] = "wakeup"]
                     /\ UNCHANGED <<loopPc, loopVars, quit_, wakeupFd_, executed, early>>

MQuit(t) == /\ pc[t] = "idle"
            /\ quit_' = TRUE
            /\ UNCHANGED <<loopPc, loopVars, pendingFunctors_, wakeupFd_, pc,
                           executed, early>>

Quit(t) == /\ pc[t] = "idle"
           /\ quit_' = TRUE
           /\ pc' = [pc EXCEPT ![t] = "wakeup"]
           /\ UNCHANGED <<loopPc, loopVars, pendingFunctors_, wakeupFd_, executed, early>>

Wakeup(t) == /\ pc[t] = "wakeup"
             /\ wakeupFd_' = 1
             /\ pc' = [pc EXCEPT ![t] = "idle"]
             /\ UNCHANGED <<loopPc, loopVars, quit_, pendingFunctors_, executed, early>>
-----------------------------------------------------------------------------
LoopStep == \/ While \/ HandleRead \/ HandleEvent \/ EventHandled
            \/ DoPendingFunctors \/ CallFunctor \/ FunctorReturns \/ EndPendingFunctors

UserStep == \/ LoopQuit
            \/ \E f \in Functors : LoopQueneInLoop(f) \/ LoopRunInLoop(f)

ThreadStep(t) == \/ Quit(t) \/ Wakeup(t)
                 \/ \E f \in Functors : QueneInLoop(t, f)

Next == \/ Loop
        \/ LoopStep
        \/ \E io \in SUBSET {"io"} : Poll(io)
        \/ UserStep
        \/ \E t \in Threads : ThreadStep(t)

Spec == Init /\ [][Next]_vars

\* The loop thread keeps running, user code returns, a thread that is about to
\* write the eventfd does so, and poll returns when the eventfd is readable.
\* Nothing is assumed of I/O events or of the timeout of poll.
Fairness == /\ WF_vars(LoopStep)
            /\ WF_vars(wakeupFd_ > 0 /\ \E io \in SUBSET {"io"} : Poll(io))
            /\ \A t \in Threads : WF_vars(Wakeup(t))

FairSpec == Spec /\ Fairness
-----------------------------------------------------------------------------
(* Types, and the flags that follow the loop thread's place: looping_ is   *)
(* set exactly in loop(), callingPendingFunctors_ exactly while the        *)
(* functors of a batch are called.                                         *)
TypeOK == /\ loopPc \in LoopPcs
          /\ looping_ \in BOOLEAN /\ (looping_ <=> loopPc # "out")
          /\ quit_ \in BOOLEAN
          /\ callingPendingFunctors_ \in BOOLEAN
          /\ (callingPendingFunctors_ <=> loopPc \in {"run", "body"})
          /\ pendingFunctors_ \in Seq(Functors)
          /\ functors \in Seq(Functors)
          /\ functors # <<>> => loopPc \in {"run", "body"}
          /\ active \in SUBSET {"wakeup", "io"}
          /\ active # {} => loopPc \in {"handle", "io"}
          /\ wakeupFd_ \in 0..1
          /\ pc \in [Threads -> {"idle", "wakeup"}]
          /\ executed \in Seq(Functors)
          /\ early \in SUBSET Functors

\* The eventfd is readable or is about to be.
WakeupComing == wakeupFd_ > 0 \/ \E t \in Threads : pc[t] = "wakeup"

(* A loop thread that is about to block in poll, or is blocked, has no     *)
(* functor waiting that nobody will wake it for: whatever order the push,  *)
(* the eventfd write, the eventfd read and the swap come in.  The          *)
(* functors the loop thread queued outside loop() are the exception: these *)
(* wait for another event or for kPollTimeMs.                              *)
NoLostWakeup ==
    loopPc = "poll" /\ ~(Elements(pendingFunctors_) \subseteq early) => WakeupComing

(* The inductive form: outside the part of an iteration that ends in a     *)
(* swap anyway, that is before doPendingFunctors and after poll returned,  *)
(* a waiting functor has its wakeup.                                       *)
PendingHasWakeup ==
    loopPc \notin {"handle", "io"} /\ ~(Elements(pendingFunctors_) \subseteq early)
        => WakeupComing

(* A quit that came after the loop read quit_ is not slept through.        *)
QuitWakesPoll == loopPc = "poll" /\ quit_ => WakeupComing

(* Functors run exactly once and in the order in which they were queued,   *)
(* by all threads together: the batch being run, followed by the vector    *)
(* that fills meanwhile, is one queue.                                     *)
TQ == INSTANCE TaskQueue WITH queue <- functors \o pendingFunctors_

FifoExactlyOnce == TQ!Spec

(* A functor queued to a running loop runs, or the loop is stopped, though *)
(* poll may never time out and no I/O event may ever come.                 *)
QueuedFunctorRuns ==
    \A f \in Functors :
        (f \in Elements(pendingFunctors_) \ early /\ looping_)
            ~> (f \in Elements(executed) \/ ~looping_)

(* A quit that loop() has not overwritten stops the loop.                  *)
QuitStopsLoop == (quit_ /\ looping_) ~> ~looping_
=============================================================================
