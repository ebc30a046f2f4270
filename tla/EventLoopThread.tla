--------------------------- MODULE EventLoopThread ---------------------------
(***************************************************************************)
(* net/EventLoopThread.cpp over src/thread.cpp and src/countDownLatch.cpp: *)
(* an owner thread starts a thread that runs an EventLoop of its own,      *)
(* waits until the loop is published in loop_, uses it, and destroys the   *)
(* EventLoopThread.  The loop itself is the EventLoop module, with the     *)
(* owner as its only other thread.                                         *)
(***************************************************************************)
EXTENDS Integers, Sequences

CONSTANT Functors    \* the functors handed to the loop

VARIABLES loopPc, looping_, quit_, callingPendingFunctors_, pendingFunctors_,
          functors, active, wakeupFd_, pc, executed, early   \* of the EventLoop

VARIABLES
    ownerPc,      \* the owner in startLoop, in between, and in the destructor
    threadPc,     \* the started thread in startFunc and threadFunc
    started_,     \* thread_.started_
    count_,       \* thread_.latch_
    loop_,        \* loop_ # NULL
    alive         \* threadFunc's local EventLoop is constructed, not yet destructed

loopVars == <<loopPc, looping_, quit_, callingPendingFunctors_, pendingFunctors_,
              functors, active, wakeupFd_, pc, executed, early>>
vars == <<loopVars, ownerPc, threadPc, started_, count_, loop_, alive>>

EL == INSTANCE EventLoop WITH Threads <- {"owner"}

Init == /\ EL!Init
        /\ ownerPc = "new" /\ threadPc = "none"
        /\ started_ = FALSE /\ count_ = 1 /\ loop_ = FALSE /\ alive = FALSE
-----------------------------------------------------------------------------
(* The owner: startLoop. *)

\* thread::start counts the latch down itself and creates the thread.  When
\* pthread_create fails startLoop goes on to wait for the loop all the same.
Start == /\ ownerPc = "new"
         /\ count_' = count_ - 1
         /\ \/ started_' = TRUE /\ threadPc' = "startFunc" /\ ownerPc' = "latch"
            \/ started_' = FALSE /\ threadPc' = threadPc /\ ownerPc' = "check"
         /\ UNCHANGED <<loopVars, loop_, alive>>

\* latch_.wait()
LatchWait == /\ ownerPc = "latch"
             /\ count_ <= 0
             /\ ownerPc' = "check"
             /\ UNCHANGED <<loopVars, threadPc, started_, count_, loop_, alive>>

MCheckLoop == /\ ownerPc = "check"
              /\ ownerPc' = "using"
              /\ UNCHANGED <<loopVars, threadPc, started_, count_, loop_, alive>>

\* while (loop_ == NULL) cond_.wait(), holding mutex_ between test and wait
CheckLoop == /\ ownerPc = "check"
             /\ ownerPc' = IF loop_ THEN "using" ELSE "waiting"
             /\ UNCHANGED <<loopVars, threadPc, started_, count_, loop_, alive>>

\* pthread_cond_wait may return without a notify
SpuriousWakeup == /\ ownerPc = "waiting"
                  /\ ownerPc' = "check"
                  /\ UNCHANGED <<loopVars, threadPc, started_, count_, loop_, alive>>

\* The owner hands a functor to the loop it got from startLoop, and writes
\* its eventfd: in wakeup, here and in the destructor, the loop may be gone,
\* and the write is then to a descriptor that was closed.
OwnerQueues == /\ ownerPc = "using"
               /\ alive
               /\ \E f \in Functors : EL!QueneInLoop("owner", f)
               /\ UNCHANGED <<ownerPc, threadPc, started_, count_, loop_, alive>>

OwnerWakeup == /\ pc["owner"] = "wakeup"
               /\ IF alive THEN EL!Wakeup("owner")
                  ELSE /\ pc' = [pc EXCEPT !["owner"] = "idle"]
                       /\ UNCHANGED <<loopPc, looping_, quit_, callingPendingFunctors_,
                                      pendingFunctors_, functors, active, wakeupFd_,
                                      executed, early>>
               /\ UNCHANGED <<ownerPc, threadPc, started_, count_, loop_, alive>>
-----------------------------------------------------------------------------
(* The owner: ~EventLoopThread. *)

\* if (loop_ != NULL), without the mutex
Destroy == /\ ownerPc \in {"new", "using"}
           /\ pc["owner"] = "idle"
           /\ ownerPc' = IF loop_ THEN "quit" ELSE "destroyed"
           /\ UNCHANGED <<loopVars, threadPc, started_, count_, loop_, alive>>


\* loop_->quit() reads loop_ again: it may have become NULL.
DestroyQuit == /\ ownerPc = "quit"
               /\ IF loop_ THEN EL!Quit("owner") /\ ownerPc' = "join"
                           ELSE UNCHANGED loopVars /\ ownerPc' = "crashed"
               /\ UNCHANGED <<threadPc, started_, count_, loop_, alive>>

MJoin == /\ ownerPc = "join"
         /\ pc["owner"] = "idle"
         /\ ownerPc' = "destroyed"
         /\ UNCHANGED <<loopVars, threadPc, started_, count_, loop_, alive>>

\* thread_.join(), after quit() returned
Join == /\ ownerPc = "join"
        /\ pc["owner"] = "idle"
        /\ threadPc = "ended"
        /\ ownerPc' = "destroyed"
        /\ UNCHANGED <<loopVars, threadPc, started_, count_, loop_, alive>>
-----------------------------------------------------------------------------
(* The started thread. *)

\* latch_.countDown(), then threadFunc constructs its EventLoop
StartFunc == /\ threadPc = "startFunc"
             /\ count_' = count_ - 1
             /\ alive' = TRUE
             /\ threadPc' = "callback"
             /\ UNCHANGED <<loopVars, ownerPc, started_, loop_>>

\* callback_(&loop) may use the loop as any user code of the loop thread may
CallbackUsesLoop == /\ threadPc = "callback"
                    /\ EL!UserStep
                    /\ UNCHANGED <<ownerPc, threadPc, started_, count_, loop_, alive>>

MPublish == /\ threadPc = "callback"
            /\ threadPc' = "loop"
            /\ loop_' = TRUE
            /\ UNCHANGED <<loopVars, ownerPc, started_, count_, alive>>

\* loop_ = &loop; cond_.notify(), under the mutex
Publish == /\ threadPc = "callback"
           /\ threadPc' = "loop"
           /\ loop_' = TRUE
           /\ ownerPc' = IF ownerPc = "waiting" THEN "check" ELSE ownerPc
           /\ UNCHANGED <<loopVars, started_, count_, alive>>

EnterLoop == /\ threadPc = "loop"
             /\ EL!Loop
             /\ threadPc' = "looping"
             /\ UNCHANGED <<ownerPc, started_, count_, loop_, alive>>

LoopRuns == /\ threadPc = "looping" /\ loopPc # "out"
            /\ EL!LoopStep
            /\ UNCHANGED <<ownerPc, threadPc, started_, count_, loop_, alive>>

\* poll returns for an event, or (readable = FALSE) after its timeout
LoopPolls(readable) == /\ threadPc = "looping"
                       /\ readable => wakeupFd_ > 0
                       /\ \E io \in SUBSET {"io"} : EL!Poll(io)
                       /\ UNCHANGED <<ownerPc, threadPc, started_, count_, loop_, alive>>

LoopUserCode == /\ threadPc = "looping" /\ loopPc # "out"
                /\ EL!UserStep
                /\ UNCHANGED <<ownerPc, threadPc, started_, count_, loop_, alive>>

MUnpublish == /\ threadPc = "looping" /\ loopPc = "out"
              /\ threadPc' = "return"
              /\ alive' = FALSE
              /\ UNCHANGED <<loopVars, ownerPc, started_, count_, loop_>>

\* loop() has returned: loop_ = NULL under the mutex
Unpublish == /\ threadPc = "looping" /\ loopPc = "out"
             /\ threadPc' = "return"
             /\ loop_' = FALSE
             /\ UNCHANGED <<loopVars, ownerPc, started_, count_, alive>>

\* the local EventLoop is destructed and the thread ends
ThreadEnds == /\ threadPc = "return"
              /\ threadPc' = "ended"
              /\ alive' = FALSE
              /\ UNCHANGED <<loopVars, ownerPc, started_, count_, loop_>>
-----------------------------------------------------------------------------
OwnerStep == \/ LatchWait \/ CheckLoop \/ OwnerWakeup \/ DestroyQuit \/ Join

ThreadStep == StartFunc \/ Publish \/ EnterLoop \/ LoopRuns \/ Unpublish \/ ThreadEnds

Next == \/ Start \/ SpuriousWakeup \/ OwnerQueues \/ Destroy
        \/ OwnerStep \/ ThreadStep
        \/ CallbackUsesLoop \/ LoopUserCode
        \/ \E readable \in BOOLEAN : LoopPolls(readable)

Spec == Init /\ [][Next]_vars

\* Both threads keep running, the callback and the user code return, and poll
\* returns when the eventfd is readable.
FairSpec == Spec /\ WF_vars(OwnerStep) /\ WF_vars(ThreadStep) /\ WF_vars(LoopPolls(TRUE))

\* Besides, a poll that nothing wakes returns after kPollTimeMs.
TimedSpec == FairSpec /\ WF_vars(LoopPolls(FALSE))
-----------------------------------------------------------------------------
TypeOK == /\ EL!TypeOK
          /\ ownerPc \in {"new", "latch", "check", "waiting", "using", "quit", "join",
                          "destroyed", "crashed"}
          /\ threadPc \in {"none", "startFunc", "callback", "loop", "looping",
                           "return", "ended"}
          /\ started_ \in BOOLEAN /\ (started_ <=> threadPc # "none")
          /\ count_ \in -1..1
          /\ loop_ \in BOOLEAN
          /\ alive \in BOOLEAN

(* The loop that startLoop returns and that the destructor tests is        *)
(* constructed, has been through the thread's init callback, and is not    *)
(* yet destructed.                                                         *)
PublishedLoopLives == loop_ => alive /\ threadPc \in {"loop", "looping"}

(* startLoop returns a loop, never NULL: the loop is published, or was and *)
(* has quit on its own since.                                              *)
StartLoopReturnsLoop == ownerPc = "using" => loop_ \/ threadPc \in {"return", "ended"}

(* A destroyed EventLoopThread leaves no loop running behind it: either    *)
(* its thread never started or it is past the end of loop().               *)
NoLoopLeftRunning ==
    ownerPc = "destroyed" => ~looping_ /\ threadPc \in {"none", "return", "ended"}

(* startLoop returns once the thread was created, unless the loop quits on *)
(* its own before the owner looks at loop_.                                *)
StartLoopReturns ==
    (started_ /\ ownerPc \in {"latch", "check", "waiting"})
        ~> (ownerPc = "using" \/ threadPc = "ended")


(* A destructor returns.                                                   *)
DestructorReturns == (ownerPc \in {"quit", "join"}) ~> (ownerPc \in {"destroyed", "crashed"})
=============================================================================
