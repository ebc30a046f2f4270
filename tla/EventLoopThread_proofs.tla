----------------------- MODULE EventLoopThread_proofs -----------------------
(***************************************************************************)
(* Proofs about EventLoopThread, for any set of functors: a published loop *)
(* is alive, startLoop returns a loop, and a destroyed EventLoopThread     *)
(* leaves no loop running.                                                 *)
(***************************************************************************)
EXTENDS EventLoopThread, TLAPS

OwnerPcs == {"new", "latch", "check", "waiting", "using", "quit", "join", "destroyed",
             "crashed"}
ThreadPcs == {"none", "startFunc", "callback", "loop", "looping", "return", "ended"}

PcsTyped == ownerPc \in OwnerPcs /\ threadPc \in ThreadPcs

(* What the flags say of the place of the started thread, and that loop()  *)
(* is entered there and nowhere else.                                      *)
ThreadOfLoop == /\ loop_ \in BOOLEAN /\ (loop_ <=> threadPc \in {"loop", "looping"})
                /\ alive \in BOOLEAN
                /\ (alive <=> threadPc \in {"callback", "loop", "looping", "return"})
                /\ looping_ \in BOOLEAN /\ (looping_ <=> loopPc # "out")
                /\ looping_ => threadPc = "looping"

(* How far the started thread must be for the owner to be where it is: in  *)
(* particular a destructor that finds loop_ NULL runs before Start or      *)
(* after the end of loop().                                                *)
OwnerBehind == /\ ownerPc = "new" => threadPc = "none"
               /\ ownerPc \in {"using", "quit", "join", "crashed"}
                    => threadPc \in {"loop", "looping", "return", "ended"}
               /\ ownerPc = "destroyed" => threadPc \in {"none", "return", "ended"}

Inv == PcsTyped /\ ThreadOfLoop /\ OwnerBehind

(* A step of the loop inside loop() ends in loop() or clears looping_, and *)
(* user code and other threads change neither.                             *)
LEMMA LoopSteps ==
    ASSUME looping_ \in BOOLEAN, looping_ <=> loopPc # "out"
    PROVE  /\ EL!Loop => looping_' = TRUE /\ loopPc' = "while"
           /\ EL!LoopStep \/ (\E io \in SUBSET {"io"} : EL!Poll(io))
                => looping_' \in BOOLEAN /\ (looping_' <=> loopPc' # "out")
           /\ EL!UserStep => UNCHANGED <<looping_, loopPc>>
           /\ (\E f \in Functors : EL!QueneInLoop("owner", f)) => UNCHANGED <<looping_, loopPc>>
           /\ EL!Wakeup("owner") \/ EL!Quit("owner") => UNCHANGED <<looping_, loopPc>>
<1>1. EL!Loop => looping_' = TRUE /\ loopPc' = "while"
  BY DEF EL!Loop
<1>2. ASSUME EL!LoopStep \/ (\E io \in SUBSET {"io"} : EL!Poll(io))
      PROVE  looping_' \in BOOLEAN /\ (looping_' <=> loopPc' # "out")
  <2>1. CASE EL!While
    <3>1. CASE quit_ BY <2>1, <3>1 DEF EL!While
    <3>2. CASE ~quit_ BY <2>1, <3>2 DEF EL!While
    <3> QED BY <3>1, <3>2
  <2>2. CASE EL!HandleRead
    BY <2>2 DEF EL!HandleRead
  <2>3. CASE EL!HandleEvent
    BY <2>3 DEF EL!HandleEvent
  <2>4. CASE EL!EventHandled
    BY <2>4 DEF EL!EventHandled, EL!loopVars
  <2>5. CASE EL!DoPendingFunctors
    BY <2>5 DEF EL!DoPendingFunctors
  <2>6. CASE EL!CallFunctor
    BY <2>6 DEF EL!CallFunctor
  <2>7. CASE EL!FunctorReturns
    BY <2>7 DEF EL!FunctorReturns, EL!loopVars
  <2>8. CASE EL!EndPendingFunctors
    BY <2>8 DEF EL!EndPendingFunctors
  <2>9. CASE \E io \in SUBSET {"io"} : EL!Poll(io)
    BY <2>9 DEF EL!Poll
  <2> QED BY <1>2, <2>1, <2>2, <2>3, <2>4, <2>5, <2>6, <2>7, <2>8, <2>9 DEF EL!LoopStep
<1>3. EL!UserStep => UNCHANGED <<looping_, loopPc>>
  BY DEF EL!UserStep, EL!LoopQuit, EL!LoopQueneInLoop, EL!LoopRunInLoop, EL!loopVars
<1>4. (\E f \in Functors : EL!QueneInLoop("owner", f)) => UNCHANGED <<looping_, loopPc>>
  BY DEF EL!QueneInLoop, EL!loopVars
<1>5. EL!Wakeup("owner") \/ EL!Quit("owner") => UNCHANGED <<looping_, loopPc>>
  BY DEF EL!Wakeup, EL!Quit, EL!loopVars
<1> QED BY <1>1, <1>2, <1>3, <1>4, <1>5

(* Inv holds, whatever the loop's user code does and however long the      *)
(* owner and the thread take for their steps.                              *)
THEOREM Invariance == Spec => []Inv
<1> USE DEF Inv, PcsTyped, OwnerPcs, ThreadPcs, ThreadOfLoop, OwnerBehind
<1>1. Init => Inv
  BY DEF Init, EL!Init
<1>2. Inv /\ [Next]_vars => Inv'
  <2> SUFFICES ASSUME Inv, [Next]_vars PROVE Inv'
    OBVIOUS
  <2>1. CASE Start
    BY <2>1 DEF Start, loopVars
  <2>2. CASE SpuriousWakeup
    BY <2>2 DEF SpuriousWakeup, loopVars
  <2>3. CASE OwnerQueues
    BY <2>3, LoopSteps DEF OwnerQueues
  <2>4. CASE Destroy
    BY <2>4 DEF Destroy, loopVars
  <2>5. CASE LatchWait
    BY <2>5 DEF LatchWait, loopVars
  <2>6. CASE CheckLoop
    BY <2>6 DEF CheckLoop, loopVars
  <2>7. CASE OwnerWakeup
    BY <2>7, LoopSteps DEF OwnerWakeup
  <2>8. CASE DestroyQuit
    BY <2>8, LoopSteps DEF DestroyQuit, loopVars
  <2>9. CASE Join
    BY <2>9 DEF Join, loopVars
  <2>10. CASE StartFunc
    BY <2>10 DEF StartFunc, loopVars
  <2>11. CASE Publish
    BY <2>11 DEF Publish, loopVars
  <2>12. CASE EnterLoop
    BY <2>12, LoopSteps DEF EnterLoop
  <2>13. CASE LoopRuns
    BY <2>13, LoopSteps DEF LoopRuns
  <2>14. CASE Unpublish
    BY <2>14 DEF Unpublish, loopVars
  <2>15. CASE ThreadEnds
    BY <2>15 DEF ThreadEnds, loopVars
  <2>16. CASE CallbackUsesLoop
    BY <2>16, LoopSteps DEF CallbackUsesLoop
  <2>17. CASE LoopUserCode
    BY <2>17, LoopSteps DEF LoopUserCode
  <2>18. CASE \E readable \in BOOLEAN : LoopPolls(readable)
    <3>1. threadPc = "looping" /\ UNCHANGED <<ownerPc, threadPc, loop_, alive>>
      BY <2>18 DEF LoopPolls
    <3>2. \E io \in SUBSET {"io"} : EL!Poll(io)
      BY <2>18 DEF LoopPolls
    <3> QED BY <3>1, <3>2, LoopSteps
  <2>19. CASE UNCHANGED vars
    BY <2>19 DEF vars, loopVars
  <2> QED
    BY <2>1, <2>2, <2>3, <2>4, <2>5, <2>6, <2>7, <2>8, <2>9, <2>10, <2>11, <2>12, <2>13,
       <2>14, <2>15, <2>16, <2>17, <2>18, <2>19 DEF Next, OwnerStep, ThreadStep
<1> QED BY <1>1, <1>2, PTL DEF Spec

(* A loop that startLoop returns, or that the destructor finds in loop_,   *)
(* is constructed, through its init callback and not yet destructed.       *)
THEOREM PublishedLoopIsAlive == Spec => []PublishedLoopLives
<1>1. Inv => PublishedLoopLives
  BY DEF Inv, ThreadOfLoop, PublishedLoopLives
<1> QED BY <1>1, Invariance, PTL

(* startLoop does not return NULL: it leaves its wait loop only after the  *)
(* loop was published, spurious wakeups and a failing pthread_create       *)
(* included.                                                               *)
THEOREM StartLoopGivesALoop == Spec => []StartLoopReturnsLoop
<1>1. Inv => StartLoopReturnsLoop
  BY DEF Inv, ThreadOfLoop, OwnerBehind, StartLoopReturnsLoop
<1> QED BY <1>1, Invariance, PTL

(* ~EventLoopThread returns only when no loop() runs any more, although it *)
(* tests loop_ without the mutex and does not join when it finds NULL.     *)
THEOREM NoLoopOutlivesItsOwner == Spec => []NoLoopLeftRunning
<1>1. Inv => NoLoopLeftRunning
  BY DEF Inv, ThreadOfLoop, OwnerBehind, NoLoopLeftRunning
<1> QED BY <1>1, Invariance, PTL
=============================================================================
