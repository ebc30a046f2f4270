-------------------------- MODULE EventLoop_proofs --------------------------
(***************************************************************************)
(* Proofs about EventLoop, for any set of functors and of threads: the     *)
(* type invariant, that no wakeup and no quit is lost, and that the loop   *)
(* implements TaskQueue.                                                   *)
(***************************************************************************)
EXTENDS EventLoop, TLAPS

-----------------------------------------------------------------------------
(* What a functor appended to a sequence does to its elements. *)
LEMMA AppendElements ==
    ASSUME NEW S, NEW s \in Seq(S), NEW e \in S
    PROVE  /\ Append(s, e) \in Seq(S)
           /\ Elements(Append(s, e)) = Elements(s) \cup {e}
<1>1. Append(s, e) \in Seq(S)
  OBVIOUS
<1>2. Len(Append(s, e)) = Len(s) + 1 /\ Len(s) \in Nat
  OBVIOUS
<1>3. \A i \in 1..Len(s) : Append(s, e)[i] = s[i]
  OBVIOUS
<1>4. Append(s, e)[Len(s) + 1] = e
  OBVIOUS
<1>5. DOMAIN s = 1..Len(s) /\ DOMAIN Append(s, e) = 1..(Len(s) + 1)
  BY <1>2
<1>6. Elements(Append(s, e)) \subseteq Elements(s) \cup {e}
  BY <1>2, <1>3, <1>4, <1>5 DEF Elements
<1>7. Elements(s) \cup {e} \subseteq Elements(Append(s, e))
  BY <1>2, <1>3, <1>4, <1>5 DEF Elements
<1> QED BY <1>1, <1>6, <1>7

(* The elements of a concatenation. *)
LEMMA ConcatElements ==
    ASSUME NEW S, NEW s \in Seq(S), NEW u \in Seq(S)
    PROVE  Elements(s \o u) = Elements(s) \cup Elements(u)
<1>1. Len(s \o u) = Len(s) + Len(u) /\ Len(s) \in Nat /\ Len(u) \in Nat
  OBVIOUS
<1>2. \A i \in 1..Len(s) : (s \o u)[i] = s[i]
  OBVIOUS
<1>3. \A i \in 1..Len(u) : (s \o u)[Len(s) + i] = u[i]
  OBVIOUS
<1>4. /\ DOMAIN s = 1..Len(s) /\ DOMAIN u = 1..Len(u)
      /\ DOMAIN (s \o u) = 1..(Len(s) + Len(u))
  BY <1>1
<1>5. Elements(s \o u) \subseteq Elements(s) \cup Elements(u)
  <2> SUFFICES ASSUME NEW i \in 1..(Len(s) + Len(u))
               PROVE  (s \o u)[i] \in Elements(s) \cup Elements(u)
    BY <1>4 DEF Elements
  <2>1. CASE i \in 1..Len(s)
    BY <2>1, <1>2, <1>4 DEF Elements
  <2>2. CASE i \notin 1..Len(s)
    <3>1. i - Len(s) \in 1..Len(u) /\ i = Len(s) + (i - Len(s))
      BY <2>2, <1>1
    <3> QED BY <3>1, <1>3, <1>4 DEF Elements
  <2> QED BY <2>1, <2>2
<1>6. Elements(s) \cup Elements(u) \subseteq Elements(s \o u)
  <2>1. \A i \in 1..Len(s) : i \in 1..(Len(s) + Len(u))
    BY <1>1
  <2>2. \A i \in 1..Len(u) : Len(s) + i \in 1..(Len(s) + Len(u))
    BY <1>1
  <2> QED BY <2>1, <2>2, <1>2, <1>3, <1>4 DEF Elements
<1> QED BY <1>5, <1>6
-----------------------------------------------------------------------------
(* The variables keep their types, and looping_ and                        *)
(* callingPendingFunctors_ follow the loop thread through loop() and       *)
(* doPendingFunctors().                                                    *)
THEOREM TypeCorrect == Spec => []TypeOK
<1>1. Init => TypeOK
  <2> SUFFICES ASSUME Init PROVE TypeOK
    OBVIOUS
  <2>1. pc \in [Threads -> {"idle", "wakeup"}]
    BY DEF Init
  <2>2. <<>> \in Seq(Functors)
    OBVIOUS
  <2>3. /\ loopPc \in LoopPcs /\ looping_ \in BOOLEAN /\ (looping_ <=> loopPc # "out")
        /\ callingPendingFunctors_ \in BOOLEAN
        /\ (callingPendingFunctors_ <=> loopPc \in {"run", "body"})
    BY DEF Init, LoopPcs
  <2>4. pendingFunctors_ \in Seq(Functors) /\ functors \in Seq(Functors)
        /\ executed \in Seq(Functors) /\ functors = <<>>
    BY <2>2 DEF Init
  <2>5. quit_ \in BOOLEAN /\ active \in SUBSET {"wakeup", "io"} /\ active = {}
    BY DEF Init
  <2>6. wakeupFd_ \in 0..1 /\ early \in SUBSET Functors
    BY DEF Init
  <2> QED BY <2>1, <2>3, <2>4, <2>5, <2>6 DEF TypeOK
<1>2. TypeOK /\ [Next]_vars => TypeOK'
  <2> SUFFICES ASSUME TypeOK, [Next]_vars
               PROVE  TypeOK'
    OBVIOUS
  <2> USE DEF TypeOK, LoopPcs
  <2>1. CASE Loop
    BY <2>1 DEF Loop
  <2>2. CASE While
    BY <2>2 DEF While
  <2>3. CASE \E io \in SUBSET {"io"} : Poll(io)
    BY <2>3 DEF Poll
  <2>4. CASE HandleRead
    BY <2>4 DEF HandleRead
  <2>5. CASE HandleEvent
    BY <2>5 DEF HandleEvent
  <2>6. CASE EventHandled
    BY <2>6 DEF EventHandled, loopVars
  <2>7. CASE DoPendingFunctors
    BY <2>7 DEF DoPendingFunctors
  <2>8. CASE CallFunctor
    <3>1. Head(functors) \in Functors /\ Tail(functors) \in Seq(Functors)
      BY <2>8 DEF CallFunctor
    <3> QED BY <2>8, <3>1 DEF CallFunctor
  <2>9. CASE FunctorReturns
    BY <2>9 DEF FunctorReturns, loopVars
  <2>10. CASE EndPendingFunctors
    BY <2>10 DEF EndPendingFunctors
  <2>11. CASE \E f \in Functors : LoopQueneInLoop(f)
    BY <2>11 DEF LoopQueneInLoop, loopVars
  <2>12. CASE \E f \in Functors : LoopRunInLoop(f)
    BY <2>12 DEF LoopRunInLoop, loopVars
  <2>13. CASE LoopQuit
    BY <2>13 DEF LoopQuit, loopVars
  <2>14. CASE \E t \in Threads, f \in Functors : QueneInLoop(t, f)
    BY <2>14 DEF QueneInLoop, loopVars
  <2>15. CASE \E t \in Threads : Quit(t)
    BY <2>15 DEF Quit, loopVars
  <2>16. CASE \E t \in Threads : Wakeup(t)
    BY <2>16 DEF Wakeup, loopVars
  <2>17. CASE UNCHANGED vars
    BY <2>17 DEF vars
  <2> QED
    BY <2>1, <2>2, <2>3, <2>4, <2>5, <2>6, <2>7, <2>8, <2>9, <2>10, <2>11, <2>12,
       <2>13, <2>14, <2>15, <2>16, <2>17
       DEF Next, LoopStep, UserStep, ThreadStep
<1> QED BY <1>1, <1>2, PTL DEF Spec
-----------------------------------------------------------------------------
(* A step that neither queues a functor nor reads the eventfd keeps the    *)
(* wakeups that are coming.                                                *)
LEMMA WakeupStays ==
    ASSUME TypeOK, WakeupComing, UNCHANGED <<wakeupFd_, pc>>
    PROVE  WakeupComing'
BY DEF WakeupComing

(* PendingHasWakeup is inductive: every step that adds a functor brings a  *)
(* wakeup with it, except in the part of an iteration that swaps the queue *)
(* before the next poll; the swap empties the queue; and the eventfd is    *)
(* read only in that part.                                                 *)
LEMMA PendingHasWakeupStep ==
    ASSUME TypeOK, TypeOK', PendingHasWakeup, [Next]_vars
    PROVE  PendingHasWakeup'
<1> USE DEF PendingHasWakeup
<1>1. CASE Loop
  BY <1>1, WakeupStays DEF Loop
<1>2. CASE While
  BY <1>2, WakeupStays DEF While
<1>3. CASE \E io \in SUBSET {"io"} : Poll(io)
  BY <1>3 DEF Poll
<1>4. CASE HandleRead
  BY <1>4 DEF HandleRead
<1>5. CASE HandleEvent
  BY <1>5 DEF HandleEvent
<1>6. CASE EventHandled
  BY <1>6 DEF EventHandled
<1>7. CASE DoPendingFunctors
  BY <1>7 DEF DoPendingFunctors, Elements
<1>8. CASE CallFunctor
  BY <1>8, WakeupStays DEF CallFunctor
<1>9. CASE FunctorReturns
  BY <1>9, WakeupStays DEF FunctorReturns
<1>10. CASE EndPendingFunctors
  BY <1>10, WakeupStays DEF EndPendingFunctors
<1>11. ASSUME NEW f \in Functors, LoopQueneInLoop(f)
       PROVE  PendingHasWakeup'
  <2>1. Elements(pendingFunctors_)' = Elements(pendingFunctors_) \cup {f}
    BY <1>11, AppendElements DEF LoopQueneInLoop, TypeOK
  <2>2. CASE loopPc = "out"
    <3>1. early' = early \cup {f} /\ wakeupFd_' = wakeupFd_ /\ pc' = pc
      BY <1>11, <2>2 DEF LoopQueneInLoop, TypeOK
    <3> QED BY <1>11, <2>1, <2>2, <3>1, WakeupStays DEF LoopQueneInLoop
  <2>3. CASE loopPc = "io"
    BY <1>11, <2>3 DEF LoopQueneInLoop
  <2>4. CASE loopPc = "body"
    <3>1. wakeupFd_' = 1
      BY <1>11, <2>4 DEF LoopQueneInLoop, TypeOK
    <3> QED BY <3>1 DEF WakeupComing
  <2> QED BY <1>11, <2>2, <2>3, <2>4 DEF LoopQueneInLoop, InUserCode
<1>12. CASE \E f \in Functors : LoopRunInLoop(f)
  BY <1>12, WakeupStays DEF LoopRunInLoop
<1>13. CASE LoopQuit
  BY <1>13, WakeupStays DEF LoopQuit
<1>14. ASSUME NEW t \in Threads, NEW f \in Functors, QueneInLoop(t, f)
       PROVE  PendingHasWakeup'
  BY <1>14 DEF QueneInLoop, WakeupComing, TypeOK
<1>15. ASSUME NEW t \in Threads, Quit(t)
       PROVE  PendingHasWakeup'
  BY <1>15 DEF Quit, WakeupComing, TypeOK
<1>16. ASSUME NEW t \in Threads, Wakeup(t)
       PROVE  PendingHasWakeup'
  BY <1>16 DEF Wakeup, WakeupComing
<1>17. CASE UNCHANGED vars
  BY <1>17, WakeupStays DEF vars
<1> QED
  BY <1>1, <1>2, <1>3, <1>4, <1>5, <1>6, <1>7, <1>8, <1>9, <1>10, <1>11, <1>12,
     <1>13, <1>14, <1>15, <1>16, <1>17
     DEF Next, LoopStep, UserStep, ThreadStep

(* queneInLoop never loses a wakeup: with any number of threads queueing   *)
(* functors and quitting in any order, the loop thread does not block in   *)
(* poll over a functor that nobody will wake it for.                       *)
THEOREM WakeupNotLost == Spec => []NoLostWakeup
<1>1. Init => PendingHasWakeup
  BY DEF Init, PendingHasWakeup, Elements
<1>2. TypeOK /\ TypeOK' /\ PendingHasWakeup /\ [Next]_vars => PendingHasWakeup'
  BY PendingHasWakeupStep
<1>3. PendingHasWakeup => NoLostWakeup
  BY DEF PendingHasWakeup, NoLostWakeup
<1> QED BY <1>1, <1>2, <1>3, TypeCorrect, PTL DEF Spec
-----------------------------------------------------------------------------
(* quit() from another thread is never slept through by the poll that was  *)
(* about to begin when it came.                                            *)
THEOREM QuitNotSleptThrough == Spec => []QuitWakesPoll
<1>1. Init => QuitWakesPoll
  BY DEF Init, QuitWakesPoll
<1>2. TypeOK /\ QuitWakesPoll /\ [Next]_vars => QuitWakesPoll'
  <2> SUFFICES ASSUME TypeOK, QuitWakesPoll, [Next]_vars
               PROVE  QuitWakesPoll'
    OBVIOUS
  <2> USE DEF QuitWakesPoll
  <2>1. CASE Loop
    BY <2>1 DEF Loop
  <2>2. CASE While
    BY <2>2 DEF While
  <2>3. CASE \E io \in SUBSET {"io"} : Poll(io)
    BY <2>3 DEF Poll
  <2>4. CASE LoopStep /\ ~While
    BY <2>4 DEF LoopStep, HandleRead, HandleEvent, EventHandled, DoPendingFunctors,
                CallFunctor, FunctorReturns, EndPendingFunctors
  <2>5. CASE UserStep
    BY <2>5 DEF UserStep, LoopQuit, LoopQueneInLoop, LoopRunInLoop, InUserCode
  <2>6. ASSUME NEW t \in Threads, ThreadStep(t)
        PROVE  QuitWakesPoll'
    <3>1. CASE Quit(t)
      BY <3>1 DEF Quit, WakeupComing, TypeOK
    <3>2. CASE Wakeup(t)
      BY <3>2 DEF Wakeup, WakeupComing
    <3>3. CASE \E f \in Functors : QueneInLoop(t, f)
      BY <3>3 DEF QueneInLoop, WakeupComing, TypeOK
    <3> QED BY <2>6, <3>1, <3>2, <3>3 DEF ThreadStep
  <2>7. CASE UNCHANGED vars
    BY <2>7, WakeupStays DEF vars
  <2> QED BY <2>1, <2>2, <2>3, <2>4, <2>5, <2>6, <2>7 DEF Next
<1> QED BY <1>1, <1>2, TypeCorrect, PTL DEF Spec
-----------------------------------------------------------------------------
(* Taking the head of the first of two sequences takes the head of their   *)
(* concatenation.                                                          *)
LEMMA ConcatHeadTail ==
    ASSUME NEW S, NEW s \in Seq(S), NEW u \in Seq(S), s # <<>>
    PROVE  /\ s \o u # <<>>
           /\ Head(s \o u) = Head(s)
           /\ Tail(s \o u) = Tail(s) \o u
<1>1. Len(s) \in Nat /\ Len(s) > 0 /\ Len(u) \in Nat /\ s \o u \in Seq(S)
  OBVIOUS
<1>2. Len(s \o u) = Len(s) + Len(u)
  OBVIOUS
<1>3. Head(s \o u) = Head(s)
  BY <1>1, <1>2
<1>4. Tail(s) \in Seq(S) /\ Len(Tail(s)) = Len(s) - 1
  BY <1>1
<1>5. Tail(s \o u) \in Seq(S) /\ Len(Tail(s \o u)) = Len(s) + Len(u) - 1
  BY <1>1, <1>2
<1>6. Tail(s) \o u \in Seq(S) /\ Len(Tail(s) \o u) = Len(s) - 1 + Len(u)
  BY <1>1, <1>4
<1>7. \A i \in 1..(Len(s) + Len(u) - 1) : Tail(s \o u)[i] = (Tail(s) \o u)[i]
  BY <1>1, <1>2, <1>4
<1>8. Tail(s \o u) = Tail(s) \o u
  BY <1>1, <1>5, <1>6, <1>7
<1> QED BY <1>1, <1>2, <1>3, <1>8

(* Appending to the second of two sequences appends to their               *)
(* concatenation; an empty sequence adds nothing.                          *)
LEMMA ConcatAppend ==
    ASSUME NEW S, NEW s \in Seq(S), NEW u \in Seq(S), NEW e \in S
    PROVE  /\ s \o Append(u, e) = Append(s \o u, e)
           /\ <<>> \o u = u
           /\ u \o <<>> = u
<1>1. s \o Append(u, e) = Append(s \o u, e)
  OBVIOUS
<1>2. <<>> \o u = u /\ u \o <<>> = u
  OBVIOUS
<1> QED BY <1>1, <1>2

(* The loop implements TaskQueue: no functor is lost, run twice or run out *)
(* of order by queneInLoop, the swap and the calls of doPendingFunctors.   *)
THEOREM ImplementsTaskQueue == Spec => FifoExactlyOnce
<1> DEFINE queue == functors \o pendingFunctors_
<1>1. Init => TQ!Init
  <2> SUFFICES ASSUME Init PROVE TQ!Init
    OBVIOUS
  <2>1. functors \o pendingFunctors_ = <<>>
    BY DEF Init
  <2> QED BY <2>1 DEF Init, TQ!Init
<1>2. TypeOK /\ [Next]_vars => [TQ!Next]_(TQ!vars)
  <2> SUFFICES ASSUME TypeOK, [Next]_vars
               PROVE  [TQ!Next]_(TQ!vars)
    OBVIOUS
  <2>f. /\ functors \in Seq(Functors) /\ pendingFunctors_ \in Seq(Functors)
        /\ executed \in Seq(Functors)
    BY DEF TypeOK
  <2>fresh. ASSUME NEW f, Fresh(f)
            PROVE  f \notin TQ!Elements(queue) \cup TQ!Elements(executed)
    BY <2>f, <2>fresh, ConcatElements DEF Fresh, Elements, TQ!Elements
  <2>1. ASSUME NEW f \in Functors, Fresh(f), UNCHANGED <<functors, executed>>,
               pendingFunctors_' = Append(pendingFunctors_, f)
        PROVE  TQ!Submit(f)
    <3>1. queue' = Append(queue, f)
      BY <2>1, <2>f, ConcatAppend
    <3> QED BY <2>1, <2>fresh, <3>1 DEF TQ!Submit
  <2>2. ASSUME NEW f \in Functors, LoopRunInLoop(f)
        PROVE  TQ!ExecuteNow(f)
    BY <2>2, <2>fresh DEF LoopRunInLoop, loopVars, TQ!ExecuteNow
  <2>3. CASE CallFunctor
    <3>1. queue # <<>> /\ Head(queue) = Head(functors)
          /\ Tail(queue) = Tail(functors) \o pendingFunctors_
      BY <2>3, <2>f, ConcatHeadTail DEF CallFunctor
    <3>2. TQ!Execute
      BY <2>3, <3>1 DEF CallFunctor, TQ!Execute
    <3> QED BY <3>2 DEF TQ!Next
  <2>4. CASE DoPendingFunctors
    <3>1. functors = <<>> /\ functors' = pendingFunctors_ /\ pendingFunctors_' = <<>>
          /\ executed' = executed
      BY <2>4 DEF DoPendingFunctors, TypeOK
    <3>2. queue = pendingFunctors_
      BY <3>1, <2>f
    <3>3. queue' = pendingFunctors_
      BY <3>1, <2>f
    <3> QED BY <3>1, <3>2, <3>3 DEF TQ!vars
  <2>5. ASSUME UNCHANGED <<functors, pendingFunctors_, executed>>
        PROVE  UNCHANGED TQ!vars
    BY <2>5 DEF TQ!vars
  <2>6. CASE \E f \in Functors : LoopQueneInLoop(f)
    BY <2>6, <2>1 DEF LoopQueneInLoop, loopVars, TQ!Next
  <2>7. CASE \E t \in Threads, f \in Functors : QueneInLoop(t, f)
    BY <2>7, <2>1 DEF QueneInLoop, loopVars, TQ!Next
  <2>8. CASE \E f \in Functors : LoopRunInLoop(f)
    BY <2>8, <2>2 DEF TQ!Next
  <2>9. CASE \/ Loop \/ While \/ HandleRead \/ HandleEvent \/ EventHandled
             \/ FunctorReturns \/ EndPendingFunctors \/ LoopQuit
             \/ (\E io \in SUBSET {"io"} : Poll(io))
             \/ (\E t \in Threads : Quit(t) \/ Wakeup(t))
             \/ UNCHANGED vars
    <3>1. UNCHANGED <<functors, pendingFunctors_, executed>>
      BY <2>9 DEF Loop, While, HandleRead, HandleEvent, EventHandled, FunctorReturns,
                  EndPendingFunctors, LoopQuit, Poll, Quit, Wakeup, vars, loopVars
    <3> QED BY <3>1, <2>5
  <2> QED BY <2>3, <2>4, <2>6, <2>7, <2>8, <2>9
             DEF Next, LoopStep, UserStep, ThreadStep
<1> QED BY <1>1, <1>2, TypeCorrect, PTL DEF Spec, FifoExactlyOnce, TQ!Spec
=============================================================================
