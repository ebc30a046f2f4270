----------------------------- MODULE TimerQueue -----------------------------
(***************************************************************************)
(* net/TimerQueue.cpp with net/Timer.h and net/Timer.cpp: the timers of a  *)
(* loop, kept in two sets, and the timerfd that is to fire for the         *)
(* earliest of them.  Timers are added and cancelled by user code in the   *)
(* loop thread (other callbacks and functors, and the timer callbacks      *)
(* themselves) and by other threads, whose requests reach the loop as      *)
(* functors.                                                               *)
(*                                                                         *)
(* Time is counted in units of 100 microseconds, the shortest delay that   *)
(* resetTimerfd programs.  Wall clock and monotonic clock advance alike.   *)
(***************************************************************************)
EXTENDS Integers, FiniteSets

CONSTANTS Addr,       \* the addresses that new Timer may return
          MaxSeq,     \* bound on the number of timers ever created
          MaxTime,    \* bound on the clock
          Delays,     \* the delays timers are added with
          Intervals   \* their intervals, 0 for a timer that does not repeat

ASSUME BoundsAssumption == /\ MaxSeq \in Nat /\ MaxTime \in Nat
                           /\ Delays \subseteq Nat /\ Intervals \subseteq Nat

VARIABLES
    now,
    heap,                  \* heap[a]: the Timer at address a; sequence 0: none
    created,               \* s_numCreated_
    timers_,               \* {<<expiration, address>>}
    activeTimers_,         \* {<<address, sequence>>}
    cancelingTimers_,
    callingExpiredTimers,
    expired, toRun,        \* handleRead's batch, and what is left to run of it
    expiredAt,             \* handleRead's now
    timerfd_,              \* when the timerfd fires or fired; 0 when disarmed
    ready,                 \* poll found the timerfd readable
    adding,                \* timers whose addTimerInLoop is a queued functor
    ran, cancelled         \* history: sequences that ran; that cancelInLoop found

sets == <<timers_, activeTimers_>>
batch == <<cancelingTimers_, callingExpiredTimers, expired, toRun, expiredAt>>
vars == <<now, heap, created, sets, batch, timerfd_, ready, adding, ran, cancelled>>

None == [seq |-> 0, expiration |-> 0, interval |-> 0]
Timer == [seq : Nat, expiration : Nat, interval : Nat]

Later(s, t) == IF s < t THEN t ELSE s
ActiveTimer(a) == <<a, heap[a].seq>>
Entry(a) == <<heap[a].expiration, a>>
Earliest(S) == CHOOSE w \in {e[1] : e \in S} : \A e \in S : w <= e[1]

\* the time resetTimerfd programs for an expiration
FiringTime(when) == Later(when, now + 1)

\* User code runs in the loop thread: between handleRead calls, or in the
\* callback of a timer of the batch.
InUserCode == callingExpiredTimers => toRun # expired

Init == /\ now = 1
        /\ heap = [a \in Addr |-> None]
        /\ created = 0
        /\ timers_ = {} /\ activeTimers_ = {}
        /\ cancelingTimers_ = {} /\ callingExpiredTimers = FALSE
        /\ expired = {} /\ toRun = {} /\ expiredAt = 0
        /\ timerfd_ = 0 /\ ready = FALSE
        /\ adding = {}
        /\ ran = {} /\ cancelled = {}

Tick == /\ now < MaxTime
        /\ now' = now + 1
        /\ UNCHANGED <<heap, created, sets, batch, timerfd_, ready, adding, ran, cancelled>>
-----------------------------------------------------------------------------
(* addTimer. *)

\* new Timer(cb, when, interval)
NewTimer(a, delay, interval) ==
    /\ heap[a] = None /\ created < MaxSeq
    /\ created' = created + 1
    /\ heap' = [heap EXCEPT ![a] = [seq |-> created + 1, expiration |-> now + delay,
                                    interval |-> interval]]

MInsert(a) == /\ timers_' = timers_ \cup {Entry(a)'}
              /\ activeTimers_' = activeTimers_

\* insert: earliestChanged is set only for an empty queue.
Insert(a) == /\ timers_' = timers_ \cup {Entry(a)'}
             /\ activeTimers_' = activeTimers_ \cup {ActiveTimer(a)'}

MAddTimerInLoop(a) == /\ Insert(a)
                      /\ timerfd_' = timerfd_

AddTimerInLoop(a) == /\ Insert(a)
                     /\ timerfd_' = IF timers_ = {} THEN FiringTime(heap'[a].expiration)
                                                    ELSE timerfd_

\* in the loop thread runInLoop calls addTimerInLoop at once
AddTimer(a, delay, interval) == /\ InUserCode
                                /\ NewTimer(a, delay, interval)
                                /\ AddTimerInLoop(a)
                                /\ UNCHANGED <<now, batch, ready, adding, ran, cancelled>>

\* in another thread it queues it
AddTimerElsewhere(a, delay, interval) ==
    /\ NewTimer(a, delay, interval)
    /\ adding' = adding \cup {a}
    /\ UNCHANGED <<now, sets, batch, timerfd_, ready, ran, cancelled>>

RunQueuedAdd(a) == /\ ~callingExpiredTimers
                   /\ a \in adding
                   /\ adding' = adding \ {a}
                   /\ heap' = heap
                   /\ AddTimerInLoop(a)
                   /\ UNCHANGED <<now, created, batch, ready, ran, cancelled>>
-----------------------------------------------------------------------------
(* cancel.  In the loop thread the TimerId is one that addTimer returned,  *)
(* perhaps of a timer long gone.  From another thread cancelInLoop runs    *)
(* later on the address of EventLoop::cancel's parameter, which no longer  *)
(* exists: what it reads there may be any TimerId.                         *)

\* the timers of the batch that this TimerId names
InBatch(a, seq) == {e \in expired : ActiveTimer(e[2]) = <<a, seq>>}

MCancelInLoop(a, seq) ==
    /\ InUserCode
    /\ IF ActiveTimer(a) \in activeTimers_
       THEN /\ timers_' = timers_ \ {Entry(a)}
            /\ activeTimers_' = activeTimers_ \ {ActiveTimer(a)}
            /\ heap' = [heap EXCEPT ![a] = None]
            /\ cancelled' = cancelled \cup {seq}
            /\ UNCHANGED cancelingTimers_
       ELSE /\ cancelingTimers_' = IF callingExpiredTimers
                                   THEN cancelingTimers_ \cup {<<a, seq>>}
                                   ELSE cancelingTimers_
            /\ cancelled' = IF InBatch(a, seq) # {} THEN cancelled \cup {seq} ELSE cancelled
            /\ UNCHANGED <<sets, heap>>
    /\ UNCHANGED <<now, created, callingExpiredTimers, expired, toRun, expiredAt,
                   timerfd_, ready, adding, ran>>

CancelInLoop(a, seq) ==
    /\ InUserCode
    /\ IF <<a, seq>> \in activeTimers_
       THEN /\ timers_' = timers_ \ {Entry(a)}
            /\ activeTimers_' = activeTimers_ \ {<<a, seq>>}
            /\ heap' = [heap EXCEPT ![a] = None]
            /\ cancelled' = cancelled \cup {seq}
            /\ UNCHANGED cancelingTimers_
       ELSE /\ cancelingTimers_' = IF callingExpiredTimers
                                   THEN cancelingTimers_ \cup {<<a, seq>>}
                                   ELSE cancelingTimers_
            /\ cancelled' = IF InBatch(a, seq) # {} THEN cancelled \cup {seq} ELSE cancelled
            /\ UNCHANGED <<sets, heap>>
    /\ UNCHANGED <<now, created, callingExpiredTimers, expired, toRun, expiredAt,
                   timerfd_, ready, adding, ran>>
-----------------------------------------------------------------------------
(* The timerfd fires. *)

\* poll returns with the timerfd channel active
Poll == /\ ~callingExpiredTimers /\ ~ready
        /\ timerfd_ # 0 /\ timerfd_ <= now
        /\ ready' = TRUE
        /\ UNCHANGED <<now, heap, created, sets, batch, timerfd_, adding, ran, cancelled>>

\* handleRead up to the callbacks: readTimerfd (which fails if a callback
\* before it in this iteration has armed the timerfd again), getExpired.
HandleRead == /\ ready /\ ~callingExpiredTimers
              /\ ready' = FALSE
              /\ timerfd_' = IF timerfd_ <= now THEN 0 ELSE timerfd_
              /\ expired' = {e \in timers_ : e[1] <= now}
              /\ toRun' = expired'
              /\ expiredAt' = now
              /\ timers_' = timers_ \ expired'
              /\ activeTimers_' = activeTimers_ \ {ActiveTimer(e[2]) : e \in expired'}
              /\ callingExpiredTimers' = TRUE
              /\ cancelingTimers_' = {}
              /\ UNCHANGED <<now, heap, created, adding, ran, cancelled>>

\* it.second->run(), in the order of the set
RunTimer(e) == /\ callingExpiredTimers
               /\ e \in toRun /\ e[1] = Earliest(toRun)
               /\ toRun' = toRun \ {e}
               /\ ran' = ran \cup {heap[e[2]].seq}
               /\ UNCHANGED <<now, heap, created, sets, cancelingTimers_,
                              callingExpiredTimers, expired, expiredAt, timerfd_, ready,
                              adding, cancelled>>

\* the timers of the batch that are restarted
MRestarted == {e[2] : e \in {x \in expired : heap[x[2]].interval > 0}}
Restarted == {e[2] : e \in {x \in expired : /\ heap[x[2]].interval > 0
                                            /\ ActiveTimer(x[2]) \notin cancelingTimers_}}

MReset ==
    /\ callingExpiredTimers /\ toRun = {}
    /\ heap' = [a \in Addr |->
                  IF a \in Restarted THEN [heap[a] EXCEPT !.expiration = expiredAt + heap[a].interval]
                  ELSE heap[a]]
    /\ timers_' = timers_ \cup {Entry(a)' : a \in Restarted}
    /\ activeTimers_' = activeTimers_ \cup {ActiveTimer(a) : a \in Restarted}
    /\ timerfd_' = IF expired = {} \/ timers_' = {} THEN timerfd_
                   ELSE FiringTime(Earliest(timers_'))
    /\ callingExpiredTimers' = FALSE
    /\ expired' = {}
    /\ UNCHANGED <<now, created, cancelingTimers_, toRun, expiredAt, ready, adding,
                   ran, cancelled>>

\* reset: a timer that repeats and was not cancelled meanwhile is restarted
\* from handleRead's now and inserted, any other is deleted; inside the loop
\* over the batch the timerfd is armed for the earliest timer.
Reset ==
    /\ callingExpiredTimers /\ toRun = {}
    /\ heap' = [a \in Addr |->
                  IF a \in Restarted THEN [heap[a] EXCEPT !.expiration = expiredAt + heap[a].interval]
                  ELSE IF a \in {e[2] : e \in expired} THEN None
                  ELSE heap[a]]
    /\ timers_' = timers_ \cup {Entry(a)' : a \in Restarted}
    /\ activeTimers_' = activeTimers_ \cup {ActiveTimer(a) : a \in Restarted}
    /\ timerfd_' = IF expired = {} \/ timers_' = {} THEN timerfd_
                   ELSE FiringTime(Earliest(timers_'))
    /\ callingExpiredTimers' = FALSE
    /\ expired' = {}
    /\ UNCHANGED <<now, created, cancelingTimers_, toRun, expiredAt, ready, adding,
                   ran, cancelled>>
-----------------------------------------------------------------------------
Next == \/ Tick \/ Poll \/ HandleRead \/ Reset
        \/ \E e \in toRun : RunTimer(e)
        \/ \E a \in Addr :
             \/ RunQueuedAdd(a)
             \/ \E delay \in Delays, interval \in Intervals :
                  AddTimer(a, delay, interval) \/ AddTimerElsewhere(a, delay, interval)
             \/ \E seq \in 1..MaxSeq : CancelInLoop(a, seq)

Spec == Init /\ [][Next]_vars
-----------------------------------------------------------------------------
TypeOK == /\ now \in Nat
          /\ heap \in [Addr -> Timer]
          /\ created \in Nat
          /\ timers_ \subseteq Nat \X Addr
          /\ activeTimers_ \subseteq Addr \X Nat
          /\ cancelingTimers_ \subseteq Addr \X Nat
          /\ callingExpiredTimers \in BOOLEAN
          /\ expired \subseteq Nat \X Addr
          /\ toRun \subseteq expired
          /\ ~callingExpiredTimers => expired = {}
          /\ expiredAt \in Nat
          /\ timerfd_ \in Nat
          /\ ready \in BOOLEAN
          /\ adding \subseteq Addr
          /\ ran \subseteq Nat
          /\ cancelled \subseteq Nat

(* The two sets hold the same timers, filed under the expiration and the   *)
(* sequence these timers have: what every assert on the sizes of the sets, *)
(* on the results of erase and on those of insert relies on.               *)
SetsAgree == /\ \A e \in timers_ : e = Entry(e[2])
             /\ activeTimers_ = {ActiveTimer(e[2]) : e \in timers_}

(* Every Timer that is not deleted is owned exactly once: it waits in the  *)
(* sets, or belongs to the batch handleRead is running, or is on its way   *)
(* to the loop from another thread; and none of the three holds a deleted  *)
(* Timer, whatever the callbacks of the batch add and cancel.              *)
OwnedOnce ==
    LET waiting == {e[2] : e \in timers_}
        running == {e[2] : e \in expired}
    IN /\ {a \in Addr : heap[a].seq # 0} = waiting \cup running \cup adding
       /\ waiting \cap running = {} /\ waiting \cap adding = {} /\ running \cap adding = {}

(* A timer that cancelInLoop found, waiting or in the running batch, is    *)
(* never put back: not by reset, and not when its address is used again.   *)
CancelledStaysOut == \A id \in activeTimers_ : id[2] \notin cancelled

(* A Timer is deleted only when it is done: it was cancelled under its own *)
(* TimerId, or it has run and does not repeat.  A stale TimerId whose      *)
(* address now holds another timer deletes nothing.                        *)
DeletedWhenDone ==
    [][\A a \in Addr : heap[a].seq # 0 /\ heap'[a] = None =>
          \/ heap[a].seq \in cancelled'
          \/ heap[a].seq \in ran /\ heap[a].interval = 0]_vars

(* While no timer was ever cancelled the queue cannot stall: whenever a    *)
(* timer waits outside handleRead, the timerfd is armed or has fired, and  *)
(* when it fires some timer is due, so that reset arms it again.           *)
NoStallWithoutCancel ==
    cancelled = {} /\ ~callingExpiredTimers /\ timers_ # {}
        => timerfd_ # 0 /\ \E e \in timers_ : e[1] <= timerfd_

(* The timerfd fires no later than the earliest timer is due, or a step    *)
(* after it was armed.                                                     *)
ArmedForEarliest ==
    ~callingExpiredTimers /\ timers_ # {}
        => timerfd_ # 0 /\ timerfd_ <= Later(Earliest(timers_), now + 1)
=============================================================================
