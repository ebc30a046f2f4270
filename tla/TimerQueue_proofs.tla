-------------------------- MODULE TimerQueue_proofs --------------------------
(***************************************************************************)
(* Proofs about TimerQueue, for any addresses, delays, intervals and       *)
(* bounds: the two sets agree, every timer is owned once, a cancelled      *)
(* timer stays out and only a timer that is done is deleted, and without   *)
(* cancel the timerfd never misses a waiting timer.                        *)
(***************************************************************************)
EXTENDS TimerQueue, WellFoundedInduction, TLAPS

\* The addresses of the timers that wait in the sets, and of the batch.
Waiting == {e[2] : e \in timers_}
Batch == {e[2] : e \in expired}

\* Both sets, and the batch, file a timer under what its heap cell says.
Filed == /\ timers_ = {Entry(a) : a \in Waiting}
         /\ activeTimers_ = {ActiveTimer(a) : a \in Waiting}
         /\ expired = {Entry(a) : a \in Batch}

Owned == /\ \A a \in Addr : heap[a].seq # 0 <=> a \in Waiting \cup Batch \cup adding
         /\ \A a \in Addr : /\ ~(a \in Waiting /\ a \in Batch)
                            /\ ~(a \in Waiting /\ a \in adding)
                            /\ ~(a \in Batch /\ a \in adding)

\* No two timers have the same sequence, and the next one is new.
SeqsUnique == /\ \A a \in Addr : heap[a].seq <= created
              /\ \A a, b \in Addr : heap[a].seq # 0 /\ heap[a].seq = heap[b].seq => a = b

\* A timer of the batch is noted in cancelingTimers_ if it was cancelled and
\* only then; no other timer that exists was.
Cancelled == /\ \A s \in cancelled : s <= created
             /\ \A a \in Waiting \cup adding : heap[a].seq \notin cancelled
             /\ \A a \in Batch : heap[a].seq \in cancelled <=> ActiveTimer(a) \in cancelingTimers_

\* What is no longer to run has run.
RanSoFar == \A a \in Batch : Entry(a) \in toRun \/ heap[a].seq \in ran

Inv == TypeOK /\ Filed /\ Owned /\ SeqsUnique /\ Cancelled /\ RanSoFar

\* Without cancel: the timerfd is armed when a timer waits and only then; when
\* poll has found it, a timer is due; and so no batch is empty.
Armed ==
    /\ callingExpiredTimers => ~ready
    /\ cancelled = {} =>
         /\ timers_ = {} => timerfd_ = 0
         /\ callingExpiredTimers => expired # {}
         /\ ready => timerfd_ <= now /\ timers_ # {}
         /\ ~callingExpiredTimers /\ timers_ # {}
              => timerfd_ # 0 /\ \E e \in timers_ : e[1] <= timerfd_
-----------------------------------------------------------------------------
(* A set of entries that is not empty has an earliest one. *)
LEMMA EarliestIs ==
    ASSUME NEW S, S \subseteq Nat \X Addr, S # {}
    PROVE  /\ Earliest(S) \in Nat
           /\ \E e \in S : e[1] = Earliest(S)
           /\ \A e \in S : Earliest(S) <= e[1]
<1> DEFINE T == {e[1] : e \in S}
           R == {ss \in Nat \X Nat : ss[1] < ss[2]}
<1>1. T \subseteq Nat /\ T # {}
  OBVIOUS
<1>2. IsWellFoundedOn(R, Nat)
  BY NatLessThanWellFounded DEF OpToRel
<1>3. \A m, n \in Nat : m < n => <<m, n>> \in R
  OBVIOUS
<1> HIDE DEF T, R
<1>4. PICK w \in T : \A y \in T : ~(<<y, w>> \in R)
  BY <1>1, <1>2, WFMin
<1>5. ASSUME NEW y \in T PROVE w <= y
  <2>1. w \in Nat /\ y \in Nat
    BY <1>1
  <2>2. ~(y < w)
    BY <1>3, <1>4, <2>1, Zenon
  <2> QED BY <2>1, <2>2
<1>6. \A e \in S : w <= e[1]
  BY <1>5 DEF T
<1>7. Earliest(S) = CHOOSE v \in T : \A e \in S : v <= e[1]
  BY DEF Earliest, T
<1>8. Earliest(S) \in T /\ \A e \in S : Earliest(S) <= e[1]
  BY <1>4, <1>6, <1>7
<1> QED BY <1>1, <1>8 DEF T

(* The addresses in the sets are addresses, and a filed timer is where its *)
(* cell says.                                                              *)
LEMMA FiledIs ==
    ASSUME TypeOK, Filed
    PROVE  /\ Waiting \subseteq Addr /\ Batch \subseteq Addr
           /\ \A a \in Waiting : Entry(a) \in timers_ /\ ActiveTimer(a) \in activeTimers_
           /\ \A a \in Batch : Entry(a) \in expired
           /\ \A a \in Addr, s \in Nat :
                <<a, s>> \in activeTimers_ => a \in Waiting /\ s = heap[a].seq
           /\ \A a \in Addr : heap[a].seq \in Nat /\ heap[a].expiration \in Nat
                              /\ heap[a].interval \in Nat
<1>1. Waiting \subseteq Addr /\ Batch \subseteq Addr
  BY DEF TypeOK, Waiting, Batch
<1>2. \A a \in Waiting : Entry(a) \in timers_ /\ ActiveTimer(a) \in activeTimers_
  BY DEF Filed
<1>3. \A a \in Batch : Entry(a) \in expired
  BY DEF Filed
<1>4. ASSUME NEW a \in Addr, NEW s \in Nat, <<a, s>> \in activeTimers_
      PROVE  a \in Waiting /\ s = heap[a].seq
  BY <1>4 DEF Filed, ActiveTimer
<1>5. \A a \in Addr : heap[a].seq \in Nat /\ heap[a].expiration \in Nat
                      /\ heap[a].interval \in Nat
  BY DEF TypeOK, Timer
<1> QED BY <1>1, <1>2, <1>3, <1>4, <1>5

(* new Timer takes a free cell and a new sequence, and disturbs no other   *)
(* timer.                                                                  *)
LEMMA NewTimerIs ==
    ASSUME Inv, NEW a \in Addr, NEW delay \in Nat, NEW interval \in Nat,
           NewTimer(a, delay, interval)
    PROVE  /\ heap' \in [Addr -> Timer] /\ created' \in Nat
           /\ heap'[a].seq = created + 1 /\ heap'[a].seq # 0
           /\ \A b \in Addr : b # a => heap'[b] = heap[b]
           /\ a \notin Waiting /\ a \notin Batch /\ a \notin adding
           /\ heap'[a].seq \notin cancelled
           /\ SeqsUnique'
           /\ \A s \in cancelled : s <= created'
<1>0. /\ heap \in [Addr -> Timer] /\ created \in Nat /\ now \in Nat
      /\ cancelled \subseteq Nat
  BY DEF Inv, TypeOK
<1>1. heap' = [heap EXCEPT ![a] = [seq |-> created + 1, expiration |-> now + delay,
                                   interval |-> interval]]
  BY DEF NewTimer
<1>2. heap' \in [Addr -> Timer] /\ heap'[a].seq = created + 1
  BY <1>0, <1>1 DEF Timer
<1>3. \A b \in Addr : b # a => heap'[b] = heap[b]
  BY <1>0, <1>1
<1>4. heap[a].seq = 0
  BY DEF NewTimer, None
<1>5. a \notin Waiting /\ a \notin Batch /\ a \notin adding
  BY <1>4 DEF Inv, Owned
<1>6. created' = created + 1
  BY DEF NewTimer
<1>7. /\ \A s \in cancelled : s \in Nat /\ s <= created
      /\ \A b \in Addr : heap[b].seq \in Nat /\ heap[b].seq <= created
  BY <1>0 DEF Inv, Cancelled, SeqsUnique, Timer
<1>8. SeqsUnique'
  <2>1. \A b \in Addr : heap'[b].seq <= created'
    BY <1>0, <1>2, <1>3, <1>6, <1>7
  <2>2. ASSUME NEW b \in Addr, NEW c \in Addr, heap'[b].seq # 0, heap'[b].seq = heap'[c].seq
        PROVE  b = c
    <3>1. CASE b # a /\ c # a
      BY <1>3, <2>2, <3>1 DEF Inv, SeqsUnique
    <3>2. CASE b = a /\ c # a
      BY <1>0, <1>2, <1>3, <1>7, <2>2, <3>2
    <3>3. CASE b # a /\ c = a
      BY <1>0, <1>2, <1>3, <1>7, <2>2, <3>3
    <3> QED BY <3>1, <3>2, <3>3
  <2> QED BY <2>1, <2>2 DEF SeqsUnique
<1> QED BY <1>0, <1>2, <1>3, <1>5, <1>6, <1>7, <1>8

(* insert adds the timer to those that wait. *)
LEMMA InsertIs ==
    ASSUME TypeOK, Filed, NEW a \in Addr, heap' \in [Addr -> Timer],
           \A b \in Waiting : heap'[b] = heap[b],
           Insert(a)
    PROVE  /\ Waiting' = Waiting \cup {a}
           /\ timers_' = {Entry(b)' : b \in Waiting'}
           /\ activeTimers_' = {ActiveTimer(b)' : b \in Waiting'}
           /\ timers_' \subseteq Nat \X Addr
           /\ activeTimers_' \subseteq Addr \X Nat
           /\ timers_' # {}
<1>1. /\ \A b \in Waiting : Entry(b)' = Entry(b)
      /\ \A b \in Waiting : ActiveTimer(b)' = ActiveTimer(b)
  BY DEF Entry, ActiveTimer
<1>2. timers_' = {Entry(b)' : b \in Waiting \cup {a}}
  BY <1>1 DEF Insert, Filed
<1>3. activeTimers_' = {ActiveTimer(b)' : b \in Waiting \cup {a}}
  BY <1>1 DEF Insert, Filed
<1>4. Waiting' = Waiting \cup {a}
  <2> DEFINE W == Waiting \cup {a}
  <2>1. \A b \in W : Entry(b)'[2] = b
    BY DEF Entry
  <2>2. Waiting' = {e[2] : e \in timers_'}
    BY DEF Waiting
  <2> HIDE DEF W
  <2>3. timers_' = {Entry(b)' : b \in W}
    BY <1>2 DEF W
  <2>4. Waiting' = W
    BY <2>1, <2>2, <2>3
  <2> QED BY <2>4 DEF W
<1>5. Waiting \cup {a} \subseteq Addr
  BY FiledIs
<1>6. \A b \in Addr : heap'[b].expiration \in Nat /\ heap'[b].seq \in Nat
  BY DEF Timer
<1>7. timers_' \subseteq Nat \X Addr /\ activeTimers_' \subseteq Addr \X Nat
  BY <1>2, <1>3, <1>5, <1>6 DEF Entry, ActiveTimer
<1> QED BY <1>2, <1>3, <1>4, <1>7
-----------------------------------------------------------------------------
(* A new queue has no timers. *)
LEMMA InvInit == Init => Inv
<1> SUFFICES ASSUME Init PROVE Inv
  OBVIOUS
<1>1. TypeOK
  <2>1. heap \in [Addr -> Timer]
    BY DEF Init, None, Timer
  <2>2. callingExpiredTimers \in BOOLEAN /\ ready \in BOOLEAN
    BY DEF Init
  <2>3. expired = {} /\ toRun = {}
    BY DEF Init
  <2> QED BY <2>1, <2>2, <2>3 DEF Init, TypeOK
<1>2. Waiting = {} /\ Batch = {}
  BY DEF Init, Waiting, Batch
<1>3. Filed
  BY <1>2 DEF Init, Filed
<1>4. \A a \in Addr : heap[a].seq = 0
  BY DEF Init, None
<1>5. Owned /\ SeqsUnique
  BY <1>2, <1>4 DEF Init, Owned, SeqsUnique
<1>6. Cancelled /\ RanSoFar
  BY <1>2 DEF Init, Cancelled, RanSoFar
<1> QED BY <1>1, <1>3, <1>5, <1>6 DEF Inv

(* addTimer in the loop thread. *)
LEMMA AddTimerKeeps ==
    ASSUME Inv, NEW a \in Addr, NEW delay \in Nat, NEW interval \in Nat,
           AddTimer(a, delay, interval)
    PROVE  Inv'
<1>0. /\ NewTimer(a, delay, interval) /\ Insert(a)
      /\ UNCHANGED <<now, batch, ready, adding, ran, cancelled>>
      /\ timerfd_' = IF timers_ = {} THEN FiringTime(heap'[a].expiration) ELSE timerfd_
  BY DEF AddTimer, AddTimerInLoop
<1>1. /\ heap' \in [Addr -> Timer] /\ created' \in Nat
      /\ heap'[a].seq = created + 1 /\ heap'[a].seq # 0
      /\ \A b \in Addr : b # a => heap'[b] = heap[b]
      /\ a \notin Waiting /\ a \notin Batch /\ a \notin adding
      /\ heap'[a].seq \notin cancelled
      /\ SeqsUnique'
      /\ \A s \in cancelled : s <= created'
  BY <1>0, NewTimerIs
<1>2. /\ Waiting \subseteq Addr /\ Batch \subseteq Addr
  BY FiledIs DEF Inv
<1>3. /\ Waiting' = Waiting \cup {a}
      /\ timers_' = {Entry(b)' : b \in Waiting'}
      /\ activeTimers_' = {ActiveTimer(b)' : b \in Waiting'}
      /\ timers_' \subseteq Nat \X Addr
      /\ activeTimers_' \subseteq Addr \X Nat
  BY <1>0, <1>1, <1>2, InsertIs DEF Inv
<1>4. Batch' = Batch
  BY <1>0 DEF Batch, batch
<1>5. \A b \in Batch : Entry(b)' = Entry(b) /\ ActiveTimer(b)' = ActiveTimer(b)
  BY <1>1, <1>2 DEF Entry, ActiveTimer
<1>6. TypeOK'
  <2>1. timerfd_' \in Nat
    BY <1>0, <1>1 DEF Inv, TypeOK, FiringTime, Later, Timer
  <2> QED BY <1>0, <1>1, <1>3, <2>1 DEF Inv, TypeOK, batch
<1>7. Filed'
  <2>1. expired' = {Entry(b)' : b \in Batch'}
    BY <1>0, <1>4, <1>5 DEF batch, Inv, Filed
  <2> QED BY <1>3, <2>1 DEF Filed
<1>8. Owned'
  BY <1>0, <1>1, <1>3, <1>4 DEF Inv, Owned
<1>9. Cancelled'
  <2>1. \A b \in Waiting' \cup adding' : heap'[b].seq \notin cancelled'
    <3>1. adding \subseteq Addr
      BY DEF Inv, TypeOK
    <3> QED BY <1>0, <1>1, <1>2, <1>3, <3>1 DEF Inv, Cancelled
  <2>2. \A b \in Batch' : heap'[b].seq \in cancelled' <=> ActiveTimer(b)' \in cancelingTimers_'
    BY <1>0, <1>1, <1>2, <1>4, <1>5 DEF Inv, Cancelled, batch
  <2> QED BY <1>0, <1>1, <2>1, <2>2 DEF Cancelled
<1>10. RanSoFar'
  BY <1>0, <1>1, <1>2, <1>4, <1>5 DEF Inv, RanSoFar, batch
<1> QED BY <1>1, <1>6, <1>7, <1>8, <1>9, <1>10 DEF Inv

(* addTimer in another thread, which queues addTimerInLoop. *)
LEMMA AddElsewhereKeeps ==
    ASSUME Inv, NEW a \in Addr, NEW delay \in Nat, NEW interval \in Nat,
           AddTimerElsewhere(a, delay, interval)
    PROVE  Inv'
<1>0. /\ NewTimer(a, delay, interval) /\ adding' = adding \cup {a}
      /\ UNCHANGED <<now, sets, batch, timerfd_, ready, ran, cancelled>>
  BY DEF AddTimerElsewhere
<1>1. /\ heap' \in [Addr -> Timer] /\ created' \in Nat
      /\ heap'[a].seq = created + 1 /\ heap'[a].seq # 0
      /\ \A b \in Addr : b # a => heap'[b] = heap[b]
      /\ a \notin Waiting /\ a \notin Batch /\ a \notin adding
      /\ heap'[a].seq \notin cancelled
      /\ SeqsUnique'
      /\ \A s \in cancelled : s <= created'
  BY <1>0, NewTimerIs
<1>2. /\ Waiting \subseteq Addr /\ Batch \subseteq Addr
  BY FiledIs DEF Inv
<1>3. Waiting' = Waiting /\ Batch' = Batch
  BY <1>0 DEF Waiting, Batch, sets, batch
<1>4. \A b \in Waiting \cup Batch : Entry(b)' = Entry(b) /\ ActiveTimer(b)' = ActiveTimer(b)
  BY <1>1, <1>2 DEF Entry, ActiveTimer
<1>5. TypeOK'
  BY <1>0, <1>1 DEF Inv, TypeOK, sets, batch
<1>6. Filed'
  BY <1>0, <1>3, <1>4 DEF Inv, Filed, sets, batch
<1>7. Owned'
  BY <1>0, <1>1, <1>3 DEF Inv, Owned
<1>8. Cancelled'
  <2>1. \A b \in Waiting' \cup adding' : heap'[b].seq \notin cancelled'
    <3>1. adding \subseteq Addr
      BY DEF Inv, TypeOK
    <3> QED BY <1>0, <1>1, <1>2, <1>3, <3>1 DEF Inv, Cancelled
  <2>2. \A b \in Batch' : heap'[b].seq \in cancelled' <=> ActiveTimer(b)' \in cancelingTimers_'
    BY <1>0, <1>1, <1>2, <1>3, <1>4 DEF Inv, Cancelled, batch
  <2> QED BY <1>0, <1>1, <2>1, <2>2 DEF Cancelled
<1>9. RanSoFar'
  BY <1>0, <1>1, <1>2, <1>3, <1>4 DEF Inv, RanSoFar, batch
<1> QED BY <1>1, <1>5, <1>6, <1>7, <1>8, <1>9 DEF Inv

(* The queued addTimerInLoop. *)
LEMMA RunQueuedAddKeeps ==
    ASSUME Inv, NEW a \in Addr, RunQueuedAdd(a)
    PROVE  Inv'
<1>0. /\ ~callingExpiredTimers /\ a \in adding /\ adding' = adding \ {a} /\ heap' = heap
      /\ Insert(a)
      /\ UNCHANGED <<now, created, batch, ready, ran, cancelled>>
      /\ timerfd_' = IF timers_ = {} THEN FiringTime(heap'[a].expiration) ELSE timerfd_
  BY DEF RunQueuedAdd, AddTimerInLoop
<1>1. heap' \in [Addr -> Timer]
  BY <1>0 DEF Inv, TypeOK
<1>2. expired = {} /\ Batch = {} /\ Batch' = {} /\ expired' = {}
  BY <1>0 DEF Inv, TypeOK, Batch, batch
<1>3. /\ Waiting' = Waiting \cup {a}
      /\ timers_' = {Entry(b)' : b \in Waiting'}
      /\ activeTimers_' = {ActiveTimer(b)' : b \in Waiting'}
      /\ timers_' \subseteq Nat \X Addr
      /\ activeTimers_' \subseteq Addr \X Nat
  BY <1>0, <1>1, InsertIs DEF Inv
<1>4. TypeOK'
  <2>1. timerfd_' \in Nat
    BY <1>0, <1>1 DEF Inv, TypeOK, FiringTime, Later, Timer
  <2> QED BY <1>0, <1>1, <1>3, <2>1 DEF Inv, TypeOK, batch
<1>5. Filed'
  BY <1>2, <1>3 DEF Filed
<1>6. Owned'
  BY <1>0, <1>2, <1>3 DEF Inv, Owned
<1>7. SeqsUnique' /\ Cancelled' /\ RanSoFar'
  BY <1>0, <1>2, <1>3 DEF Inv, SeqsUnique, Cancelled, RanSoFar
<1> QED BY <1>4, <1>5, <1>6, <1>7 DEF Inv

(* cancelInLoop of a timer that waits: exactly the timer that the TimerId  *)
(* names leaves the sets and is deleted.                                   *)
LEMMA CancelWaitingKeeps ==
    ASSUME Inv, NEW a \in Addr, NEW seq \in 1..MaxSeq, CancelInLoop(a, seq),
           <<a, seq>> \in activeTimers_
    PROVE  Inv'
<1>0. /\ timers_' = timers_ \ {Entry(a)}
      /\ activeTimers_' = activeTimers_ \ {<<a, seq>>}
      /\ heap' = [heap EXCEPT ![a] = None]
      /\ cancelled' = cancelled \cup {seq}
      /\ UNCHANGED <<now, created, batch, timerfd_, ready, adding, ran>>
  BY DEF CancelInLoop, batch
<1>1. /\ Waiting \subseteq Addr /\ Batch \subseteq Addr
      /\ a \in Waiting /\ seq = heap[a].seq /\ seq \in Nat /\ seq # 0
      /\ adding \subseteq Addr
  <2>1. seq \in Nat /\ seq # 0
    BY BoundsAssumption
  <2> QED BY <2>1, FiledIs DEF Inv, TypeOK
<1>2. a \notin Batch /\ a \notin adding
  BY <1>1 DEF Inv, Owned
<1>3. /\ heap' \in [Addr -> Timer] /\ heap'[a].seq = 0
      /\ \A b \in Addr : b # a => heap'[b] = heap[b]
  BY <1>0 DEF Inv, TypeOK, None, Timer
<1>4. Batch' = Batch
  BY <1>0 DEF Batch, batch
<1>5. \A b \in Addr : b # a => Entry(b)' = Entry(b) /\ ActiveTimer(b)' = ActiveTimer(b)
  BY <1>3 DEF Entry, ActiveTimer
<1>6. \A b, c \in Addr : Entry(b) = Entry(c) \/ ActiveTimer(b) = ActiveTimer(c) => b = c
  BY DEF Entry, ActiveTimer
<1>7. <<a, seq>> = ActiveTimer(a)
  BY <1>1 DEF ActiveTimer
<1>8. timers_' = {Entry(b)' : b \in Waiting \ {a}}
  BY <1>0, <1>1, <1>5, <1>6 DEF Inv, Filed
<1>9. activeTimers_' = {ActiveTimer(b)' : b \in Waiting \ {a}}
  BY <1>0, <1>1, <1>5, <1>6, <1>7 DEF Inv, Filed
<1>10. Waiting' = Waiting \ {a}
  <2>1. \A b \in Waiting \ {a} : Entry(b)'[2] = b
    BY DEF Entry
  <2>2. Waiting' = {e[2] : e \in timers_'}
    BY DEF Waiting
  <2> QED BY <1>8, <2>1, <2>2
<1>11. TypeOK'
  BY <1>0, <1>1, <1>3 DEF Inv, TypeOK, batch
<1>12. Filed'
  <2>1. expired' = {Entry(b)' : b \in Batch'}
    BY <1>0, <1>1, <1>2, <1>4, <1>5 DEF batch, Inv, Filed
  <2> QED BY <1>8, <1>9, <1>10, <2>1 DEF Filed
<1>13. Owned'
  BY <1>0, <1>1, <1>2, <1>3, <1>4, <1>10 DEF Inv, Owned
<1>14. SeqsUnique'
  BY <1>0, <1>1, <1>3 DEF Inv, TypeOK, SeqsUnique
<1>15. \A b \in Addr : b # a => heap[b].seq # seq
  BY <1>1 DEF Inv, SeqsUnique
<1>16. Cancelled'
  <2>1. \A s \in cancelled' : s <= created'
    BY <1>0, <1>1 DEF Inv, Cancelled, SeqsUnique
  <2>2. \A b \in Waiting' \cup adding' : heap'[b].seq \notin cancelled'
    BY <1>0, <1>1, <1>2, <1>3, <1>10, <1>15 DEF Inv, Cancelled
  <2>3. ASSUME NEW b \in Batch'
        PROVE  heap'[b].seq \in cancelled' <=> ActiveTimer(b)' \in cancelingTimers_'
    <3>1. b \in Batch /\ b \in Addr /\ b # a
      BY <1>1, <1>2, <1>4
    <3>2. heap'[b].seq = heap[b].seq /\ ActiveTimer(b)' = ActiveTimer(b) /\ heap[b].seq # seq
      BY <1>3, <1>5, <1>15, <3>1
    <3>3. cancelingTimers_' = cancelingTimers_
      BY <1>0 DEF batch
    <3> QED BY <1>0, <3>1, <3>2, <3>3 DEF Inv, Cancelled
  <2> QED BY <2>1, <2>2, <2>3 DEF Cancelled
<1>17. RanSoFar'
  BY <1>0, <1>1, <1>2, <1>3, <1>4, <1>5 DEF Inv, RanSoFar, batch
<1> QED BY <1>11, <1>12, <1>13, <1>14, <1>16, <1>17 DEF Inv

(* cancelInLoop of any other TimerId: what it names is in the batch and is *)
(* noted, or is nothing.                                                   *)
LEMMA CancelOtherKeeps ==
    ASSUME Inv, NEW a \in Addr, NEW seq \in 1..MaxSeq, CancelInLoop(a, seq),
           <<a, seq>> \notin activeTimers_
    PROVE  Inv'
<1>0. /\ cancelingTimers_' = IF callingExpiredTimers THEN cancelingTimers_ \cup {<<a, seq>>}
                                                     ELSE cancelingTimers_
      /\ cancelled' = IF InBatch(a, seq) # {} THEN cancelled \cup {seq} ELSE cancelled
      /\ UNCHANGED <<timers_, activeTimers_, heap>>
      /\ UNCHANGED <<now, created, callingExpiredTimers, expired, toRun, expiredAt,
                     timerfd_, ready, adding, ran>>
  BY DEF CancelInLoop, sets
<1>1. /\ Waiting \subseteq Addr /\ Batch \subseteq Addr /\ adding \subseteq Addr
      /\ \A b \in Batch : Entry(b) \in expired
  BY FiledIs DEF Inv, TypeOK
<1>2. Waiting' = Waiting /\ Batch' = Batch
  BY <1>0 DEF Waiting, Batch
<1>3. seq \in Nat /\ seq # 0
  BY BoundsAssumption
<1>4. TypeOK'
  <2>1. cancelingTimers_' \subseteq Addr \X Nat
    BY <1>0, <1>3 DEF Inv, TypeOK
  <2>2. cancelled' \subseteq Nat
    BY <1>0, <1>3 DEF Inv, TypeOK
  <2> QED BY <1>0, <2>1, <2>2 DEF Inv, TypeOK
<1>5. Filed' /\ Owned' /\ SeqsUnique' /\ RanSoFar'
  BY <1>0, <1>2 DEF Inv, Filed, Owned, SeqsUnique, RanSoFar, Entry, ActiveTimer
<1>6. CASE InBatch(a, seq) # {}
  <2>1. PICK e \in expired : ActiveTimer(e[2]) = <<a, seq>>
    BY <1>6 DEF InBatch
  <2>2. a \in Batch /\ heap[a].seq = seq
    BY <2>1 DEF Batch, ActiveTimer
  <2>3. callingExpiredTimers
    BY <2>1 DEF Inv, TypeOK
  <2>4. /\ cancelingTimers_' = cancelingTimers_ \cup {<<a, seq>>}
        /\ cancelled' = cancelled \cup {seq}
    BY <1>0, <1>6, <2>3
  <2>5. \A b \in Addr : heap[b].seq = seq <=> b = a
    BY <1>3, <2>2 DEF Inv, SeqsUnique
  <2>6. \A s \in cancelled' : s <= created'
    BY <1>0, <2>2, <2>4 DEF Inv, Cancelled, SeqsUnique
  <2>7. \A b \in Waiting' \cup adding' : heap'[b].seq \notin cancelled'
    <3>1. a \notin Waiting /\ a \notin adding
      BY <2>2 DEF Inv, Owned
    <3> QED BY <1>0, <1>1, <1>2, <2>4, <2>5, <3>1 DEF Inv, Cancelled
  <2>8. ASSUME NEW b \in Batch'
        PROVE  heap'[b].seq \in cancelled' <=> ActiveTimer(b)' \in cancelingTimers_'
    <3>1. b \in Batch /\ b \in Addr /\ heap'[b].seq = heap[b].seq
      BY <1>0, <1>1, <1>2
    <3>2. ActiveTimer(b)' = ActiveTimer(b)
      BY <1>0 DEF ActiveTimer
    <3>3. ActiveTimer(b) = <<a, seq>> <=> heap[b].seq = seq
      BY <2>2, <2>5, <3>1 DEF ActiveTimer
    <3> QED BY <2>4, <3>1, <3>2, <3>3 DEF Inv, Cancelled
  <2>9. Cancelled'
    BY <2>6, <2>7, <2>8 DEF Cancelled
  <2> QED BY <1>4, <1>5, <2>9 DEF Inv
<1>7. CASE InBatch(a, seq) = {}
  <2>1. cancelled' = cancelled
    BY <1>0, <1>7
  <2>2. ASSUME NEW b \in Batch' 
        PROVE  heap'[b].seq \in cancelled' <=> ActiveTimer(b)' \in cancelingTimers_'
    <3>1. b \in Batch /\ heap'[b].seq = heap[b].seq /\ ActiveTimer(b)' = ActiveTimer(b)
      BY <1>0, <1>2 DEF ActiveTimer
    <3>2. Entry(b) \in expired /\ Entry(b)[2] = b
      BY <1>1, <3>1 DEF Entry
    <3>3. ActiveTimer(b) # <<a, seq>>
      BY <1>7, <3>2 DEF InBatch
    <3>4. ActiveTimer(b) \in cancelingTimers_' <=> ActiveTimer(b) \in cancelingTimers_
      BY <1>0, <3>3
    <3> QED BY <2>1, <3>1, <3>4 DEF Inv, Cancelled
  <2>3. Cancelled'
    BY <1>0, <1>2, <2>1, <2>2 DEF Inv, Cancelled
  <2> QED BY <1>4, <1>5, <2>3 DEF Inv
<1> QED BY <1>6, <1>7

(* handleRead takes what is due out of both sets. *)
LEMMA HandleReadKeeps ==
    ASSUME Inv, HandleRead
    PROVE  Inv'
<1> DEFINE Due == {b \in Waiting : heap[b].expiration <= now}
<1>0. /\ ~callingExpiredTimers
      /\ expired' = {e \in timers_ : e[1] <= now}
      /\ toRun' = expired'
      /\ timers_' = timers_ \ expired'
      /\ activeTimers_' = activeTimers_ \ {ActiveTimer(e[2]) : e \in expired'}
      /\ callingExpiredTimers' = TRUE /\ ready' = FALSE /\ expiredAt' = now
      /\ cancelingTimers_' = {}
      /\ timerfd_' = IF timerfd_ <= now THEN 0 ELSE timerfd_
      /\ UNCHANGED <<now, heap, created, adding, ran, cancelled>>
  BY DEF HandleRead
<1>1. Waiting \subseteq Addr /\ expired = {} /\ Batch = {}
  BY <1>0, FiledIs DEF Inv, TypeOK, Batch
<1>2. \A b \in Addr : Entry(b)' = Entry(b) /\ ActiveTimer(b)' = ActiveTimer(b)
  BY <1>0 DEF Entry, ActiveTimer
<1>3. \A b, c \in Addr : Entry(b) = Entry(c) \/ ActiveTimer(b) = ActiveTimer(c) => b = c
  BY DEF Entry, ActiveTimer
<1>4. \A b \in Waiting : Entry(b)[1] = heap[b].expiration /\ Entry(b)[2] = b
  BY DEF Entry
<1>5. expired' = {Entry(b) : b \in Due}
  BY <1>0, <1>4 DEF Inv, Filed
<1>6. Due \subseteq Waiting
  OBVIOUS
<1> HIDE DEF Due
<1>7. timers_' = {Entry(b) : b \in Waiting \ Due}
  BY <1>0, <1>1, <1>3, <1>5, <1>6 DEF Inv, Filed
<1>8. {ActiveTimer(e[2]) : e \in expired'} = {ActiveTimer(b) : b \in Due}
  BY <1>4, <1>5, <1>6
<1>9. activeTimers_' = {ActiveTimer(b) : b \in Waiting \ Due}
  BY <1>0, <1>1, <1>3, <1>6, <1>8 DEF Inv, Filed
<1>10. Waiting' = Waiting \ Due
  <2>1. Waiting' = {e[2] : e \in timers_'}
    BY DEF Waiting
  <2> QED BY <1>4, <1>7, <2>1
<1>11. Batch' = Due
  <2>1. Batch' = {e[2] : e \in expired'}
    BY DEF Batch
  <2> QED BY <1>4, <1>5, <1>6, <2>1
<1>12. TypeOK'
  BY <1>0 DEF Inv, TypeOK
<1>13. Filed'
  <2>1. timers_' = {Entry(b)' : b \in Waiting'}
    BY <1>1, <1>2, <1>7, <1>10
  <2>2. activeTimers_' = {ActiveTimer(b)' : b \in Waiting'}
    BY <1>1, <1>2, <1>9, <1>10
  <2>3. expired' = {Entry(b)' : b \in Batch'}
    BY <1>1, <1>2, <1>5, <1>6, <1>11
  <2> QED BY <2>1, <2>2, <2>3 DEF Filed
<1>14. Owned' /\ SeqsUnique'
  BY <1>0, <1>1, <1>6, <1>10, <1>11 DEF Inv, Owned, SeqsUnique
<1>15. Cancelled'
  BY <1>0, <1>6, <1>10, <1>11 DEF Inv, Cancelled
<1>16. RanSoFar'
  BY <1>0, <1>1, <1>2, <1>5, <1>6, <1>11 DEF RanSoFar
<1> QED BY <1>12, <1>13, <1>14, <1>15, <1>16 DEF Inv

(* What reset does to the cells: those of the batch are restarted, keeping *)
(* their sequence, or deleted; the others stay as they are.                *)
LEMMA ResetIs ==
    ASSUME Inv, Reset
    PROVE  /\ Batch \subseteq Addr /\ Waiting \subseteq Addr
           /\ Restarted \subseteq Batch
           /\ \A a \in Batch : a \in Restarted <=> /\ heap[a].interval > 0
                                                   /\ ActiveTimer(a) \notin cancelingTimers_
           /\ heap' \in [Addr -> Timer]
           /\ \A a \in Restarted : heap'[a].seq = heap[a].seq
           /\ \A a \in Batch \ Restarted : heap'[a] = None
           /\ \A a \in Addr \ Batch : heap'[a] = heap[a]
<1>1. Batch \subseteq Addr /\ Waiting \subseteq Addr
  BY FiledIs DEF Inv
<1>2. /\ Restarted \subseteq Batch
      /\ \A a \in Batch : a \in Restarted <=> /\ heap[a].interval > 0
                                              /\ ActiveTimer(a) \notin cancelingTimers_
  BY DEF Restarted, Batch
<1> DEFINE R == Restarted
<1>3. heap' = [a \in Addr |->
                 IF a \in R THEN [heap[a] EXCEPT !.expiration = expiredAt + heap[a].interval]
                 ELSE IF a \in Batch THEN None ELSE heap[a]]
  BY DEF Reset, Batch
<1> HIDE DEF R
<1>4. /\ heap \in [Addr -> Timer] /\ expiredAt \in Nat
      /\ R \subseteq Batch
  BY <1>2 DEF Inv, TypeOK, R
<1>5. heap' \in [Addr -> Timer]
  <2>1. None \in Timer
    BY DEF None, Timer
  <2>2. \A a \in Addr : [heap[a] EXCEPT !.expiration = expiredAt + heap[a].interval] \in Timer
    BY <1>4 DEF Timer
  <2> QED BY <1>3, <1>4, <2>1, <2>2
<1>6. \A a \in R : heap'[a].seq = heap[a].seq
  <2>1. \A a \in Addr :
          [heap[a] EXCEPT !.expiration = expiredAt + heap[a].interval].seq = heap[a].seq
    BY <1>4 DEF Timer
  <2> QED BY <1>1, <1>3, <1>4, <2>1
<1>7. /\ \A a \in Batch \ R : heap'[a] = None
      /\ \A a \in Addr \ Batch : heap'[a] = heap[a]
  BY <1>1, <1>3, <1>4
<1> QED BY <1>1, <1>2, <1>5, <1>6, <1>7 DEF R

(* reset puts back, under their new expirations, the timers that repeat    *)
(* and were not cancelled.                                                 *)
LEMMA ResetKeeps ==
    ASSUME Inv, Reset
    PROVE  Inv'
<1> DEFINE R == Restarted
<1>0. /\ callingExpiredTimers /\ toRun = {}
      /\ timers_' = timers_ \cup {Entry(a)' : a \in R}
      /\ activeTimers_' = activeTimers_ \cup {ActiveTimer(a) : a \in R}
      /\ timerfd_' = IF expired = {} \/ timers_' = {} THEN timerfd_
                     ELSE FiringTime(Earliest(timers_'))
      /\ callingExpiredTimers' = FALSE /\ expired' = {}
      /\ UNCHANGED <<now, created, cancelingTimers_, toRun, expiredAt, ready, adding, ran,
                     cancelled>>
  BY DEF Reset
<1>1. /\ Batch \subseteq Addr /\ Waiting \subseteq Addr
      /\ R \subseteq Batch
      /\ \A a \in R : ActiveTimer(a) \notin cancelingTimers_
      /\ heap' \in [Addr -> Timer]
      /\ \A a \in R : heap'[a].seq = heap[a].seq
      /\ \A a \in Batch \ R : heap'[a] = None
      /\ \A a \in Addr \ Batch : heap'[a] = heap[a]
  BY ResetIs
<1> HIDE DEF R
<1>2. Batch' = {}
  BY <1>0 DEF Batch
<1>3. \A a \in Waiting : a \notin Batch
  BY <1>1 DEF Inv, Owned
<1>4. /\ \A a \in Waiting : Entry(a)' = Entry(a)
      /\ \A a \in Waiting \cup R : ActiveTimer(a)' = ActiveTimer(a)
  BY <1>1, <1>3 DEF Entry, ActiveTimer
<1>5. timers_' = {Entry(a)' : a \in Waiting \cup R}
  BY <1>0, <1>4 DEF Inv, Filed
<1>6. activeTimers_' = {ActiveTimer(a)' : a \in Waiting \cup R}
  BY <1>0, <1>4 DEF Inv, Filed
<1>7. Waiting' = Waiting \cup R
  <2>1. \A a \in Waiting \cup R : Entry(a)'[2] = a
    BY DEF Entry
  <2>2. Waiting' = {e[2] : e \in timers_'}
    BY DEF Waiting
  <2> QED BY <1>5, <2>1, <2>2
<1>8. TypeOK'
  <2>1. \A a \in Addr : heap'[a].expiration \in Nat /\ heap'[a].seq \in Nat
    BY <1>1 DEF Timer
  <2>2. timers_' \subseteq Nat \X Addr /\ activeTimers_' \subseteq Addr \X Nat
    BY <1>1, <1>5, <1>6, <2>1 DEF Entry, ActiveTimer
  <2>3. timerfd_' \in Nat
    <3>1. timers_' # {} => Earliest(timers_') \in Nat
      BY <2>2, EarliestIs
    <3> QED BY <1>0, <3>1 DEF Inv, TypeOK, FiringTime, Later
  <2> QED BY <1>0, <1>1, <2>2, <2>3 DEF Inv, TypeOK
<1>9. Filed'
  BY <1>0, <1>2, <1>5, <1>6, <1>7 DEF Filed
<1>10. Owned'
  <2>1. \A a \in Batch \ R : heap'[a].seq = 0
    BY <1>1 DEF None
  <2>2. \A a \in Addr : heap'[a].seq # 0 <=> a \in Waiting' \cup Batch' \cup adding'
    <3> SUFFICES ASSUME NEW a \in Addr
                 PROVE  heap'[a].seq # 0 <=> a \in Waiting' \cup Batch' \cup adding'
      OBVIOUS
    <3>1. CASE a \in R
      BY <1>0, <1>1, <1>2, <1>7, <3>1 DEF Inv, Owned
    <3>2. CASE a \in Batch \ R
      BY <1>0, <1>2, <1>7, <2>1, <3>2 DEF Inv, Owned
    <3>3. CASE a \notin Batch
      BY <1>0, <1>1, <1>2, <1>7, <3>3 DEF Inv, Owned
    <3> QED BY <1>1, <3>1, <3>2, <3>3
  <2> QED BY <1>0, <1>1, <1>2, <1>7, <2>2 DEF Inv, Owned
<1>11. SeqsUnique'
  <2>1. \A a \in Addr : heap'[a].seq = heap[a].seq \/ heap'[a].seq = 0
    BY <1>1 DEF None
  <2> QED BY <1>0, <2>1 DEF Inv, TypeOK, SeqsUnique
<1>12. Cancelled'
  <2>1. \A a \in Waiting' \cup adding' : heap'[a].seq \notin cancelled'
    <3>1. adding \subseteq Addr /\ \A a \in adding : a \notin Batch
      BY DEF Inv, TypeOK, Owned
    <3> QED BY <1>0, <1>1, <1>3, <1>7, <3>1 DEF Inv, Cancelled
  <2> QED BY <1>0, <1>2, <2>1 DEF Inv, Cancelled
<1>13. RanSoFar'
  BY <1>2 DEF RanSoFar
<1> QED BY <1>8, <1>9, <1>10, <1>11, <1>12, <1>13 DEF Inv

(* Every step keeps Inv. *)
LEMMA InvStep == Inv /\ [Next]_vars => Inv'
<1> SUFFICES ASSUME Inv, [Next]_vars
             PROVE  Inv'
  OBVIOUS
<1>1. CASE Tick
  BY <1>1 DEF Tick, sets, batch, Inv, TypeOK, Filed, Owned, SeqsUnique, Cancelled, RanSoFar,
              Waiting, Batch, Entry, ActiveTimer
<1>2. CASE Poll
  BY <1>2 DEF Poll, sets, batch, Inv, TypeOK, Filed, Owned, SeqsUnique, Cancelled, RanSoFar,
              Waiting, Batch, Entry, ActiveTimer
<1>3. CASE HandleRead
  BY <1>3, HandleReadKeeps
<1>4. CASE Reset
  BY <1>4, ResetKeeps
<1>5. ASSUME NEW e \in toRun, RunTimer(e)
      PROVE  Inv'
  <2>1. /\ toRun' = toRun \ {e} /\ ran' = ran \cup {heap[e[2]].seq}
        /\ UNCHANGED <<now, heap, created, timers_, activeTimers_, cancelingTimers_,
                       callingExpiredTimers, expired, expiredAt, timerfd_, ready, adding,
                       cancelled>>
    BY <1>5 DEF RunTimer, sets
  <2>2. heap[e[2]].seq \in Nat
    BY DEF Inv, TypeOK, Timer
  <2>3. TypeOK'
    BY <2>1, <2>2 DEF Inv, TypeOK
  <2>4. Filed' /\ Owned' /\ SeqsUnique' /\ Cancelled'
    BY <2>1 DEF Inv, Filed, Owned, SeqsUnique, Cancelled, Waiting, Batch, Entry, ActiveTimer
  <2>5. RanSoFar'
    <3> SUFFICES ASSUME NEW a \in Batch
                 PROVE  Entry(a) \in toRun' \/ heap[a].seq \in ran'
      BY <2>1 DEF RanSoFar, Batch, Entry
    <3>1. CASE Entry(a) = e
      BY <2>1, <3>1 DEF Entry
    <3>2. CASE Entry(a) # e
      BY <2>1, <3>2 DEF Inv, RanSoFar
    <3> QED BY <3>1, <3>2
  <2> QED BY <2>3, <2>4, <2>5 DEF Inv
<1>6. ASSUME NEW a \in Addr, RunQueuedAdd(a)
      PROVE  Inv'
  BY <1>6, RunQueuedAddKeeps
<1>7. ASSUME NEW a \in Addr, NEW delay \in Delays, NEW interval \in Intervals,
             AddTimer(a, delay, interval) \/ AddTimerElsewhere(a, delay, interval)
      PROVE  Inv'
  <2>1. delay \in Nat /\ interval \in Nat
    BY BoundsAssumption
  <2> QED BY <1>7, <2>1, AddTimerKeeps, AddElsewhereKeeps
<1>8. ASSUME NEW a \in Addr, NEW seq \in 1..MaxSeq, CancelInLoop(a, seq)
      PROVE  Inv'
  BY <1>8, CancelWaitingKeeps, CancelOtherKeeps
<1>9. CASE UNCHANGED vars
  BY <1>9 DEF vars, sets, batch, Inv, TypeOK, Filed, Owned, SeqsUnique, Cancelled, RanSoFar,
              Waiting, Batch, Entry, ActiveTimer
<1> QED BY <1>1, <1>2, <1>3, <1>4, <1>5, <1>6, <1>7, <1>8, <1>9 DEF Next

(* Inv is an invariant of every behaviour. *)
THEOREM Invariance == Spec => []Inv
BY InvInit, InvStep, PTL DEF Spec

(* timers_ and activeTimers_ hold the same timers, under the expiration    *)
(* and the sequence these have: the asserts of addTimer, cancelInLoop,     *)
(* getExpired and insert on the sizes of the two sets and on the results   *)
(* of insert and erase hold.                                               *)
THEOREM SetsInStep == Spec => []SetsAgree
<1>1. Inv => SetsAgree
  <2> SUFFICES ASSUME Inv PROVE SetsAgree
    OBVIOUS
  <2>1. \A a \in Waiting : Entry(a)[2] = a
    BY DEF Entry
  <2>2. \A e \in timers_ : e = Entry(e[2]) /\ e[2] \in Waiting
    BY <2>1 DEF Inv, Filed
  <2>3. activeTimers_ = {ActiveTimer(e[2]) : e \in timers_}
    BY DEF Inv, Filed, Waiting
  <2> QED BY <2>2, <2>3 DEF SetsAgree
<1> QED BY <1>1, Invariance, PTL

(* Every Timer that exists waits, runs or is on its way, and only one of   *)
(* these: none leaks and none is deleted twice, whatever callbacks add and *)
(* cancel while handleRead runs the batch.                                 *)
THEOREM TimersOwnedOnce == Spec => []OwnedOnce
<1>1. Inv => OwnedOnce
  <2> SUFFICES ASSUME Inv PROVE OwnedOnce
    OBVIOUS
  <2>1. Waiting \subseteq Addr /\ Batch \subseteq Addr /\ adding \subseteq Addr
    BY FiledIs DEF Inv, TypeOK
  <2>2. {a \in Addr : heap[a].seq # 0} = Waiting \cup Batch \cup adding
    BY <2>1 DEF Inv, Owned
  <2>3. Waiting \cap Batch = {} /\ Waiting \cap adding = {} /\ Batch \cap adding = {}
    BY <2>1 DEF Inv, Owned
  <2> QED BY <2>2, <2>3 DEF OwnedOnce, Waiting, Batch
<1> QED BY <1>1, Invariance, PTL

(* A timer that cancelInLoop found is never put back into the sets.        *)
THEOREM CancelHolds == Spec => []CancelledStaysOut
<1>1. Inv => CancelledStaysOut
  <2> SUFFICES ASSUME Inv, NEW id \in activeTimers_
               PROVE  id[2] \notin cancelled
    BY DEF CancelledStaysOut
  <2>1. PICK a \in Waiting : id = ActiveTimer(a)
    BY DEF Inv, Filed
  <2> QED BY <2>1 DEF Inv, Cancelled, ActiveTimer
<1> QED BY <1>1, Invariance, PTL

(* cancelInLoop and reset delete a Timer only when it was cancelled under  *)
(* its own TimerId, or has run and does not repeat: a stale TimerId whose  *)
(* address now holds another timer deletes nothing.                        *)
THEOREM OnlyTheDoneAreDeleted == Spec => DeletedWhenDone
<1> DEFINE Done == \A a \in Addr : heap[a].seq # 0 /\ heap'[a] = None =>
                      \/ heap[a].seq \in cancelled'
                      \/ heap[a].seq \in ran /\ heap[a].interval = 0
<1>1. Inv /\ [Next]_vars => [Done]_vars
  <2> SUFFICES ASSUME Inv, Next, NEW a \in Addr, heap[a].seq # 0, heap'[a] = None
               PROVE  \/ heap[a].seq \in cancelled'
                      \/ heap[a].seq \in ran /\ heap[a].interval = 0
    OBVIOUS
  <2>0. heap'[a] # heap[a]
    BY DEF None
  <2>1. CASE Tick \/ Poll \/ HandleRead \/ (\E e \in toRun : RunTimer(e))
             \/ (\E b \in Addr : RunQueuedAdd(b))
    BY <2>0, <2>1 DEF Tick, Poll, HandleRead, RunTimer, RunQueuedAdd
  <2>2. ASSUME NEW b \in Addr, NEW delay \in Delays, NEW interval \in Intervals,
               AddTimer(b, delay, interval) \/ AddTimerElsewhere(b, delay, interval)
        PROVE  FALSE
    <3>1. delay \in Nat /\ interval \in Nat
      BY BoundsAssumption
    <3>2. NewTimer(b, delay, interval)
      BY <2>2 DEF AddTimer, AddTimerElsewhere
    <3>3. heap'[b].seq # 0 /\ \A c \in Addr : c # b => heap'[c] = heap[c]
      BY <3>1, <3>2, NewTimerIs
    <3> QED BY <2>0, <3>3 DEF None
  <2>3. ASSUME NEW b \in Addr, NEW seq \in 1..MaxSeq, CancelInLoop(b, seq)
        PROVE  heap[a].seq \in cancelled'
    <3>1. <<b, seq>> \in activeTimers_
      BY <2>0, <2>3 DEF CancelInLoop
    <3>2. seq = heap[b].seq
      BY <3>1, FiledIs, BoundsAssumption DEF Inv
    <3>3. heap' = [heap EXCEPT ![b] = None] /\ cancelled' = cancelled \cup {seq}
      BY <2>3, <3>1 DEF CancelInLoop
    <3>4. a = b
      BY <2>0, <3>3 DEF Inv, TypeOK
    <3> QED BY <3>2, <3>3, <3>4
  <2>4. CASE Reset
    <3>1. a \in Batch /\ a \notin Restarted
      BY <2>0, <2>4, ResetIs DEF None
    <3>2. ~(heap[a].interval > 0) \/ ActiveTimer(a) \in cancelingTimers_
      BY <2>4, <3>1, ResetIs
    <3>3. CASE ActiveTimer(a) \in cancelingTimers_
      <4>1. heap[a].seq \in cancelled
        BY <3>1, <3>3 DEF Inv, Cancelled
      <4> QED BY <2>4, <4>1 DEF Reset
    <3>4. CASE ~(heap[a].interval > 0)
      <4>1. heap[a].interval = 0
        BY <3>4 DEF Inv, TypeOK, Timer
      <4>2. heap[a].seq \in ran
        BY <2>4, <3>1 DEF Inv, RanSoFar, Reset
      <4> QED BY <4>1, <4>2
    <3> QED BY <3>2, <3>3, <3>4
  <2> QED BY <2>1, <2>2, <2>3, <2>4 DEF Next
<1>2. DeletedWhenDone <=> [][Done]_vars
  BY DEF DeletedWhenDone
<1> QED BY <1>1, <1>2, Invariance, PTL DEF Spec
-----------------------------------------------------------------------------
(* Every step keeps Armed: without cancel, whatever is added when and from *)
(* wherever, in a batch or not.                                            *)
LEMMA ArmedStep == Inv /\ Armed /\ [Next]_vars => Armed'
<1> SUFFICES ASSUME Inv, Armed, [Next]_vars
             PROVE  Armed'
  OBVIOUS
<1>0. /\ now \in Nat /\ timerfd_ \in Nat /\ callingExpiredTimers \in BOOLEAN
      /\ timers_ \subseteq Nat \X Addr /\ heap \in [Addr -> Timer]
      /\ ~callingExpiredTimers => expired = {}
  BY DEF Inv, TypeOK
<1>1. CASE Tick
  BY <1>0, <1>1 DEF Tick, sets, batch, Armed
<1>2. CASE Poll
  BY <1>0, <1>2 DEF Poll, sets, batch, Armed
<1>3. CASE HandleRead
  <2>1. /\ ~callingExpiredTimers /\ ready /\ ready' = FALSE /\ callingExpiredTimers' = TRUE
        /\ cancelled' = cancelled
        /\ timerfd_' = IF timerfd_ <= now THEN 0 ELSE timerfd_
        /\ expired' = {e \in timers_ : e[1] <= now}
    BY <1>3 DEF HandleRead
  <2>2. ASSUME cancelled = {}
        PROVE  timerfd_' = 0 /\ expired' # {}
    <3>1. timerfd_ <= now /\ \E e \in timers_ : e[1] <= timerfd_
      BY <2>1, <2>2 DEF Armed
    <3>2. PICK e \in timers_ : e[1] <= timerfd_
      BY <3>1
    <3>3. e[1] \in Nat
      BY <1>0
    <3>4. e[1] <= now
      BY <1>0, <3>1, <3>2, <3>3
    <3> QED BY <2>1, <3>1, <3>4
  <2> QED BY <2>1, <2>2 DEF Armed
<1>4. CASE Reset
  <2>1. /\ callingExpiredTimers /\ ~callingExpiredTimers'
        /\ timers_ \subseteq timers_'
        /\ timerfd_' = IF expired = {} \/ timers_' = {} THEN timerfd_
                       ELSE FiringTime(Earliest(timers_'))
        /\ UNCHANGED <<now, ready, cancelled>>
    BY <1>4 DEF Reset
  <2>2. timers_' \subseteq Nat \X Addr
    BY <1>4, ResetKeeps DEF Inv, TypeOK
  <2>3. ASSUME cancelled = {}, timers_' # {}
        PROVE  timerfd_' # 0 /\ \E e \in timers_' : e[1] <= timerfd_'
    <3>1. /\ Earliest(timers_') \in Nat
          /\ \E e \in timers_' : e[1] = Earliest(timers_')
      BY <2>2, <2>3, EarliestIs
    <3>2. timerfd_' = FiringTime(Earliest(timers_'))
      BY <2>1, <2>3 DEF Armed
    <3>3. FiringTime(Earliest(timers_')) # 0 
          /\ Earliest(timers_') <= FiringTime(Earliest(timers_'))
      BY <1>0, <3>1 DEF FiringTime, Later
    <3> QED BY <3>1, <3>2, <3>3
  <2>4. ASSUME cancelled = {}, timers_' = {}
        PROVE  timerfd_' = 0
    BY <2>1, <2>4 DEF Armed
  <2>5. ~ready'
    BY <2>1 DEF Armed
  <2> QED BY <2>1, <2>3, <2>4, <2>5 DEF Armed
<1>5. CASE \E e \in toRun : RunTimer(e)
  BY <1>5 DEF RunTimer, sets, Armed
<1>6. ASSUME NEW a \in Addr, heap' \in [Addr -> Timer], AddTimerInLoop(a), timers_' # {},
             Entry(a)' \in timers_', timers_ \subseteq timers_',
             UNCHANGED <<now, batch, ready, cancelled>>
      PROVE  Armed'
  <2>1. CASE timers_ = {}
    <3>1. timerfd_' = FiringTime(heap'[a].expiration) /\ heap'[a].expiration \in Nat
      BY <1>6, <2>1 DEF AddTimerInLoop, Timer
    <3>2. timerfd_' # 0 /\ heap'[a].expiration <= timerfd_'
      BY <1>0, <3>1 DEF FiringTime, Later
    <3>3. Entry(a)'[1] <= timerfd_'
      BY <3>2 DEF Entry
    <3>4. \E e \in timers_' : e[1] <= timerfd_'
      BY <1>6, <3>3
    <3>5. cancelled = {} => ~ready
      BY <2>1 DEF Armed
    <3> QED BY <1>6, <3>2, <3>4, <3>5 DEF Armed, batch
  <2>2. CASE timers_ # {}
    <3>1. timerfd_' = timerfd_
      BY <2>2, <1>6 DEF AddTimerInLoop
    <3> QED BY <1>6, <2>2, <3>1 DEF Armed, batch
  <2> QED BY <2>1, <2>2
<1>7. ASSUME NEW a \in Addr, RunQueuedAdd(a)
      PROVE  Armed'
  <2>1. heap' \in [Addr -> Timer] /\ AddTimerInLoop(a) /\ UNCHANGED <<now, batch, ready, cancelled>>
    BY <1>0, <1>7 DEF RunQueuedAdd
  <2>2. timers_' # {} /\ Entry(a)' \in timers_' /\ timers_ \subseteq timers_'
    BY <2>1 DEF AddTimerInLoop, Insert
  <2> QED BY <1>6, <2>1, <2>2
<1>8. ASSUME NEW a \in Addr, NEW delay \in Delays, NEW interval \in Intervals,
             AddTimer(a, delay, interval)
      PROVE  Armed'
  <2>1. heap' \in [Addr -> Timer]
    BY <1>8, NewTimerIs, BoundsAssumption DEF AddTimer
  <2>2. AddTimerInLoop(a) /\ UNCHANGED <<now, batch, ready, cancelled>>
    BY <1>8 DEF AddTimer
  <2>3. timers_' # {} /\ Entry(a)' \in timers_' /\ timers_ \subseteq timers_'
    BY <2>2 DEF AddTimerInLoop, Insert
  <2> QED BY <1>6, <2>1, <2>2, <2>3
<1>9. ASSUME NEW a \in Addr, NEW delay \in Delays, NEW interval \in Intervals,
             AddTimerElsewhere(a, delay, interval)
      PROVE  Armed'
  BY <1>9 DEF AddTimerElsewhere, sets, batch, Armed
<1>10. ASSUME NEW a \in Addr, NEW seq \in 1..MaxSeq, CancelInLoop(a, seq)
       PROVE  Armed'
  <2>1. CASE <<a, seq>> \in activeTimers_
    <3>1. cancelled' # {} /\ UNCHANGED <<callingExpiredTimers, ready>>
      BY <1>10, <2>1 DEF CancelInLoop
    <3> QED BY <3>1 DEF Armed
  <2>2. CASE <<a, seq>> \notin activeTimers_
    <3>1. /\ cancelled' = {} => cancelled = {}
          /\ UNCHANGED <<now, timers_, callingExpiredTimers, ready, expired, timerfd_>>
      BY <1>10, <2>2 DEF CancelInLoop, sets
    <3> QED BY <3>1 DEF Armed
  <2> QED BY <2>1, <2>2
<1>11. CASE UNCHANGED vars
  BY <1>11 DEF vars, sets, batch, Armed
<1> QED BY <1>1, <1>2, <1>3, <1>4, <1>5, <1>7, <1>8, <1>9, <1>10, <1>11 DEF Next

(* As long as no timer is cancelled the queue does not stall: whenever a   *)
(* timer waits outside handleRead the timerfd is armed, and some timer is  *)
(* due when it fires, so that reset arms it again.                         *)
THEOREM NoStall == Spec => []NoStallWithoutCancel
<1>1. Init => Armed
  BY DEF Init, Armed
<1>2. Armed => NoStallWithoutCancel
  BY DEF Armed, NoStallWithoutCancel
<1> QED BY <1>1, <1>2, ArmedStep, Invariance, PTL DEF Spec
=============================================================================
