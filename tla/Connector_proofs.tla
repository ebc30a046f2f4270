--------------------------- MODULE Connector_proofs ---------------------------
(***************************************************************************)
(* Proofs about Connector, for any delays and bounds and any operations of *)
(* the loop thread and of another: sockets are accounted for, the next     *)
(* attempt is coming, and a connector that is started once makes one       *)
(* attempt at a time and fails no assert.  Then about TcpClient, whose     *)
(* connector that is: nothing calls a client that was destructed.          *)
(***************************************************************************)
EXTENDS Connector, TcpClientEnd, TLAPS

(* Which functors wait in pendingFunctors_, and what queueing one at its   *)
(* end and running the one at its head does to the others.                 *)

Holds(q, f) == \E i \in DOMAIN q : q[i] = f
Once(q, f) == \A i, j \in DOMAIN q : q[i] = f /\ q[j] = f => i = j

(* What queueing a functor does to those that wait. *)
LEMMA AppendHolds ==
    ASSUME NEW S, NEW q \in Seq(S), NEW g \in S
    PROVE  /\ Append(q, g) \in Seq(S)
           /\ \A f : Holds(Append(q, g), f) <=> Holds(q, f) \/ f = g
           /\ \A f : Once(q, f) /\ (f = g => ~Holds(q, f)) => Once(Append(q, g), f)
<1> DEFINE r == Append(q, g)
<1>1. r \in Seq(S) /\ Len(q) \in Nat /\ Len(r) = Len(q) + 1
  OBVIOUS
<1>2. /\ \A i \in 1..Len(q) : r[i] = q[i]
      /\ r[Len(q) + 1] = g
  OBVIOUS
<1>3. DOMAIN q = 1..Len(q) /\ DOMAIN r = 1..(Len(q) + 1)
  BY <1>1
<1>4. ASSUME NEW f PROVE Holds(r, f) <=> Holds(q, f) \/ f = g
  BY <1>1, <1>2, <1>3 DEF Holds
<1>5. ASSUME NEW f, Once(q, f), f = g => ~Holds(q, f) PROVE Once(r, f)
  BY <1>1, <1>2, <1>3, <1>5 DEF Holds, Once
<1> QED BY <1>1, <1>4, <1>5

(* What running the first functor does to the others. *)
LEMMA TailHolds ==
    ASSUME NEW S, NEW q \in Seq(S), q # <<>>
    PROVE  /\ Head(q) \in S /\ Tail(q) \in Seq(S)
           /\ Holds(q, Head(q))
           /\ \A f : Holds(Tail(q), f) => Holds(q, f)
           /\ \A f : f # Head(q) /\ Holds(q, f) => Holds(Tail(q), f)
           /\ \A f : Once(q, f) => Once(Tail(q), f)
           /\ Once(q, Head(q)) => ~Holds(Tail(q), Head(q))
<1> DEFINE r == Tail(q)
<1>1. r \in Seq(S) /\ Len(q) \in Nat \ {0} /\ Len(r) = Len(q) - 1
  OBVIOUS
<1>2. \A i \in 1..(Len(q) - 1) : r[i] = q[i + 1]
  OBVIOUS
<1>3. DOMAIN q = 1..Len(q) /\ DOMAIN r = 1..(Len(q) - 1) /\ Head(q) = q[1] /\ Head(q) \in S
  BY <1>1
<1>4. Holds(q, Head(q))
  BY <1>1, <1>3 DEF Holds
<1>5. ASSUME NEW f, Holds(r, f) PROVE Holds(q, f)
  BY <1>1, <1>2, <1>3, <1>5 DEF Holds
<1>6. ASSUME NEW f, f # Head(q), Holds(q, f) PROVE Holds(r, f)
  <2>1. PICK i \in 1..Len(q) : q[i] = f
    BY <1>3, <1>6 DEF Holds
  <2>2. i - 1 \in 1..(Len(q) - 1)
    BY <1>1, <1>3, <1>6, <2>1
  <2>3. r[i - 1] = f
    BY <1>1, <1>2, <2>1, <2>2
  <2> QED BY <2>2, <2>3, <1>3 DEF Holds
<1>7. ASSUME NEW f, Once(q, f) PROVE Once(r, f)
  <2>1. \A i \in 1..(Len(q) - 1) : i + 1 \in 1..Len(q)
    BY <1>1
  <2> SUFFICES ASSUME NEW i \in 1..(Len(q) - 1), NEW j \in 1..(Len(q) - 1), r[i] = f, r[j] = f
               PROVE  i = j
    BY <1>3 DEF Once
  <2>2. i + 1 = j + 1
    BY <2>1, <1>2, <1>3, <1>7 DEF Once
  <2> QED BY <2>2, <1>1
<1>8. ASSUME Once(q, Head(q)), Holds(r, Head(q)) PROVE FALSE
  <2>1. PICK i \in 1..(Len(q) - 1) : r[i] = Head(q)
    BY <1>3, <1>8 DEF Holds
  <2>2. i + 1 \in 1..Len(q) /\ 1 \in 1..Len(q) /\ q[i + 1] = q[1] /\ i + 1 # 1
    BY <2>1, <1>1, <1>2, <1>3
  <2> QED BY <2>2, <1>3, <1>8 DEF Once
<1> QED BY <1>1, <1>3, <1>4, <1>5, <1>6, <1>7, <1>8
-----------------------------------------------------------------------------
(* Types, and that a connector that is connecting has its channel in the   *)
(* loop, with one socket, which is what lets stopInLoop and handleWrite    *)
(* remove the one and close or hand over the other.                        *)
Inv == /\ TypeOK
       /\ SocketsAccounted
       /\ Running /\ state_ = "kConnecting" => channel_ = "added"

(* Doubling the delay keeps it within its limits. *)
LEMMA BackedOffInRange ==
    ASSUME NEW delay \in kInitRetryDelayMs..kMaxRetryDelayMs
    PROVE  BackedOff(delay) \in kInitRetryDelayMs..kMaxRetryDelayMs
BY ConnectorAssumption DEF BackedOff

(* startInLoop in any of its three callers keeps Inv, whatever the value   *)
(* of timers it is given.                                                  *)
LEMMA ConnectKeeps ==
    ASSUME Inv, Running, NEW state \in {"kDisconnected", "kConnecting", "kConnected"},
           state \in {state_, "kDisconnected"},
           NEW delay \in kInitRetryDelayMs..kMaxRetryDelayMs, NEW pending \in Nat,
           connect(state, delay, pending)
    PROVE  /\ state_' \in {"kDisconnected", "kConnecting", "kConnected"}
           /\ retryDelayMs_' \in kInitRetryDelayMs..kMaxRetryDelayMs
           /\ channel_' \in {"none", "added", "removed"}
           /\ sockets' \in Nat
           /\ timers' \in {pending, pending + 1}
           /\ gaveUp' \in BOOLEAN
           /\ SocketsAccounted'
           /\ Running' /\ state_' = "kConnecting" => channel_' = "added"
<1> USE DEF Inv, TypeOK, SocketsAccounted, Running
<1>1. CASE connecting /\ gaveUp' = FALSE /\ timers' = pending /\ retryDelayMs_' = delay
  <2>1. CASE channel_ = "none"
    <3>1. sockets = 0 /\ sockets' = 1 /\ channel_' = "added" /\ state_' = "kConnecting"
      BY <1>1, <2>1 DEF connecting
    <3> QED BY <1>1, <3>1
  <2>2. CASE channel_ # "none"
    <3>1. state_' = "kConnecting" /\ ~Running' /\ UNCHANGED <<channel_, sockets>>
      BY <1>1, <2>2 DEF connecting
    <3> QED BY <1>1, <3>1
  <2> QED BY <2>1, <2>2
<1>2. CASE /\ retry(TRUE, delay, pending)
           /\ gaveUp' = FALSE /\ UNCHANGED <<channel_, sockets, failed>>
  BY <1>2, BackedOffInRange DEF retry
<1>3. CASE /\ gaveUp' = TRUE /\ timers' = pending /\ retryDelayMs_' = delay /\ state_' = state
           /\ UNCHANGED <<channel_, sockets, failed>>
  BY <1>3
<1> QED BY <1>1, <1>2, <1>3 DEF connect

(* A new connector has no channel and no socket. *)
LEMMA InvInit == Init => Inv
<1>1. <<>> \in Seq(Functors)
  OBVIOUS
<1>2. ASSUME Init PROVE TypeOK
  <2>1. connect_ \in BOOLEAN /\ twice \in BOOLEAN /\ gaveUp \in BOOLEAN
    BY <1>2 DEF Init
  <2>2. retryDelayMs_ \in kInitRetryDelayMs..kMaxRetryDelayMs
    BY <1>2, ConnectorAssumption DEF Init
  <2>3. timers \in Nat /\ fresh \in 0..timers
    BY <1>2 DEF Init
  <2> QED BY <1>1, <1>2, <2>1, <2>2, <2>3 DEF Init, TypeOK
<1> QED BY <1>2 DEF Init, Inv, SocketsAccounted

(* Every step of the loop and every call keeps Inv. *)
LEMMA InvStep == Inv /\ [Next]_vars => Inv'
<1> SUFFICES ASSUME Inv, [Next]_vars
             PROVE  Inv'
  OBVIOUS
<1> USE DEF Inv, TypeOK, Running, SocketsAccounted
<1>1. CASE RunFunctor
  <2>1. Head(queue) \in Functors /\ Tail(queue) \in Seq(Functors)
    BY <1>1 DEF RunFunctor
  <2>2. CASE Head(queue) = "startInLoop"
    <3>1. startInLoop(connect_, timers) /\ queue' = Tail(queue) /\ fresh' = fresh
      BY <1>1, <2>2 DEF RunFunctor
    <3>2. CASE connect_
      BY <1>1, <2>1, <3>1, <3>2, ConnectKeeps DEF RunFunctor, startInLoop
    <3>3. CASE ~connect_
      BY <1>1, <2>1, <3>1, <3>3 DEF RunFunctor, startInLoop, attempt
    <3> QED BY <3>2, <3>3
  <2>3. CASE Head(queue) = "stopInLoop"
    <3>1. stopInLoop(Tail(queue)) /\ fresh' = fresh + (timers' - timers)
      BY <1>1, <2>3 DEF RunFunctor
    <3>2. CASE state_ = "kConnecting"
      <4>1. queue' \in Seq(Functors)
        BY <2>1, <3>1, <3>2 DEF stopInLoop, removeAndResetChannel, Functors
      <4> QED BY <1>1, <3>1, <3>2, <4>1, BackedOffInRange
              DEF RunFunctor, stopInLoop, removeAndResetChannel, retry
    <3>3. CASE state_ # "kConnecting"
      <4>1. queue' = Tail(queue) /\ timers' = timers /\ UNCHANGED attempt /\ fresh' = fresh
        BY <3>1, <3>3 DEF stopInLoop
      <4> QED BY <1>1, <2>1, <4>1 DEF RunFunctor, attempt
    <3> QED BY <3>2, <3>3
  <2>4. CASE Head(queue) = "resetChannel"
    <3>1. resetChannel /\ queue' = Tail(queue) /\ fresh' = 0
      BY <1>1, <2>4 DEF RunFunctor
    <3>2. Running' => channel_ # "added"
      BY <3>1 DEF resetChannel
    <3> QED BY <1>1, <2>1, <3>1, <3>2 DEF RunFunctor, resetChannel
  <2> QED BY <2>1, <2>2, <2>3, <2>4 DEF Functors
<1>2. CASE TimerFires
  <2>1. timers - 1 \in Nat /\ fresh <= timers - 1
    BY <1>2 DEF TimerFires
  <2>2. CASE connect_
    BY <1>2, <2>1, <2>2, ConnectKeeps DEF TimerFires, startInLoop
  <2>3. CASE ~connect_
    BY <1>2, <2>1, <2>3 DEF TimerFires, startInLoop, attempt
  <2> QED BY <2>2, <2>3
<1>3. CASE HandleEvent
  <2>1. CASE state_ = "kConnecting"
    <3>1. queue' \in Seq(Functors)
      BY <1>3, <2>1 DEF HandleEvent, removeAndResetChannel, Functors
    <3>2. /\ Running /\ channel_ = "added" /\ channel_' = "removed"
          /\ sockets' = sockets - 1 /\ UNCHANGED failed
      BY <1>3, <2>1 DEF HandleEvent, removeAndResetChannel
    <3>3. Running' /\ sockets' = 0 /\ SocketsAccounted'
      BY <3>2
    <3>4. /\ state_' \in {"kDisconnected", "kConnected"}
          /\ timers' \in {timers, timers + 1}
          /\ retryDelayMs_' \in {retryDelayMs_, BackedOff(retryDelayMs_)}
      BY <1>3, <2>1 DEF HandleEvent, retry
    <3>5. retryDelayMs_' \in kInitRetryDelayMs..kMaxRetryDelayMs
      BY <3>4, BackedOffInRange
    <3>6. timers' \in Nat /\ fresh' \in 0..timers'
      <4>1. fresh' = fresh + (timers' - timers)
        BY <1>3 DEF HandleEvent
      <4>2. timers \in Nat /\ fresh \in 0..timers
        OBVIOUS
      <4>3. CASE timers' = timers
        BY <4>1, <4>2, <4>3
      <4>4. CASE timers' = timers + 1
        BY <4>1, <4>2, <4>4
      <4> QED BY <3>4, <4>3, <4>4
    <3>7. /\ revents' = "none" /\ established' \in Nat
          /\ UNCHANGED <<connect_, userPc, starts, twice, gaveUp>>
      BY <1>3, <2>1 DEF HandleEvent
    <3> QED BY <3>1, <3>2, <3>3, <3>4, <3>5, <3>6, <3>7
  <2>2. CASE state_ # "kConnecting"
    BY <1>3, <2>2 DEF HandleEvent, Outcomes
  <2> QED BY <2>1, <2>2
<1>4. CASE \E outcome \in Outcomes : Poll(outcome)
  BY <1>4 DEF Poll, attempt
<1>5. ASSUME NEW op \in LoopOps, LoopCall(op)
      PROVE  Inv'
  <2>1. op \in {"start", "stop", "restart"}
    BY ConnectorAssumption DEF Ops
  <2>2. CASE op = "start"
    BY <1>5, <2>2, ConnectKeeps DEF LoopCall, startInLoop
  <2>3. CASE op = "stop"
    BY <1>5, <2>3 DEF LoopCall, attempt, Functors
  <2>4. CASE op = "restart"
    BY <1>5, <2>4, ConnectKeeps, ConnectorAssumption DEF LoopCall
  <2> QED BY <2>1, <2>2, <2>3, <2>4
<1>6. CASE \E op \in UserOps : UserCall(op)
  BY <1>6 DEF UserCall, attempt
<1>7. CASE UserQueues
  BY <1>7 DEF UserQueues, attempt, Functors
<1>8. CASE UNCHANGED vars
  BY <1>8 DEF vars, attempt
<1> QED BY <1>1, <1>2, <1>3, <1>4, <1>5, <1>6, <1>7, <1>8 DEF Next

(* Every socket that connect() opens is closed or handed over exactly when *)
(* its channel leaves the loop.                                            *)
THEOREM NoSocketLost == Spec => []SocketsAccounted
<1>1. Inv => SocketsAccounted
  BY DEF Inv
<1> QED BY <1>1, InvInit, InvStep, PTL DEF Spec
-----------------------------------------------------------------------------
\* A start waits in the queue or in the user thread.
StartQueued == Holds(queue, "startInLoop") \/ userPc = "startInLoop"

(* connect() goes on, sets a timer or gives up. *)
LEMMA ConnectComes ==
    ASSUME NEW state, NEW delay, NEW pending \in Nat, connect(state, delay, pending)
    PROVE  state_' = "kConnecting" \/ timers' > 0 \/ gaveUp'
BY DEF connect, connecting, retry

(* While connect_ is set and no attempt is under way, the next one is      *)
(* queued or a timer is set, unless the last error was not one to retry:   *)
(* no order of start, stop, errors and timers lets a start get lost.       *)
THEOREM NextAttemptComes == Spec => []AttemptComing
<1>1. Init => AttemptComing
  BY DEF Init, AttemptComing
<1>2. Inv /\ AttemptComing /\ [Next]_vars => AttemptComing'
  <2> DEFINE Coming == Running /\ connect_ /\ state_ = "kDisconnected"
                         => timers > 0 \/ StartQueued \/ gaveUp
  <2> SUFFICES ASSUME Inv, Coming, [Next]_vars
               PROVE  Coming'
    BY DEF AttemptComing, StartQueued, Holds
  <2>q. queue \in Seq(Functors) /\ timers \in Nat
    BY DEF Inv, TypeOK
  <2> USE DEF Running
  <2>1. CASE RunFunctor
    <3>1. /\ Head(queue) \in Functors
          /\ Head(queue) # "startInLoop" /\ Holds(queue, "startInLoop")
               => Holds(Tail(queue), "startInLoop")
      BY <2>1, <2>q, TailHolds DEF RunFunctor
    <3>2. CASE Head(queue) = "startInLoop"
      <4>1. startInLoop(connect_, timers) /\ connect_' = connect_
        BY <2>1, <3>2 DEF RunFunctor
      <4> QED BY <2>q, <4>1, ConnectComes DEF startInLoop
    <3>3. CASE Head(queue) = "stopInLoop"
      <4>1. stopInLoop(Tail(queue)) /\ UNCHANGED <<connect_, userPc>>
        BY <2>1, <3>3 DEF RunFunctor
      <4>2. CASE state_ = "kConnecting"
        BY <2>q, <4>1, <4>2 DEF stopInLoop, retry
      <4>3. CASE state_ # "kConnecting"
        <5>1. queue' = Tail(queue) /\ UNCHANGED <<timers, state_, gaveUp, failed>>
          BY <4>1, <4>3 DEF stopInLoop, attempt
        <5> QED BY <3>1, <3>3, <4>1, <5>1 DEF StartQueued
      <4> QED BY <4>2, <4>3
    <3>4. CASE Head(queue) = "resetChannel"
      <4>1. resetChannel /\ queue' = Tail(queue) /\ UNCHANGED <<connect_, userPc>>
        BY <2>1, <3>4 DEF RunFunctor
      <4>2. Running
        BY <2>1 DEF RunFunctor
      <4> QED BY <3>1, <3>4, <4>1, <4>2 DEF resetChannel, StartQueued
    <3> QED BY <3>1, <3>2, <3>3, <3>4 DEF Functors
  <2>2. CASE TimerFires
    <3>1. timers - 1 \in Nat
      BY <2>2, <2>q DEF TimerFires, Inv, TypeOK
    <3> QED BY <2>2, <3>1, ConnectComes DEF TimerFires, startInLoop
  <2>3. CASE HandleEvent
    <3>1. CASE state_ = "kConnecting"
      BY <2>3, <2>q, <3>1 DEF HandleEvent, retry
    <3>2. CASE state_ # "kConnecting"
      BY <2>3, <3>2 DEF HandleEvent, StartQueued
    <3> QED BY <3>1, <3>2
  <2>4. CASE \E outcome \in Outcomes : Poll(outcome)
    BY <2>4 DEF Poll, attempt, StartQueued
  <2>5. ASSUME NEW op \in LoopOps, LoopCall(op)
        PROVE  Coming'
    <3>1. op \in {"start", "stop", "restart"}
      BY ConnectorAssumption DEF Ops
    <3>2. CASE op = "start"
      BY <2>5, <2>q, <3>2, ConnectComes DEF LoopCall, startInLoop
    <3>3. CASE op = "stop"
      BY <2>5, <3>3 DEF LoopCall
    <3>4. CASE op = "restart"
      BY <2>5, <2>q, <3>4, ConnectComes DEF LoopCall
    <3> QED BY <3>1, <3>2, <3>3, <3>4
  <2>6. CASE \E op \in UserOps : UserCall(op)
    BY <2>6 DEF UserCall, attempt, StartQueued
  <2>7. CASE UserQueues
    <3>1. userPc \in Functors
      BY <2>7 DEF UserQueues, Inv, TypeOK, Functors
    <3>2. \A f : Holds(queue', f) <=> Holds(queue, f) \/ f = userPc
      BY <2>7, <2>q, <3>1, AppendHolds DEF UserQueues
    <3> QED BY <2>7, <3>2 DEF UserQueues, attempt, StartQueued
  <2>8. CASE UNCHANGED vars
    BY <2>8 DEF vars, attempt, StartQueued
  <2> QED BY <2>1, <2>2, <2>3, <2>4, <2>5, <2>6, <2>7, <2>8 DEF Next
<1> QED BY <1>1, <1>2, InvInit, InvStep, PTL DEF Spec
-----------------------------------------------------------------------------
(* What is true until a second start: an attempt has its own stretch of    *)
(* time.  The start is queued at most once and before anything else is     *)
(* there; a channel that was removed is the one that a single resetChannel *)
(* in the queue is about; at most one timer is set, only while             *)
(* disconnected, and it does not fire before resetChannel has run.         *)
StartIsFirst == StartQueued => /\ starts = 1
                               /\ timers = 0 /\ state_ = "kDisconnected" /\ channel_ = "none"

StartIsOne == /\ Once(queue, "startInLoop")
              /\ userPc = "startInLoop" => ~Holds(queue, "startInLoop")

ResetIsOne == /\ Once(queue, "resetChannel")
              /\ Holds(queue, "resetChannel") <=> channel_ = "removed"

TimerIsOne == /\ timers <= 1
              /\ timers = 1 => state_ = "kDisconnected"
              /\ channel_ = "removed" => fresh = timers

NotStarted == starts = 0 => timers = 0 /\ state_ = "kDisconnected" /\ channel_ = "none"

OneInv == /\ Running
          /\ channel_ = "added" <=> state_ = "kConnecting"
          /\ revents # "none" => channel_ = "added"
          /\ StartIsFirst /\ StartIsOne /\ ResetIsOne /\ TimerIsOne /\ NotStarted

(* connect() when nothing of an earlier attempt is left. *)
LEMMA ConnectAlone ==
    ASSUME Running, channel_ = "none", NEW delay, connect("kDisconnected", delay, 0)
    PROVE  /\ Running'
           /\ channel_' = "added" <=> state_' = "kConnecting"
           /\ channel_' # "removed"
           /\ timers' \in {0, 1} /\ (timers' = 1 => state_' = "kDisconnected")
<1>1. CASE connecting /\ timers' = 0
  BY <1>1 DEF connecting, Running
<1>2. CASE retry(TRUE, delay, 0) /\ UNCHANGED <<channel_, failed>>
  BY <1>2 DEF retry, Running
<1>3. CASE timers' = 0 /\ state_' = "kDisconnected" /\ UNCHANGED <<channel_, failed>>
  BY <1>3 DEF Running
<1> QED BY <1>1, <1>2, <1>3 DEF connect

(* A step that starts an attempt when nothing of an earlier one is left    *)
(* and no other start is queued, and leaves the removed channel's functor  *)
(* out of it.                                                              *)
LEMMA AttemptKeeps ==
    ASSUME Inv, Running, channel_ = "none", NEW delay, connect("kDisconnected", delay, 0),
           revents = "none", revents' = "none", starts' = 1,
           ~StartQueued', Once(queue', "startInLoop"),
           ~Holds(queue', "resetChannel"), Once(queue', "resetChannel")
    PROVE  OneInv'
<1>1. /\ Running'
      /\ channel_' = "added" <=> state_' = "kConnecting"
      /\ channel_' # "removed"
      /\ timers' \in {0, 1} /\ (timers' = 1 => state_' = "kDisconnected")
  BY ConnectAlone
<1>2. StartIsFirst' /\ StartIsOne'
  BY DEF StartIsFirst, StartIsOne, StartQueued
<1>3. ResetIsOne' /\ TimerIsOne' /\ NotStarted'
  BY <1>1 DEF ResetIsOne, TimerIsOne, NotStarted
<1> QED BY <1>1, <1>2, <1>3 DEF OneInv

(* Every step but a second start keeps OneInv. *)
LEMMA OneInvStep ==
    ASSUME Inv, OneInv, [Next]_vars, starts <= 1, starts' <= 1
    PROVE  OneInv'
<1>q. /\ queue \in Seq(Functors) /\ timers \in Nat /\ fresh \in 0..timers /\ starts \in Nat
      /\ userPc \in {"none", "startInLoop", "stopInLoop"}
  BY DEF Inv, TypeOK
<1> USE DEF Running
<1>1. CASE RunFunctor
  <2>0. queue # <<>> /\ revents = "none" /\ UNCHANGED <<connect_, revents, userPc, starts>>
    BY <1>1 DEF RunFunctor
  <2>1. /\ Head(queue) \in Functors /\ Tail(queue) \in Seq(Functors)
        /\ Holds(queue, Head(queue))
        /\ \A f : Holds(Tail(queue), f) => Holds(queue, f)
        /\ \A f : f # Head(queue) /\ Holds(queue, f) => Holds(Tail(queue), f)
        /\ \A f : Once(queue, f) => Once(Tail(queue), f)
        /\ Once(queue, Head(queue)) => ~Holds(Tail(queue), Head(queue))
    BY <2>0, <1>q, TailHolds
  <2>2. CASE Head(queue) = "startInLoop"
    <3>1. startInLoop(connect_, timers) /\ queue' = Tail(queue) /\ fresh' = fresh
      BY <1>1, <2>2 DEF RunFunctor
    <3>2. /\ starts = 1 /\ timers = 0 /\ state_ = "kDisconnected" /\ channel_ = "none"
          /\ Once(queue, "startInLoop") /\ userPc # "startInLoop"
          /\ ~Holds(queue, "resetChannel") /\ Once(queue, "resetChannel")
      BY <2>1, <2>2 DEF OneInv, StartIsFirst, StartIsOne, ResetIsOne, StartQueued
    <3>3. /\ ~StartQueued' /\ Once(queue', "startInLoop")
          /\ ~Holds(queue', "resetChannel") /\ Once(queue', "resetChannel")
      BY <2>0, <2>1, <2>2, <3>1, <3>2 DEF StartQueued
    <3>4. CASE connect_
      <4>1. connect("kDisconnected", retryDelayMs_, 0)
        BY <3>1, <3>2, <3>4 DEF startInLoop
      <4> QED BY <2>0, <3>2, <3>3, <4>1, AttemptKeeps DEF OneInv
    <3>5. CASE ~connect_
      <4>1. timers' = 0 /\ UNCHANGED <<state_, channel_, failed>>
        BY <3>1, <3>2, <3>5 DEF startInLoop, attempt
      <4>2. StartIsFirst' /\ StartIsOne' /\ ResetIsOne' /\ TimerIsOne' /\ NotStarted'
        BY <3>2, <3>3, <4>1
           DEF StartIsFirst, StartIsOne, StartQueued, ResetIsOne, TimerIsOne, NotStarted
      <4>3. Running' /\ (channel_' = "added" <=> state_' = "kConnecting") /\ revents' = "none"
        BY <2>0, <3>2, <4>1 DEF OneInv
      <4> QED BY <4>2, <4>3 DEF OneInv
    <3> QED BY <3>4, <3>5
  <2>3. CASE Head(queue) = "stopInLoop"
    <3>1. stopInLoop(Tail(queue)) /\ fresh' = fresh + (timers' - timers)
      BY <1>1, <2>3 DEF RunFunctor
    <3>2. CASE state_ = "kConnecting"
      <4>1. /\ queue' = Append(Tail(queue), "resetChannel") /\ channel_' = "removed"
            /\ state_' = "kDisconnected" /\ timers' \in {timers, timers + 1}
            /\ failed' = failed
        BY <3>1, <3>2 DEF stopInLoop, removeAndResetChannel, retry
      <4>2. /\ timers = 0 /\ ~StartQueued /\ channel_ = "added" /\ starts = 1
            /\ ~Holds(queue, "resetChannel")
            /\ Once(queue, "resetChannel") /\ Once(queue, "startInLoop")
        BY <1>q, <3>2 DEF OneInv, StartIsFirst, StartIsOne, ResetIsOne, TimerIsOne, NotStarted
      <4>3. /\ \A f : Holds(queue', f) <=> Holds(Tail(queue), f) \/ f = "resetChannel"
            /\ Once(queue', "resetChannel") /\ Once(queue', "startInLoop")
        <5>1. /\ Once(Tail(queue), "resetChannel") /\ Once(Tail(queue), "startInLoop")
              /\ ~Holds(Tail(queue), "resetChannel")
          BY <2>1, <4>2
        <5>2. "resetChannel" \in Functors
          BY DEF Functors
        <5> DEFINE q == Tail(queue)
        <5>3. q \in Seq(Functors)
          BY <2>1
        <5> HIDE DEF q
        <5>4. /\ \A f : Holds(Append(q, "resetChannel"), f) <=> Holds(q, f) \/ f = "resetChannel"
              /\ \A f : Once(q, f) /\ (f = "resetChannel" => ~Holds(q, f))
                         => Once(Append(q, "resetChannel"), f)
          BY <5>2, <5>3, AppendHolds
        <5> QED BY <4>1, <5>1, <5>4 DEF q
      <4>4. ~StartQueued'
        <5>1. ~Holds(Tail(queue), "startInLoop") /\ userPc' # "startInLoop"
          BY <2>0, <2>1, <4>2 DEF StartQueued
        <5> QED BY <4>3, <5>1 DEF StartQueued
      <4>5. timers' \in {0, 1} /\ fresh' = timers'
        <5>1. timers' \in {0, 1} /\ timers = 0 /\ fresh = 0
          BY <1>q, <4>1, <4>2
        <5>2. fresh' = fresh + (timers' - timers)
          BY <3>1
        <5>3. CASE timers' = 0
          BY <5>1, <5>2, <5>3
        <5>4. CASE timers' = 1
          BY <5>1, <5>2, <5>4
        <5> QED BY <5>1, <5>3, <5>4
      <4>6. StartIsFirst' /\ StartIsOne' /\ ResetIsOne' /\ TimerIsOne' /\ NotStarted'
        BY <2>0, <4>1, <4>2, <4>3, <4>4, <4>5
           DEF StartIsFirst, StartIsOne, StartQueued, ResetIsOne, TimerIsOne, NotStarted
      <4> QED BY <2>0, <4>1, <4>6 DEF OneInv
    <3>3. CASE state_ # "kConnecting"
      <4>1. /\ queue' = Tail(queue) /\ UNCHANGED <<timers, state_, channel_, failed>>
            /\ fresh' = fresh
        BY <1>q, <3>1, <3>3 DEF stopInLoop, attempt
      <4>2. StartIsFirst' /\ StartIsOne'
        BY <2>0, <2>1, <4>1 DEF OneInv, StartIsFirst, StartIsOne, StartQueued
      <4>3. ResetIsOne' /\ TimerIsOne' /\ NotStarted'
        BY <2>0, <2>1, <2>3, <4>1 DEF OneInv, ResetIsOne, TimerIsOne, NotStarted
      <4> QED BY <2>0, <4>1, <4>2, <4>3 DEF OneInv
    <3> QED BY <3>2, <3>3
  <2>4. CASE Head(queue) = "resetChannel"
    <3>1. /\ channel_ = "removed" /\ Once(queue, "resetChannel")
      BY <2>1, <2>4 DEF OneInv, ResetIsOne
    <3>2. /\ queue' = Tail(queue) /\ channel_' = "none"
          /\ UNCHANGED <<failed, state_, timers>>
      BY <1>1, <2>4, <3>1 DEF RunFunctor, resetChannel
    <3>3. StartIsFirst' /\ StartIsOne'
      BY <2>0, <2>1, <3>2 DEF OneInv, StartIsFirst, StartIsOne, StartQueued
    <3>4. ResetIsOne' /\ TimerIsOne' /\ NotStarted'
      BY <2>0, <2>1, <2>4, <3>1, <3>2 DEF OneInv, ResetIsOne, TimerIsOne, NotStarted
    <3> QED BY <2>0, <3>1, <3>2, <3>3, <3>4 DEF OneInv
  <2> QED BY <2>1, <2>2, <2>3, <2>4 DEF Functors
<1>2. CASE TimerFires
  <2>0. UNCHANGED <<connect_, revents, queue, fresh, userPc, starts>>
    BY <1>2 DEF TimerFires
  <2>1. timers = 1 /\ fresh = 0
    BY <1>2, <1>q DEF TimerFires, OneInv, TimerIsOne
  <2>2. /\ state_ = "kDisconnected" /\ channel_ = "none" /\ revents = "none"
        /\ starts = 1 /\ ~StartQueued
        /\ ~Holds(queue, "resetChannel") /\ Once(queue, "resetChannel")
        /\ Once(queue, "startInLoop")
    BY <2>1, <1>q DEF Inv, TypeOK, OneInv, StartIsFirst, StartIsOne, ResetIsOne, TimerIsOne,
                      NotStarted
  <2>3. ~StartQueued'
    BY <2>0, <2>2 DEF StartQueued
  <2>4. startInLoop(connect_, 0)
    BY <1>2, <2>1 DEF TimerFires
  <2>5. CASE connect_
    <3>1. connect("kDisconnected", retryDelayMs_, 0)
      BY <2>2, <2>4, <2>5 DEF startInLoop
    <3> QED BY <2>0, <2>2, <2>3, <3>1, AttemptKeeps DEF OneInv
  <2>6. CASE ~connect_
    <3>1. timers' = 0 /\ UNCHANGED <<state_, channel_, failed>>
      BY <2>4, <2>6 DEF startInLoop, attempt
    <3>2. StartIsFirst' /\ StartIsOne' /\ ResetIsOne' /\ TimerIsOne' /\ NotStarted'
      BY <2>0, <2>2, <2>3, <3>1
         DEF StartIsFirst, StartIsOne, StartQueued, ResetIsOne, TimerIsOne, NotStarted
    <3> QED BY <2>0, <3>1, <3>2 DEF OneInv
  <2> QED BY <2>5, <2>6
<1>3. CASE HandleEvent
  <2>0. revents # "none" /\ revents' = "none" /\ UNCHANGED <<userPc, starts>>
    BY <1>3 DEF HandleEvent
  <2>1. channel_ = "added" /\ state_ = "kConnecting"
    BY <2>0 DEF OneInv
  <2>2. /\ timers = 0 /\ ~StartQueued /\ starts = 1
        /\ ~Holds(queue, "resetChannel")
        /\ Once(queue, "resetChannel") /\ Once(queue, "startInLoop")
    BY <1>q, <2>1 DEF OneInv, StartIsFirst, StartIsOne, ResetIsOne, TimerIsOne, NotStarted
  <2>3. /\ queue' = Append(queue, "resetChannel") /\ channel_' = "removed"
        /\ failed' = failed /\ fresh' = fresh + (timers' - timers)
    BY <1>3, <2>1 DEF HandleEvent, removeAndResetChannel
  <2>4. \/ state_' = "kConnected" /\ timers' = 0
        \/ state_' = "kDisconnected" /\ timers' \in {0, 1}
    BY <1>3, <2>1, <2>2 DEF HandleEvent, retry
  <2>5. /\ \A f : Holds(queue', f) <=> Holds(queue, f) \/ f = "resetChannel"
        /\ Once(queue', "resetChannel") /\ Once(queue', "startInLoop")
    BY <1>q, <2>2, <2>3, AppendHolds DEF Functors
  <2>6. ~StartQueued'
    BY <2>0, <2>2, <2>5 DEF StartQueued
  <2>7. timers' \in {0, 1} /\ fresh' = timers'
    BY <1>q, <2>2, <2>3, <2>4
  <2>8. StartIsFirst' /\ StartIsOne' /\ ResetIsOne' /\ TimerIsOne' /\ NotStarted'
    BY <2>0, <2>2, <2>3, <2>4, <2>5, <2>6, <2>7
       DEF StartIsFirst, StartIsOne, StartQueued, ResetIsOne, TimerIsOne, NotStarted
  <2> QED BY <2>0, <2>3, <2>4, <2>8 DEF OneInv
<1>4. CASE \E outcome \in Outcomes : Poll(outcome)
  <2>1. /\ channel_ = "added"
        /\ UNCHANGED <<state_, channel_, failed, queue, timers, fresh, userPc, starts>>
    BY <1>4 DEF Poll, attempt
  <2> QED BY <2>1 DEF OneInv, StartIsFirst, StartIsOne, StartQueued, ResetIsOne, TimerIsOne,
                      NotStarted
<1>5. ASSUME NEW op \in LoopOps, LoopCall(op)
      PROVE  OneInv'
  <2>0. UNCHANGED <<revents, fresh, userPc>>
    BY <1>5 DEF LoopCall
  <2>1. CASE op # "stop"
    <3>1. starts = 0 /\ starts' = 1
      BY <1>5, <1>q, <2>1 DEF LoopCall
    <3>2. /\ timers = 0 /\ state_ = "kDisconnected" /\ channel_ = "none" /\ ~StartQueued
          /\ ~Holds(queue, "resetChannel") /\ Once(queue, "resetChannel")
          /\ Once(queue, "startInLoop") /\ revents = "none"
      BY <3>1 DEF OneInv, NotStarted, StartIsFirst, StartIsOne, ResetIsOne
    <3>3. op \in {"start", "restart"}
      BY <2>1, ConnectorAssumption DEF Ops
    <3>4. \E delay : connect("kDisconnected", delay, 0) /\ queue' = queue
      <4>1. CASE op = "start"
        BY <1>5, <3>2, <4>1 DEF LoopCall, startInLoop
      <4>2. CASE op = "restart"
        BY <1>5, <3>2, <4>2 DEF LoopCall
      <4> QED BY <3>3, <4>1, <4>2
    <3>5. ~StartQueued'
      BY <2>0, <3>2, <3>4 DEF StartQueued
    <3> QED BY <2>0, <3>1, <3>2, <3>4, <3>5, AttemptKeeps DEF OneInv
  <2>2. CASE op = "stop"
    <3>1. /\ queue' = Append(queue, "stopInLoop")
          /\ UNCHANGED <<state_, channel_, failed, timers, starts>>
      BY <1>5, <2>2 DEF LoopCall, attempt
    <3>2. /\ \A f : Holds(queue', f) <=> Holds(queue, f) \/ f = "stopInLoop"
          /\ Once(queue, "resetChannel") => Once(queue', "resetChannel")
          /\ Once(queue, "startInLoop") => Once(queue', "startInLoop")
      BY <1>q, <3>1, AppendHolds DEF Functors
    <3> QED BY <2>0, <3>1, <3>2
            DEF OneInv, StartIsFirst, StartIsOne, StartQueued, ResetIsOne, TimerIsOne, NotStarted
  <2> QED BY <2>1, <2>2
<1>6. ASSUME NEW op \in UserOps, UserCall(op)
      PROVE  OneInv'
  <2>0. /\ userPc = "none"
        /\ UNCHANGED <<state_, channel_, failed, revents, queue, timers, fresh>>
    BY <1>6 DEF UserCall, attempt
  <2>1. CASE op = "start"
    <3>1. starts = 0 /\ starts' = 1
      BY <1>6, <1>q, <2>1 DEF UserCall
    <3>2. /\ timers = 0 /\ state_ = "kDisconnected" /\ channel_ = "none" /\ ~StartQueued
      BY <3>1 DEF OneInv, NotStarted, StartIsFirst
    <3> QED BY <2>0, <3>1, <3>2
            DEF OneInv, StartIsFirst, StartIsOne, StartQueued, ResetIsOne, TimerIsOne, NotStarted
  <2>2. CASE op # "start"
    <3>1. userPc' = "stopInLoop" /\ starts' = starts
      BY <1>6, <2>2 DEF UserCall
    <3> QED BY <2>0, <3>1
            DEF OneInv, StartIsFirst, StartIsOne, StartQueued, ResetIsOne, TimerIsOne, NotStarted
  <2> QED BY <2>1, <2>2
<1>7. CASE UserQueues
  <2>1. /\ userPc \in {"startInLoop", "stopInLoop"} /\ userPc' = "none"
        /\ queue' = Append(queue, userPc)
        /\ UNCHANGED <<state_, channel_, failed, revents, timers, fresh, starts>>
    BY <1>7, <1>q DEF UserQueues, attempt
  <2>2. /\ \A f : Holds(queue', f) <=> Holds(queue, f) \/ f = userPc
        /\ Once(queue, "resetChannel") => Once(queue', "resetChannel")
        /\ Once(queue, "startInLoop") /\ (userPc = "startInLoop" => ~Holds(queue, "startInLoop"))
             => Once(queue', "startInLoop")
    BY <1>q, <2>1, AppendHolds DEF Functors
  <2> QED BY <2>1, <2>2
          DEF OneInv, StartIsFirst, StartIsOne, StartQueued, ResetIsOne, TimerIsOne, NotStarted
<1>8. CASE UNCHANGED vars
  BY <1>8 DEF vars, attempt, OneInv, StartIsFirst, StartIsOne, StartQueued, ResetIsOne,
              TimerIsOne, NotStarted
<1> QED BY <1>1, <1>2, <1>3, <1>4, <1>5, <1>6, <1>7, <1>8 DEF Next

(* A connector that is started once, and stopped at any time from any      *)
(* thread, fails no assert of connecting, handleWrite or ~Channel, and its *)
(* channel is in the loop exactly while it is connecting.                  *)
THEOREM OneAttemptAtATime == Spec => []OneAttempt
<1> DEFINE One == starts <= 1 => OneInv
<1>1. Init => One
  BY DEF Init, OneInv, Running, StartIsFirst, StartIsOne, StartQueued, ResetIsOne, TimerIsOne,
         NotStarted, Holds, Once
<1>2. Inv /\ One /\ [Next]_vars => One'
  <2> SUFFICES ASSUME Inv, One, [Next]_vars, starts' <= 1
               PROVE  OneInv'
    OBVIOUS
  <2>1. starts' \in {starts, starts + 1}
    BY DEF Next, vars, RunFunctor, TimerFires, HandleEvent, Poll, LoopCall, UserCall, UserQueues
  <2>2. starts <= 1
    BY <2>1 DEF Inv, TypeOK
  <2> QED BY <2>2, OneInvStep
<1>3. One => OneAttempt
  BY DEF OneInv, OneAttempt
<1> QED BY <1>1, <1>2, <1>3, InvInit, InvStep, PTL DEF Spec
-----------------------------------------------------------------------------
(* The client that owns the connector: module TcpClient. *)

VARIABLES client, connection_, conn, userRef, removeTimer

TC == INSTANCE TcpClient

Queued == {"stopInLoop", "resetChannel"} \cup TC!Holding

ClientTyped ==
    /\ queue \in Seq(Queued)
    /\ connect_ \in BOOLEAN /\ established \in Nat
    /\ state_ \in {"kDisconnected", "kConnecting", "kConnected"}
    /\ channel_ \in {"none", "added", "removed"}
    /\ timers \in {0, 1} /\ fresh \in 0..timers /\ starts \in {0, 1}
    /\ client \in {"alive", "dead"} /\ conn \in TC!Connections
    /\ connection_ \in BOOLEAN /\ userRef \in BOOLEAN /\ removeTimer \in BOOLEAN
    /\ unsafe \in BOOLEAN /\ shared \in BOOLEAN

(* The connector of a client, which starts it once and in the loop: it     *)
(* fails no assert, resetChannel is queued exactly while a removed channel *)
(* waits for it, and a retry timer only exists between two attempts.       *)
ClientAttempt ==
    /\ failed = "none"
    /\ channel_ = "added" <=> state_ = "kConnecting"
    /\ revents # "none" => channel_ = "added"
    /\ channel_ = "removed" <=> Holds(queue, "resetChannel")
    /\ Once(queue, "resetChannel")
    /\ timers # 0 => state_ = "kDisconnected" /\ (channel_ = "removed" => fresh = timers)
    /\ starts = 0 => state_ = "kDisconnected" /\ channel_ = "none" /\ timers = 0

(* Who points to the connection: while it is open a client that is alive   *)
(* does; one that is dead is no longer in its closeCallback_, and has left *)
(* it to a queued forceCloseInLoop or to user code.                        *)
Pointers ==
    /\ conn.state # "none" => state_ = "kConnected"
    /\ connection_ => client = "alive" /\ conn.state # "none"
    /\ conn.state \in TC!Open => IF client = "alive" THEN connection_ ELSE conn.close = "sockets"
    /\ conn.state \in TC!Open /\ ~shared => connection_ \/ Holds(queue, "forceCloseInLoop")
    /\ Holds(queue, "connectDestroyed") => conn.state # "none"

(* What the destructor leaves to the loop: a connector that will not call  *)
(* back, with stopInLoop to come while it still connects, and that its     *)
(* timer holds as long as there is a channel or a functor bound to it.     *)
Destructing ==
    /\ removeTimer => client = "dead"
    /\ client = "dead" =>
         /\ state_ = "kConnected" \/ ~connect_
         /\ channel_ = "added" => Holds(queue, "stopInLoop")
         /\ removeTimer \/ unsafe \/ (channel_ = "none" /\ ~Holds(queue, "stopInLoop"))

Life == ClientTyped /\ ClientAttempt /\ Pointers /\ Destructing

(* The elements of a queue are what it holds. *)
LEMMA ToSetHolds ==
    ASSUME NEW q, NEW F
    PROVE  TC!ToSet(q) \cap F # {} <=> \E f \in F : Holds(q, f)
BY DEF TC!ToSet, Holds

(* Which functors RawPending and Unique look for. *)
LEMMA PendingHolds ==
    ASSUME ClientTyped
    PROVE  /\ TC!RawPending <=> Holds(queue, "stopInLoop") \/ Holds(queue, "resetChannel")
           /\ TC!Unique <=> /\ ~userRef /\ ~Holds(queue, "forceCloseInLoop")
                            /\ ~Holds(queue, "connectDestroyed")
<1>1. ~Holds(queue, "startInLoop")
  <2>1. \A i \in DOMAIN queue : queue[i] \in Queued
    BY DEF ClientTyped
  <2> QED BY <2>1 DEF Holds, Queued, TC!Holding
<1>2. TC!RawPending <=> \E f \in TC!C!Functors : Holds(queue, f)
  BY ToSetHolds DEF TC!RawPending
<1>3. TC!Unique <=> ~userRef /\ ~\E f \in TC!Holding : Holds(queue, f)
  BY ToSetHolds DEF TC!Unique
<1> QED BY <1>1, <1>2, <1>3 DEF TC!C!Functors, TC!Holding

(* A step that ends with the destructors of what nobody points to any more *)
(* finds the Connector without a channel and the connection closed, unless *)
(* user code had the last pointer to it.                                   *)
LEMMA DestructorsFind ==
    ASSUME Life', died' = TC!Destructed,
           unsafe' \/ ~(TC!ConnectorAlive /\ ~TC!ConnectorAlive' /\ channel_' # "none")
    PROVE  NothingCallsTheDead'
<1>1. CASE unsafe'
  BY <1>1 DEF NothingCallsTheDead
<1>2. CASE ~(TC!ConnectorAlive /\ ~TC!ConnectorAlive' /\ channel_' # "none")
  <2>1. (TC!ToSet(queue') \cap TC!Holding # {}) <=> \E f \in TC!Holding : Holds(queue', f)
    BY ToSetHolds
  <2>2. conn'.state \in {"none", "kConnected", "kDisconnecting", "kDisconnected"}
    BY DEF Life, ClientTyped, TC!Connections
  <2>3. CASE conn'.state \in TC!Open
    <3>1. shared' \/ connection_' \/ Holds(queue', "forceCloseInLoop")
      BY <2>3 DEF Life, Pointers
    <3>2. CASE shared'
      BY <1>2, <2>2, <3>2 DEF TC!Destructed, NothingCallsTheDead
    <3>3. CASE connection_' \/ Holds(queue', "forceCloseInLoop")
      BY <1>2, <2>1, <3>3 DEF TC!Destructed, NothingCallsTheDead, TC!Holding
    <3> QED BY <3>1, <3>2, <3>3
  <2>4. CASE conn'.state \notin TC!Open
    BY <1>2, <2>2, <2>4 DEF TC!Destructed, NothingCallsTheDead, TC!Open
  <2> QED BY <2>3, <2>4
<1> QED BY <1>1, <1>2

(* The closeCallback_ of an open connection finds its client, and the      *)
(* client its connection_.                                                 *)
LEMMA CloseFindsClient ==
    ASSUME Life, conn.state \in TC!Open
    PROVE  TC!Closed = TC!Destructed
BY DEF Life, Pointers, ClientTyped, TC!Closed

(* A step of the client that leaves the connector and the queue alone. *)
LEMMA ConnectorRests ==
    ASSUME Life, UNCHANGED <<state_, channel_, revents, queue, timers, fresh, starts, failed>>
    PROVE  ClientAttempt'
BY DEF Life, ClientAttempt

(* Queueing and running functors that are not resetChannel leave it as it  *)
(* was.                                                                    *)
LEMMA ResetKept ==
    ASSUME Life, queue' \in Seq(Queued),
           Holds(queue', "resetChannel") <=> Holds(queue, "resetChannel"),
           Once(queue', "resetChannel"),
           UNCHANGED <<state_, channel_, revents, timers, fresh, starts, failed>>
    PROVE  ClientAttempt'
BY DEF Life, ClientAttempt

(* handleClose closes the connection and queues at most connectDestroyed   *)
(* behind the functors that are left.                                      *)
LEMMA CloseKeepsLife ==
    ASSUME Life, conn.state \in TC!Open, NEW functors \in Seq(Queued),
           Holds(functors, "stopInLoop") <=> Holds(queue, "stopInLoop"),
           Holds(functors, "resetChannel") <=> Holds(queue, "resetChannel"),
           Once(functors, "resetChannel"),
           TC!handleClose(functors),
           UNCHANGED <<connect_, state_, channel_, revents, timers, fresh, established, starts,
                       failed, client, userRef, removeTimer, unsafe, shared>>
    PROVE  Life'
<1>1. /\ conn' \in TC!Connections /\ conn'.state = "kDisconnected"
      /\ connection_' \in BOOLEAN /\ (connection_' => connection_)
  <2>1. conn \in TC!Connections /\ connection_ \in BOOLEAN
    BY DEF Life, ClientTyped
  <2>2. conn' = [conn EXCEPT !.state = "kDisconnected"]
    BY DEF TC!handleClose
  <2>3. connection_' = FALSE \/ connection_' = connection_
    BY DEF TC!handleClose, TC!removeConnection, TC!removeConnectionLater
  <2>4. conn' \in TC!Connections /\ conn'.state = "kDisconnected"
    BY <2>1, <2>2 DEF TC!Connections
  <2>5. connection_' \in BOOLEAN /\ (connection_' => connection_)
    <3>1. CASE connection_' = FALSE
      BY <3>1
    <3>2. CASE connection_' = connection_
      BY <2>1, <3>2
    <3> QED BY <2>3, <3>1, <3>2
  <2> QED BY <2>4, <2>5
<1>2. /\ queue' \in Seq(Queued) /\ Once(queue', "resetChannel")
      /\ Holds(queue', "stopInLoop") <=> Holds(queue, "stopInLoop")
      /\ Holds(queue', "resetChannel") <=> Holds(queue, "resetChannel")
  <2>1. CASE queue' = functors
    BY <2>1
  <2>2. CASE queue' = Append(functors, "connectDestroyed")
    <3>1. "connectDestroyed" \in Queued
      BY DEF Queued, TC!Holding
    <3> QED BY <2>2, <3>1, AppendHolds
  <2> QED BY <2>1, <2>2 DEF TC!handleClose, TC!removeConnection, TC!removeConnectionLater
<1>3. ClientTyped'
  BY <1>1, <1>2 DEF Life, ClientTyped
<1>4. ClientAttempt'
  BY <1>2, ResetKept
<1>5. Pointers' /\ Destructing'
  BY <1>1, <1>2 DEF Life, ClientTyped, Pointers, Destructing, TC!Open
<1> QED BY <1>3, <1>4, <1>5 DEF Life

(* The peer closes the connection. *)
LEMMA ConnectionEndsSafely ==
    ASSUME Life, TC!ConnectionEnds
    PROVE  Life' /\ NothingCallsTheDead'
<1>1. Life'
  <2>1. queue \in Seq(Queued) /\ Once(queue, "resetChannel")
    BY DEF Life, ClientTyped, ClientAttempt
  <2> QED BY <2>1, CloseKeepsLife DEF TC!ConnectionEnds
<1>2. died' = TC!Destructed
  BY CloseFindsClient DEF TC!ConnectionEnds
<1> QED BY <1>1, <1>2, DestructorsFind DEF TC!ConnectionEnds, TC!ConnectorAlive

(* forceCloseInLoop and connectDestroyed run in the loop. *)
LEMMA ConnectionFunctorSafe ==
    ASSUME Life, TC!RunConnectionFunctor
    PROVE  Life' /\ NothingCallsTheDead'
<1>1. /\ queue \in Seq(Queued) /\ queue # <<>> /\ Once(queue, "resetChannel")
      /\ Head(queue) \in {"forceCloseInLoop", "connectDestroyed"}
      /\ UNCHANGED <<connect_, state_, channel_, revents, timers, fresh, established, starts,
                     failed, client, userRef, removeTimer, unsafe, shared>>
  BY DEF Life, ClientTyped, ClientAttempt, TC!RunConnectionFunctor, TC!Holding
<1>2. /\ Tail(queue) \in Seq(Queued) /\ Once(Tail(queue), "resetChannel")
      /\ Holds(Tail(queue), "stopInLoop") <=> Holds(queue, "stopInLoop")
      /\ Holds(Tail(queue), "resetChannel") <=> Holds(queue, "resetChannel")
      /\ Holds(Tail(queue), "connectDestroyed") => Holds(queue, "connectDestroyed")
      /\ Head(queue) # "forceCloseInLoop"
           => (Holds(Tail(queue), "forceCloseInLoop") <=> Holds(queue, "forceCloseInLoop"))
  BY <1>1, TailHolds
<1>3. ~(TC!ConnectorAlive /\ ~TC!ConnectorAlive')
  BY <1>1 DEF TC!ConnectorAlive
<1>4. CASE Head(queue) = "forceCloseInLoop" /\ conn.state \in TC!Open
  <2>1. Life'
    BY <1>1, <1>2, <1>4, CloseKeepsLife DEF TC!RunConnectionFunctor
  <2>2. died' = TC!Destructed
    BY <1>4, CloseFindsClient DEF TC!RunConnectionFunctor
  <2> QED BY <1>3, <2>1, <2>2, DestructorsFind
<1>5. CASE ~(Head(queue) = "forceCloseInLoop" /\ conn.state \in TC!Open)
  <2>1. /\ conn' = IF Head(queue) = "connectDestroyed"
                   THEN [conn EXCEPT !.state = "kDisconnected", !.added = FALSE] ELSE conn
        /\ queue' = Tail(queue) /\ connection_' = connection_ /\ died' = TC!Destructed
    BY <1>5 DEF TC!RunConnectionFunctor
  <2>2. /\ conn' \in TC!Connections /\ conn'.state \notin TC!Open
        /\ conn'.state = "none" => conn.state = "none"
        /\ conn.state = "none" => conn'.state = "none"
    <3>1. Head(queue) = "connectDestroyed" => conn.state # "none"
      BY <1>1, TailHolds DEF Life, Pointers
    <3> QED BY <1>1, <1>5, <2>1, <3>1 DEF Life, ClientTyped, TC!Connections, TC!Open
  <2>3. ClientTyped'
    BY <1>1, <1>2, <2>1, <2>2 DEF Life, ClientTyped
  <2>4. ClientAttempt'
    BY <1>1, <1>2, <2>1, ResetKept
  <2>5. Pointers'
    BY <1>1, <1>2, <2>1, <2>2 DEF Life, ClientTyped, Pointers
  <2>6. Destructing'
    BY <1>1, <1>2, <2>1 DEF Life, ClientTyped, Destructing
  <2>7. Life'
    BY <2>3, <2>4, <2>5, <2>6 DEF Life
  <2> QED BY <1>3, <2>1, <2>7, DestructorsFind
<1> QED BY <1>4, <1>5

(* User code takes a pointer to the connection, or lets go of the one it   *)
(* has.                                                                    *)
LEMMA UserRefSafe ==
    ASSUME Life, TC!GetRef \/ TC!DropRef
    PROVE  Life' /\ NothingCallsTheDead'
<1>1. /\ userRef' \in BOOLEAN
      /\ UNCHANGED <<connect_, state_, channel_, revents, queue, timers, fresh, established,
                     starts, failed, client, connection_, conn, removeTimer, unsafe, shared>>
  BY DEF TC!GetRef, TC!DropRef, TC!connector
<1>2. ClientTyped'
  BY <1>1 DEF Life, ClientTyped
<1>3. Pointers' /\ Destructing'
  BY <1>1 DEF Life, Pointers, Destructing
<1>4. Life'
  BY <1>1, <1>2, <1>3, ConnectorRests DEF Life
<1>5. CASE TC!GetRef
  BY <1>4, <1>5 DEF TC!GetRef, TC!connector, TC!Running, NothingCallsTheDead
<1>6. CASE TC!DropRef
  BY <1>1, <1>4, <1>6, DestructorsFind DEF TC!DropRef, TC!ConnectorAlive
<1> QED BY <1>4, <1>5, <1>6

(* An event of the connecting socket: the connection comes up only while   *)
(* the client is alive, for a client that is dead has cleared connect_.    *)
LEMMA ConnectorEventSafe ==
    ASSUME Life, TC!ConnectorEvent
    PROVE  Life' /\ NothingCallsTheDead'
<1>1. /\ state_ = "kConnecting" /\ channel_ = "added" /\ timers = 0 /\ fresh = 0
      /\ starts = 1 /\ conn.state = "none" /\ connection_ = FALSE /\ died = "none"
      /\ queue \in Seq(Queued) /\ Once(queue, "resetChannel") /\ ~Holds(queue, "resetChannel")
      /\ ~Holds(queue, "connectDestroyed")
      /\ client = "dead" => ~connect_ /\ (removeTimer \/ unsafe)
  BY DEF Life, ClientTyped, ClientAttempt, Pointers, Destructing, TC!ConnectorEvent,
         TC!C!HandleEvent, TC!Running
<1>2. /\ queue' = Append(queue, "resetChannel") /\ channel_' = "removed" /\ revents' = "none"
      /\ UNCHANGED <<failed, connect_, starts, client, userRef, removeTimer, unsafe, shared>>
      /\ fresh' = fresh + (timers' - timers)
  BY <1>1 DEF TC!ConnectorEvent, TC!C!HandleEvent, TC!C!removeAndResetChannel
<1>3. \/ state_' = "kConnected" /\ timers' = 0
         /\ established' = IF connect_ THEN established + 1 ELSE established
      \/ state_' = "kDisconnected" /\ timers' \in {0, 1} /\ established' = established
  BY <1>1 DEF TC!ConnectorEvent, TC!C!HandleEvent, TC!C!retry
<1>4. /\ queue' \in Seq(Queued) /\ Once(queue', "resetChannel")
      /\ Holds(queue', "resetChannel") /\ ~Holds(queue', "connectDestroyed")
  BY <1>1, <1>2, AppendHolds DEF Queued
<1>5. ClientAttempt'
  BY <1>1, <1>2, <1>3, <1>4 DEF Life, ClientAttempt
<1>6. Destructing'
  BY <1>1, <1>2, <1>3 DEF Life, Destructing
<1>7. established' \in Nat /\ timers' \in {0, 1} /\ fresh' \in 0..timers'
  BY <1>1, <1>2, <1>3 DEF Life, ClientTyped
<1>8. CASE established' > established
  <2>1. connect_ /\ state_' = "kConnected" /\ client = "alive"
    BY <1>1, <1>3, <1>8 DEF Life, ClientTyped
  <2>2. /\ conn' = [state |-> "kConnected", added |-> TRUE, close |-> "client"]
        /\ connection_' = TRUE /\ died' = "none"
    BY <1>1, <1>8, <2>1 DEF TC!ConnectorEvent, TC!NewConnection
  <2>3. ClientTyped'
    BY <1>2, <1>3, <1>4, <1>7, <2>2 DEF Life, ClientTyped, TC!Connections
  <2>4. Pointers'
    BY <1>2, <2>1, <2>2 DEF Pointers
  <2> QED BY <1>5, <1>6, <2>2, <2>3, <2>4 DEF Life, NothingCallsTheDead
<1>9. CASE ~(established' > established)
  <2>1. UNCHANGED <<conn, connection_, died>>
    BY <1>9 DEF TC!ConnectorEvent
  <2>2. ClientTyped'
    BY <1>2, <1>3, <1>4, <1>7, <2>1 DEF Life, ClientTyped
  <2>3. Pointers'
    BY <1>1, <1>2, <1>4, <2>1 DEF Pointers, TC!Open
  <2> QED BY <1>1, <1>5, <1>6, <2>1, <2>2, <2>3 DEF Life, NothingCallsTheDead
<1> QED BY <1>8, <1>9

(* stopInLoop and resetChannel of the Connector run: it is alive, unless   *)
(* the client was destructed with such a functor queued.                   *)
LEMMA ConnectorFunctorSafe ==
    ASSUME Life, TC!ConnectorFunctor
    PROVE  Life' /\ NothingCallsTheDead'
<1>1. /\ queue \in Seq(Queued) /\ queue # <<>> /\ Once(queue, "resetChannel")
      /\ revents = "none" /\ failed = "none"
      /\ UNCHANGED <<connect_, revents, established, starts, client, connection_, conn, userRef,
                     removeTimer, unsafe, shared>>
  BY DEF Life, ClientTyped, ClientAttempt, TC!ConnectorFunctor, TC!C!RunFunctor, TC!C!Running
<1>2. Head(queue) \in {"stopInLoop", "resetChannel"}
  BY <1>1, TailHolds DEF Queued, TC!ConnectorFunctor, TC!C!Functors, TC!Holding
<1>3. /\ Tail(queue) \in Seq(Queued) /\ Once(Tail(queue), "resetChannel")
      /\ Holds(queue, Head(queue))
      /\ Head(queue) = "resetChannel" => ~Holds(Tail(queue), "resetChannel")
      /\ \A f : Holds(Tail(queue), f) => Holds(queue, f)
      /\ \A f : f # Head(queue) /\ Holds(queue, f) => Holds(Tail(queue), f)
  BY <1>1, TailHolds
<1>4. client = "dead" => removeTimer \/ unsafe
  BY <1>2, <1>3 DEF Life, ClientAttempt, Destructing
<1>5. Life' /\ timers' \in {0, 1} /\ timers' >= timers
  <2>1. CASE Head(queue) = "stopInLoop" /\ state_ = "kConnecting"
    <3>1. /\ channel_ = "added" /\ ~Holds(queue, "resetChannel") /\ timers = 0 /\ fresh = 0
          /\ starts = 1
      BY <2>1 DEF Life, ClientTyped, ClientAttempt
    <3>2. /\ queue' = Append(Tail(queue), "resetChannel") /\ channel_' = "removed"
          /\ failed' = failed /\ state_' = "kDisconnected" /\ timers' \in {0, 1}
          /\ fresh' = timers'
      <4>1. TC!C!stopInLoop(Tail(queue)) /\ fresh' = fresh + (timers' - timers)
        BY <2>1 DEF TC!ConnectorFunctor, TC!C!RunFunctor
      <4>2. /\ queue' = Append(Tail(queue), "resetChannel") /\ channel_' = "removed"
            /\ failed' = failed /\ state_' = "kDisconnected"
            /\ timers' = IF connect_ THEN timers + 1 ELSE timers
        BY <2>1, <4>1 DEF TC!C!stopInLoop, TC!C!removeAndResetChannel, TC!C!retry
      <4>3. timers' \in {0, 1}
        BY <3>1, <4>2
      <4> QED BY <3>1, <4>1, <4>2, <4>3
    <3>3. /\ queue' \in Seq(Queued) /\ Once(queue', "resetChannel")
          /\ Holds(queue', "resetChannel")
          /\ Holds(queue', "connectDestroyed") => Holds(queue, "connectDestroyed")
      <4>1. ~Holds(Tail(queue), "resetChannel") /\ "resetChannel" \in Queued
        BY <1>3, <3>1 DEF Queued
      <4> QED BY <1>3, <3>2, <4>1, AppendHolds
    <3>4. ClientTyped'
      BY <1>1, <3>1, <3>2, <3>3 DEF Life, ClientTyped
    <3>5. ClientAttempt'
      BY <1>1, <3>1, <3>2, <3>3 DEF ClientAttempt
    <3>6. Pointers'
      BY <1>1, <2>1, <3>3 DEF Life, Pointers, TC!Open
    <3>7. Destructing'
      BY <1>1, <1>4, <2>1, <3>2 DEF Life, Destructing
    <3> QED BY <3>1, <3>2, <3>4, <3>5, <3>6, <3>7 DEF Life
  <2>2. CASE Head(queue) = "stopInLoop" /\ state_ # "kConnecting"
    <3>1. /\ queue' = Tail(queue) /\ timers \in {0, 1} /\ fresh \in 0..timers
          /\ UNCHANGED <<state_, channel_, failed, timers>>
          /\ fresh' = fresh + (timers' - timers)
      BY <2>2 DEF Life, ClientTyped, TC!ConnectorFunctor, TC!C!RunFunctor, TC!C!stopInLoop,
                  TC!C!attempt
    <3>2. fresh' = fresh
      BY <3>1
    <3>3. ClientTyped'
      BY <1>1, <1>3, <3>1, <3>2 DEF Life, ClientTyped
    <3>4. ClientAttempt'
      BY <1>1, <1>3, <2>2, <3>1, <3>2, ResetKept
    <3>5. Pointers'
      BY <1>1, <1>3, <2>2, <3>1 DEF Life, Pointers
    <3>6. Destructing'
      BY <1>1, <1>3, <1>4, <2>2, <3>1 DEF Life, ClientAttempt, Destructing
    <3> QED BY <3>1, <3>3, <3>4, <3>5, <3>6 DEF Life
  <2>3. CASE Head(queue) = "resetChannel"
    <3>1. channel_ = "removed" /\ state_ # "kConnecting" /\ timers \in {0, 1}
      BY <1>3, <2>3 DEF Life, ClientTyped, ClientAttempt
    <3>2. /\ queue' = Tail(queue) /\ channel_' = "none" /\ fresh' = 0
          /\ UNCHANGED <<state_, failed, timers>>
      BY <2>3, <3>1 DEF TC!ConnectorFunctor, TC!C!RunFunctor, TC!C!resetChannel
    <3>3. ClientTyped'
      BY <1>1, <1>3, <3>1, <3>2 DEF Life, ClientTyped
    <3>4. ClientAttempt'
      BY <1>1, <1>3, <2>3, <3>1, <3>2 DEF Life, ClientAttempt
    <3>5. Pointers'
      BY <1>1, <1>3, <2>3, <3>2 DEF Life, Pointers
    <3>6. Destructing'
      BY <1>1, <1>4, <3>2 DEF Life, Destructing
    <3> QED BY <3>1, <3>2, <3>3, <3>4, <3>5, <3>6 DEF Life
  <2> QED BY <1>2, <2>1, <2>2, <2>3
<1>6. CASE TC!ConnectorAlive
  <2>1. ~(TC!ConnectorAlive /\ ~TC!ConnectorAlive')
    BY <1>1, <1>5 DEF Life, ClientTyped, TC!ConnectorAlive
  <2> QED BY <1>5, <1>6, <2>1, DestructorsFind DEF TC!ConnectorFunctor
<1>7. CASE ~TC!ConnectorAlive
  <2>1. unsafe'
    BY <1>1, <1>4, <1>7 DEF Life, ClientTyped, TC!ConnectorAlive
  <2> QED BY <1>5, <2>1 DEF NothingCallsTheDead
<1> QED BY <1>6, <1>7

(* A retry timer fires: that of a dead client finds connect_ cleared and   *)
(* no channel, and the Connector goes with it.                             *)
LEMMA ConnectorTimerSafe ==
    ASSUME Life, TC!ConnectorTimer
    PROVE  Life' /\ NothingCallsTheDead'
<1>1. /\ timers = 1 /\ fresh = 0 /\ state_ = "kDisconnected" /\ channel_ = "none"
      /\ starts = 1 /\ failed = "none" /\ conn.state = "none" /\ revents = "none"
      /\ ~Holds(queue, "resetChannel")
      /\ client = "dead" => ~connect_
  <2>1. timers \in {0, 1} /\ fresh \in 0..timers /\ timers > fresh
    BY DEF Life, ClientTyped, TC!ConnectorTimer, TC!C!TimerFires
  <2>2. timers = 1 /\ fresh = 0
    BY <2>1
  <2> QED BY <2>2 DEF Life, ClientTyped, ClientAttempt, Pointers, Destructing
<1>2. /\ TC!C!startInLoop(connect_, 0) /\ died' = TC!Destructed
      /\ UNCHANGED <<connect_, revents, queue, fresh, established, starts, client, connection_,
                     conn, userRef, removeTimer, unsafe, shared>>
  BY <1>1 DEF TC!ConnectorTimer, TC!C!TimerFires
<1>3. /\ failed' = "none" /\ timers' \in {0, 1}
      /\ \/ state_' = "kConnecting" /\ channel_' = "added" /\ timers' = 0 /\ connect_
         \/ state_' = "kDisconnected" /\ channel_' = "none"
  <2>1. CASE connect_
    BY <1>1, <1>2, <2>1 DEF TC!C!startInLoop, TC!C!connect, TC!C!connecting, TC!C!retry
  <2>2. CASE ~connect_
    BY <1>1, <1>2, <2>2 DEF TC!C!startInLoop, TC!C!attempt
  <2> QED BY <2>1, <2>2
<1>4. ClientTyped'
  BY <1>1, <1>2, <1>3 DEF Life, ClientTyped
<1>5. ClientAttempt'
  BY <1>1, <1>2, <1>3 DEF Life, ClientAttempt
<1>6. Pointers' /\ Destructing'
  BY <1>1, <1>2, <1>3 DEF Life, Pointers, Destructing, TC!Open
<1>7. Life'
  BY <1>4, <1>5, <1>6 DEF Life
<1>8. ~(TC!ConnectorAlive /\ ~TC!ConnectorAlive' /\ channel_' # "none")
  BY <1>1, <1>2, <1>3 DEF Life, ClientTyped, TC!ConnectorAlive
<1> QED BY <1>2, <1>7, <1>8, DestructorsFind

(* The timer that holds the Connector of a dead client fires when no       *)
(* functor bound to it waits: it has no channel then.                      *)
LEMMA RemoveConnectorSafe ==
    ASSUME Life, TC!RemoveConnector
    PROVE  Life' /\ NothingCallsTheDead'
<1>1. /\ removeTimer' = FALSE /\ died' = TC!Destructed
      /\ UNCHANGED <<connect_, state_, channel_, revents, queue, timers, fresh, established,
                     starts, failed, client, connection_, conn, userRef, unsafe, shared>>
  BY DEF TC!RemoveConnector, TC!connector
<1>2. ~Holds(queue, "stopInLoop") /\ ~Holds(queue, "resetChannel")
  BY PendingHolds DEF Life, TC!RemoveConnector
<1>3. removeTimer /\ client = "dead" /\ channel_ = "none"
  BY <1>2 DEF Life, ClientTyped, ClientAttempt, Destructing, TC!RemoveConnector
<1>4. ClientTyped'
  BY <1>1 DEF Life, ClientTyped
<1>5. Pointers' /\ Destructing'
  BY <1>1, <1>2, <1>3 DEF Life, Pointers, Destructing
<1>6. Life'
  BY <1>1, <1>4, <1>5, ConnectorRests DEF Life
<1> QED BY <1>1, <1>3, <1>6, DestructorsFind

(* The client calls start or stop of its Connector, or poll finds an       *)
(* event: nothing ends.                                                    *)
LEMMA CallsSafe ==
    ASSUME Life,
           \/ TC!Connect \/ TC!Stop \/ TC!Disconnect
           \/ \E outcome \in TC!C!Outcomes : TC!ConnectorPoll(outcome)
    PROVE  Life' /\ NothingCallsTheDead'
<1>1. CASE TC!Connect
  <2>1. /\ client = "alive" /\ died = "none"
        /\ starts = 0 /\ starts' = 1 /\ connect_' = TRUE /\ TC!C!startInLoop(TRUE, timers)
        /\ UNCHANGED <<revents, queue, fresh, established, client, connection_, conn, userRef,
                       removeTimer, unsafe, shared, died>>
    <3>1. /\ client = "alive" /\ died = "none" /\ connect_' = TRUE
          /\ UNCHANGED <<client, connection_, conn, userRef, removeTimer, unsafe, shared, died>>
      BY <1>1 DEF TC!Connect, TC!C!LoopCall, TC!Running, TC!mine
    <3>2. /\ starts < 1 /\ starts' = starts + 1 /\ TC!C!startInLoop(TRUE, timers)
          /\ UNCHANGED <<revents, queue, fresh, established>>
      BY <1>1 DEF TC!Connect, TC!C!LoopCall
    <3>3. starts = 0 /\ starts' = 1
      BY <3>2 DEF Life, ClientTyped
    <3> QED BY <3>1, <3>2, <3>3, Zenon
  <2>2. /\ state_ = "kDisconnected" /\ channel_ = "none" /\ timers = 0 /\ fresh = 0
        /\ failed = "none" /\ conn.state = "none" /\ revents = "none"
        /\ ~Holds(queue, "resetChannel")
    BY <2>1 DEF Life, ClientTyped, ClientAttempt, Pointers
  <2>3. /\ failed' = "none" /\ timers' \in {0, 1}
        /\ \/ state_' = "kConnecting" /\ channel_' = "added" /\ timers' = 0
           \/ state_' = "kDisconnected" /\ channel_' = "none"
    BY <2>1, <2>2 DEF TC!C!startInLoop, TC!C!connect, TC!C!connecting, TC!C!retry
  <2>4. ClientTyped'
    BY <2>1, <2>2, <2>3 DEF Life, ClientTyped
  <2>5. ClientAttempt'
    BY <2>1, <2>2, <2>3 DEF Life, ClientAttempt
  <2>6. Pointers' /\ Destructing'
    BY <2>1, <2>2, <2>3 DEF Life, Pointers, Destructing, TC!Open
  <2> QED BY <2>1, <2>4, <2>5, <2>6 DEF Life, NothingCallsTheDead
<1>2. CASE TC!Stop
  <2>1. /\ client = "alive" /\ died = "none"
        /\ connect_' = FALSE /\ queue' = Append(queue, "stopInLoop")
        /\ UNCHANGED <<state_, channel_, revents, timers, fresh, established, starts, failed,
                       client, connection_, conn, userRef, removeTimer, unsafe, shared, died>>
    BY <1>2 DEF TC!Stop, TC!C!LoopCall, TC!C!attempt, TC!Running, TC!mine
  <2>2. /\ queue' \in Seq(Queued) /\ Once(queue', "resetChannel")
        /\ \A f : Holds(queue', f) <=> Holds(queue, f) \/ f = "stopInLoop"
    <3>1. queue \in Seq(Queued) /\ Once(queue, "resetChannel") /\ "stopInLoop" \in Queued
      BY DEF Life, ClientTyped, ClientAttempt, Queued
    <3> QED BY <2>1, <3>1, AppendHolds
  <2>3. ClientTyped'
    BY <2>1, <2>2 DEF Life, ClientTyped
  <2>4. ClientAttempt'
    BY <2>1, <2>2, ResetKept
  <2>5. Pointers' /\ Destructing'
    BY <2>1, <2>2 DEF Life, Pointers, Destructing
  <2> QED BY <2>1, <2>3, <2>4, <2>5 DEF Life, NothingCallsTheDead
<1>3. CASE TC!Disconnect
  <2>1. /\ connection_ /\ client = "alive" /\ died = "none"
        /\ conn' = [conn EXCEPT !.state = "kDisconnecting"]
        /\ UNCHANGED <<connect_, state_, channel_, revents, queue, timers, fresh, established,
                       starts, failed, client, connection_, userRef, removeTimer, unsafe, shared,
                       died>>
    BY <1>3 DEF TC!Disconnect, TC!connector, TC!Running
  <2>2. conn' \in TC!Connections /\ conn'.state = "kDisconnecting" /\ conn.state # "none"
    BY <1>3, <2>1 DEF Life, ClientTyped, TC!Connections, TC!Disconnect
  <2>3. ClientTyped'
    BY <2>1, <2>2 DEF Life, ClientTyped
  <2>4. Pointers' /\ Destructing'
    BY <2>1, <2>2 DEF Life, Pointers, Destructing
  <2> QED BY <2>1, <2>3, <2>4, ConnectorRests DEF Life, NothingCallsTheDead
<1>4. CASE \E outcome \in TC!C!Outcomes : TC!ConnectorPoll(outcome)
  <2>1. /\ channel_ = "added" /\ died = "none"
        /\ UNCHANGED <<connect_, state_, channel_, queue, timers, fresh, established, starts,
                       failed, client, connection_, conn, userRef, removeTimer, unsafe, shared,
                       died>>
    BY <1>4 DEF TC!ConnectorPoll, TC!C!Poll, TC!C!attempt, TC!Running, TC!mine
  <2>2. ClientTyped' /\ ClientAttempt'
    BY <2>1 DEF Life, ClientTyped, ClientAttempt
  <2>3. Pointers' /\ Destructing'
    BY <2>1 DEF Life, Pointers, Destructing
  <2> QED BY <2>1, <2>2, <2>3 DEF Life, NothingCallsTheDead
<1> QED BY <1>1, <1>2, <1>3, <1>4

(* The destructor: it hands an open connection over, with forceCloseInLoop *)
(* if nobody else has it, and leaves a Connector that still connects to    *)
(* stopInLoop and to the timer.                                            *)
LEMMA DestroySafe ==
    ASSUME Life, TC!Destroy
    PROVE  Life' /\ NothingCallsTheDead'
<1>1. /\ client = "alive" /\ client' = "dead" /\ connection_' = FALSE /\ died' = TC!Destructed
      /\ unsafe' = (connection_ /\ TC!RawPending) /\ shared' = (connection_ /\ ~TC!Unique)
      /\ UNCHANGED <<state_, channel_, revents, timers, fresh, established, starts, failed,
                     userRef>>
  BY DEF TC!Destroy
<1>q. queue \in Seq(Queued) /\ Once(queue, "resetChannel")
  BY DEF Life, ClientTyped, ClientAttempt
<1>2. removeTimer = FALSE
  BY <1>1 DEF Life, ClientTyped, Destructing
<1>3. unsafe' \in BOOLEAN /\ shared' \in BOOLEAN
  BY <1>1
<1>4. CASE connection_
  <2>1. /\ conn' = [(IF TC!Unique THEN TC!ForceClosed(conn) ELSE conn) EXCEPT !.close = "sockets"]
        /\ queue' = IF TC!Unique /\ conn.state \in TC!Open
                    THEN Append(queue, "forceCloseInLoop") ELSE queue
        /\ UNCHANGED <<connect_, removeTimer>>
    BY <1>4 DEF TC!Destroy, TC!CloseConnection
  <2>2. /\ conn' \in TC!Connections /\ conn'.close = "sockets" /\ conn'.state # "none"
        /\ conn'.state \in TC!Open => conn.state \in TC!Open
    <3>1. conn \in TC!Connections /\ conn.state # "none"
      BY <1>4 DEF Life, ClientTyped, Pointers
    <3> QED BY <2>1, <3>1 DEF TC!ForceClosed, TC!Connections, TC!Open
  <2>3. /\ queue' \in Seq(Queued) /\ Once(queue', "resetChannel")
        /\ Holds(queue', "stopInLoop") <=> Holds(queue, "stopInLoop")
        /\ Holds(queue', "resetChannel") <=> Holds(queue, "resetChannel")
        /\ TC!Unique /\ conn.state \in TC!Open => Holds(queue', "forceCloseInLoop")
    <3>1. "forceCloseInLoop" \in Queued
      BY DEF Queued, TC!Holding
    <3> QED BY <1>q, <2>1, <3>1, AppendHolds
  <2>4. state_ = "kConnected" /\ channel_ # "added"
    BY <1>4 DEF Life, ClientAttempt, Pointers
  <2>5. ClientTyped'
    BY <1>1, <1>3, <2>1, <2>2, <2>3 DEF Life, ClientTyped
  <2>6. ClientAttempt'
    BY <1>1, <2>3, ResetKept
  <2>7. Pointers'
    BY <1>1, <1>4, <2>2, <2>3, <2>4 DEF Pointers
  <2>8. unsafe' \/ (channel_ = "none" /\ ~Holds(queue, "stopInLoop"))
    <3>1. TC!RawPending <=> Holds(queue, "stopInLoop") \/ Holds(queue, "resetChannel")
      BY PendingHolds DEF Life
    <3> QED BY <1>1, <1>4, <2>4, <3>1 DEF Life, ClientTyped, ClientAttempt
  <2>9. Destructing'
    BY <1>1, <2>1, <2>3, <2>4, <2>8 DEF Destructing
  <2>10. Life'
    BY <2>5, <2>6, <2>7, <2>9 DEF Life
  <2> QED BY <1>1, <2>8, <2>10, DestructorsFind
<1>5. CASE ~connection_
  <2>1. /\ connect_' = FALSE /\ queue' = Append(queue, "stopInLoop") /\ removeTimer' = TRUE
        /\ conn' = conn
    BY <1>5 DEF TC!Destroy, TC!StopConnector
  <2>2. /\ queue' \in Seq(Queued) /\ Once(queue', "resetChannel")
        /\ \A f : Holds(queue', f) <=> Holds(queue, f) \/ f = "stopInLoop"
    <3>1. "stopInLoop" \in Queued
      BY DEF Queued
    <3> QED BY <1>q, <2>1, <3>1, AppendHolds
  <2>3. conn.state \notin TC!Open
    BY <1>1, <1>5 DEF Life, Pointers
  <2>4. ClientTyped'
    BY <1>1, <1>3, <2>1, <2>2 DEF Life, ClientTyped
  <2>5. ClientAttempt'
    BY <1>1, <2>2, ResetKept
  <2>6. Pointers'
    BY <1>1, <2>1, <2>2, <2>3 DEF Life, Pointers
  <2>7. Destructing'
    BY <1>1, <2>1, <2>2 DEF Destructing
  <2>8. Life'
    BY <2>4, <2>5, <2>6, <2>7 DEF Life
  <2>9. TC!ConnectorAlive'
    BY <2>1 DEF TC!ConnectorAlive
  <2> QED BY <1>1, <2>8, <2>9, DestructorsFind
<1> QED BY <1>4, <1>5

(* Whenever and in whatever state a client is destructed in its loop,      *)
(* neither its Connector nor its connection calls it afterwards, no        *)
(* functor runs on a Connector that is gone, and the destructors find what *)
(* they assert; with the exceptions that NothingCallsTheDead names.        *)
THEOREM DestructedClientIsLeftAlone == TC!Spec => []NothingCallsTheDead
<1> DEFINE Safe == Life /\ NothingCallsTheDead
<1>1. TC!Init => Safe
  <2> SUFFICES ASSUME TC!Init PROVE Safe
    OBVIOUS
  <2>1. <<>> \in Seq(Queued) /\ \A f : ~Holds(<<>>, f) /\ Once(<<>>, f)
    BY DEF Holds, Once
  <2>2. ClientTyped
    <3>1. /\ connect_ \in BOOLEAN /\ connection_ \in BOOLEAN /\ userRef \in BOOLEAN
          /\ removeTimer \in BOOLEAN /\ unsafe \in BOOLEAN /\ shared \in BOOLEAN
      BY DEF TC!Init, TC!C!Init
    <3>2. conn \in TC!Connections
      BY DEF TC!Init, TC!Connections
    <3>3. established \in Nat /\ timers \in {0, 1} /\ fresh \in 0..timers /\ starts \in {0, 1}
      BY DEF TC!Init, TC!C!Init
    <3> QED BY <2>1, <3>1, <3>2, <3>3 DEF TC!Init, TC!C!Init, ClientTyped
  <2>3. ClientAttempt /\ Pointers /\ Destructing
    BY <2>1 DEF TC!Init, TC!C!Init, ClientAttempt, Pointers, Destructing, TC!Open
  <2> QED BY <2>2, <2>3 DEF TC!Init, Life, NothingCallsTheDead
<1>2. Safe /\ [TC!Next]_TC!vars => Safe'
  <2> SUFFICES ASSUME Safe, [TC!Next]_TC!vars PROVE Safe'
    OBVIOUS
  <2>1. CASE TC!LoopStep
    BY <2>1, ConnectorEventSafe, ConnectorFunctorSafe, ConnectionFunctorSafe DEF TC!LoopStep
  <2>2. CASE TC!ConnectorTimer \/ TC!RemoveConnector
    BY <2>2, ConnectorTimerSafe, RemoveConnectorSafe
  <2>3. CASE TC!ConnectionEnds \/ TC!GetRef \/ TC!DropRef
    BY <2>3, ConnectionEndsSafely, UserRefSafe
  <2>4. CASE TC!Connect \/ TC!Stop \/ TC!Disconnect
             \/ \E outcome \in TC!C!Outcomes : TC!ConnectorPoll(outcome)
    BY <2>4, CallsSafe
  <2>5. CASE TC!Destroy
    BY <2>5, DestroySafe
  <2>6. CASE UNCHANGED TC!vars
    <3>1. UNCHANGED <<connect_, state_, channel_, revents, queue, timers, fresh, established,
                      starts, failed, client, connection_, conn, userRef, removeTimer, unsafe,
                      shared, died>>
      BY <2>6 DEF TC!vars, TC!connector, TC!mine
    <3>2. ClientTyped' /\ Pointers' /\ Destructing'
      BY <3>1 DEF Life, ClientTyped, Pointers, Destructing
    <3> QED BY <3>1, <3>2, ConnectorRests DEF Life, NothingCallsTheDead
  <2> QED BY <2>1, <2>2, <2>3, <2>4, <2>5, <2>6 DEF TC!Next
<1> QED BY <1>1, <1>2, PTL DEF TC!Spec
=============================================================================
