------------------------- MODULE TcpConnection_proofs -------------------------
(***************************************************************************)
(* Proofs about TcpConnection, for any operations of the loop and of the   *)
(* user thread and any bounds.  Whatever is called in any thread, except   *)
(* send(const void*, int) outside the loop, output is watched and shutdown *)
(* waits for it.  As long as the user keeps to the calls that the          *)
(* connection is safe against, no assert fails, the connection goes down   *)
(* once and is destroyed clean.                                            *)
(***************************************************************************)
EXTENDS TcpConnection, TLAPS

(* Which functors wait in pendingFunctors_, and what queueing one at its   *)
(* end and running the one at its head does to the others.                 *)

Holds(q, f) == \E i \in DOMAIN q : q[i] = f
Once(q, f) == \A i, j \in DOMAIN q : q[i] = f /\ q[j] = f => i = j

(* What queueing a functor does to those that wait. *)
LEMMA AppendHolds ==
    ASSUME NEW S, NEW q \in Seq(S), NEW g \in S
    PROVE  /\ Append(q, g) \in Seq(S)
           /\ \A f : Holds(Append(q, g), f) <=> Holds(q, f) \/ f = g
           /\ \A f : Once(q, f) /\ (f = g => ~Holds(q, f)) => Once(Append(q, g), f)
<1> DEFINE r == Append(q, g)
<1>1. r \in Seq(S) /\ Len(q) \in Nat /\ Len(r) = Len(q) + 1
  OBVIOUS
<1>2. /\ \A i \in 1..Len(q) : r[i] = q[i]
      /\ r[Len(q) + 1] = g
  OBVIOUS
<1>3. DOMAIN q = 1..Len(q) /\ DOMAIN r = 1..(Len(q) + 1)
  BY <1>1
<1>4. ASSUME NEW f PROVE Holds(r, f) <=> Holds(q, f) \/ f = g
  BY <1>1, <1>2, <1>3 DEF Holds
<1>5. ASSUME NEW f, Once(q, f), f = g => ~Holds(q, f) PROVE Once(r, f)
  BY <1>1, <1>2, <1>3, <1>5 DEF Holds, Once
<1> QED BY <1>1, <1>4, <1>5

(* What running the first functor does to the others. *)
LEMMA TailHolds ==
    ASSUME NEW S, NEW q \in Seq(S), q # <<>>
    PROVE  /\ Head(q) \in S /\ Tail(q) \in Seq(S)
           /\ Holds(q, Head(q))
           /\ \A f : Holds(Tail(q), f) => Holds(q, f)
           /\ \A f : f # Head(q) /\ Holds(q, f) => Holds(Tail(q), f)
           /\ \A f : Once(q, f) => Once(Tail(q), f)
           /\ Once(q, Head(q)) => ~Holds(Tail(q), Head(q))
<1> DEFINE r == Tail(q)
<1>1. r \in Seq(S) /\ Len(q) \in Nat \ {0} /\ Len(r) = Len(q) - 1
  OBVIOUS
<1>2. \A i \in 1..(Len(q) - 1) : r[i] = q[i + 1]
  OBVIOUS
<1>3. DOMAIN q = 1..Len(q) /\ DOMAIN r = 1..(Len(q) - 1) /\ Head(q) = q[1] /\ Head(q) \in S
  BY <1>1
<1>4. Holds(q, Head(q))
  BY <1>1, <1>3 DEF Holds
<1>5. ASSUME NEW f, Holds(r, f) PROVE Holds(q, f)
  BY <1>1, <1>2, <1>3, <1>5 DEF Holds
<1>6. ASSUME NEW f, f # Head(q), Holds(q, f) PROVE Holds(r, f)
  <2>1. PICK i \in 1..Len(q) : q[i] = f
    BY <1>3, <1>6 DEF Holds
  <2>2. i - 1 \in 1..(Len(q) - 1)
    BY <1>1, <1>3, <1>6, <2>1
  <2>3. r[i - 1] = f
    BY <1>1, <1>2, <2>1, <2>2
  <2> QED BY <2>2, <2>3, <1>3 DEF Holds
<1>7. ASSUME NEW f, Once(q, f) PROVE Once(r, f)
  <2>1. \A i \in 1..(Len(q) - 1) : i + 1 \in 1..Len(q)
    BY <1>1
  <2> SUFFICES ASSUME NEW i \in 1..(Len(q) - 1), NEW j \in 1..(Len(q) - 1), r[i] = f, r[j] = f
               PROVE  i = j
    BY <1>3 DEF Once
  <2>2. i + 1 = j + 1
    BY <2>1, <1>2, <1>3, <1>7 DEF Once
  <2> QED BY <2>2, <1>1
<1>8. ASSUME Once(q, Head(q)), Holds(r, Head(q)) PROVE FALSE
  <2>1. PICK i \in 1..(Len(q) - 1) : r[i] = Head(q)
    BY <1>3, <1>8 DEF Holds
  <2>2. i + 1 \in 1..Len(q) /\ 1 \in 1..Len(q) /\ q[i + 1] = q[1] /\ i + 1 # 1
    BY <2>1, <1>1, <1>2, <1>3
  <2> QED BY <2>2, <1>3, <1>8 DEF Once
<1> QED BY <1>1, <1>3, <1>4, <1>5, <1>6, <1>7, <1>8
-----------------------------------------------------------------------------
\* A channel that the poller holds if and only if it is not new to it.
Chan(c) == c \in Channel /\ (c.mapped <=> c.index # "KNew")

(* Setting the events of a channel registers it with the kernel, unless it *)
(* was registered and the events are none: then it is taken out.           *)
LEMMA SetEventsIs ==
    ASSUME NEW c, Chan(c), NEW ev \in SUBSET {"read", "write"}
    PROVE  /\ Chan(SetEvents(c, ev))
           /\ SetEvents(c, ev).events = ev
           /\ SetEvents(c, ev).mapped
           /\ SetEvents(c, ev).index = IF c.index = "KAdded" /\ ev = {} THEN "KDeleted"
                                                                        ELSE "KAdded"
<1> DEFINE d == [c EXCEPT !.events = ev, !.added = TRUE]
<1>1. /\ d \in Channel /\ d.events = ev /\ d.index = c.index /\ d.mapped = c.mapped
  BY DEF Chan, Channel
<1>2. SetEvents(c, ev) = UpdateChannel(d)
  BY DEF SetEvents
<1> HIDE DEF d
<1>3. CASE c.index = "KAdded" /\ ev = {}
  <2>1. UpdateChannel(d) = [d EXCEPT !.index = "KDeleted"]
    BY <1>1, <1>3 DEF UpdateChannel
  <2>2. c.mapped
    BY <1>3 DEF Chan
  <2> QED BY <1>1, <1>2, <1>3, <2>1, <2>2 DEF Chan, Channel
<1>4. CASE c.index = "KAdded" /\ ev # {}
  <2>1. UpdateChannel(d) = d
    BY <1>1, <1>4 DEF UpdateChannel
  <2>2. c.mapped
    BY <1>4 DEF Chan
  <2> QED BY <1>1, <1>2, <1>4, <2>1, <2>2 DEF Chan, Channel
<1>5. CASE c.index # "KAdded"
  <2>1. UpdateChannel(d) = [d EXCEPT !.index = "KAdded", !.mapped = TRUE]
    BY <1>1, <1>5 DEF UpdateChannel
  <2> QED BY <1>1, <1>2, <1>5, <2>1 DEF Chan, Channel
<1> QED BY <1>3, <1>4, <1>5

(* What Channel::remove leaves. *)
LEMMA RemovedIs ==
    ASSUME NEW c, Chan(c)
    PROVE  /\ Chan(Removed(c))
           /\ Removed(c).events = c.events
           /\ Removed(c).index = "KNew" /\ ~Removed(c).mapped /\ ~Removed(c).added
BY DEF Chan, Channel, Removed

(* The functor that a call of the user thread queues. *)
LEMMA QueuedIs ==
    ASSUME NEW op \in Ops, op # "sendBytes"
    PROVE  LET f == [send |-> "sendInLoop", shutdown |-> "shutdownInLoop",
                     forceClose |-> "forceCloseInLoop", startRead |-> "startReadInLoop",
                     stopRead |-> "stopReadInLoop"][op]
           IN  /\ f \in StrongFunctors \cup RawFunctors
               /\ f # "connectEstablished" /\ f # "connectDestroyed"
BY DEF Ops, StrongFunctors, RawFunctors
-----------------------------------------------------------------------------
(* What the methods that run in the I/O loop keep: until the connection    *)
(* goes down nothing asks for its removal, and the kernel watches it for   *)
(* writing if and only if output waits, or the user thread has called      *)
(* sendInLoop itself.                                                      *)

IoTyped == /\ state_ \in States \cup {"none"}
           /\ reading_ \in BOOLEAN
           /\ Chan(channel_)
           /\ out \in 0..MaxOut
           /\ sock \in Socket
           /\ baseQueue \in Nat
           /\ downs \in Nat

Watched == /\ out > 0 <=> isWriting
           /\ isWriting => channel_.index = "KAdded"

IoWatched == downs = 0 => /\ baseQueue = 0
                          /\ unqueued \/ Watched

IoInv == IoTyped /\ IoWatched

(* handleClose, from a HUP, the end of the input or a forceClose. *)
LEMMA HandleCloseKeeps ==
    ASSUME IoInv, HandleClose, unqueued' = unqueued
    PROVE  IoInv' /\ channel_'.events = {}
<1>1. Chan(channel_') /\ channel_'.events = {}
  BY SetEventsIs DEF IoInv, IoTyped, HandleClose
<1>2. downs' \in Nat /\ downs' # 0 /\ baseQueue' \in Nat /\ state_' \in States
  BY DEF IoInv, IoTyped, HandleClose, States
<1> QED BY <1>1, <1>2 DEF IoInv, IoTyped, IoWatched, Watched, HandleClose

(* send: output and the registration for writing appear together. *)
LEMMA SendInLoopKeeps ==
    ASSUME IoInv, SendInLoop, unqueued' = unqueued
    PROVE  IoInv'
<1>1. CASE state_ # "kDisconnected" /\ ~isWriting /\ out = 0 /\ ~sock.reset
  <2>1. /\ out' = MaxOut
        /\ channel_' = SetEvents(channel_, channel_.events \cup {"write"})
        /\ UNCHANGED <<state_, reading_, sock, baseQueue, downs>>
    BY <1>1 DEF SendInLoop, Sendable
  <2>2. channel_.events \cup {"write"} \in SUBSET {"read", "write"}
    BY DEF IoInv, IoTyped, Chan, Channel
  <2>3. /\ Chan(channel_') /\ channel_'.events = channel_.events \cup {"write"}
        /\ channel_'.index = "KAdded"
    BY <2>1, <2>2, SetEventsIs DEF IoInv, IoTyped
  <2>4. isWriting' /\ out' > 0 /\ out' \in 0..MaxOut
    BY <2>1, <2>3, ConstantsAssumption DEF isWriting
  <2> QED BY <2>1, <2>3, <2>4 DEF IoInv, IoTyped, IoWatched, Watched
<1>2. CASE ~(state_ # "kDisconnected" /\ ~isWriting /\ out = 0 /\ ~sock.reset)
  <2>1. UNCHANGED <<out, channel_, state_, reading_, sock, baseQueue, downs>>
    BY <1>2 DEF SendInLoop, Sendable
  <2> QED BY <2>1 DEF IoInv, IoTyped, IoWatched, Watched, isWriting
<1> QED BY <1>1, <1>2

(* A change of the registration for reading leaves that for writing. *)
LEMMA ReadEventsKeep ==
    ASSUME IoInv, NEW ev \in SUBSET {"read", "write"},
           ev \ {"read"} = channel_.events \ {"read"},
           channel_' = SetEvents(channel_, ev),
           state_' \in States \cup {"none"}, reading_' \in BOOLEAN,
           UNCHANGED <<out, sock, baseQueue, downs, unqueued>>
    PROVE  IoInv'
<1>1. /\ Chan(channel_') /\ channel_'.events = ev
      /\ ev # {} => channel_'.index = "KAdded"
  <2> DEFINE d == SetEvents(channel_, ev)
  <2>1. Chan(channel_)
    BY DEF IoInv, IoTyped
  <2>2. /\ Chan(d) /\ d.events = ev
        /\ d.index = IF channel_.index = "KAdded" /\ ev = {} THEN "KDeleted" ELSE "KAdded"
    BY <2>1, SetEventsIs
  <2>3. channel_' = d
    OBVIOUS
  <2> HIDE DEF d
  <2> QED BY <2>2, <2>3
<1>2. isWriting' <=> isWriting
  <2>1. "write" \in ev <=> "write" \in channel_.events
    OBVIOUS
  <2> QED BY <1>1, <2>1 DEF isWriting
<1>3. isWriting' => channel_'.index = "KAdded"
  BY <1>1 DEF isWriting
<1> QED BY <1>1, <1>2, <1>3 DEF IoInv, IoTyped, IoWatched, Watched

(* startReadInLoop. *)
LEMMA StartReadKeeps ==
    ASSUME IoInv, StartReadInLoop, unqueued' = unqueued
    PROVE  IoInv'
<1>1. UNCHANGED <<state_, out, sock, baseQueue, downs>> /\ reading_' \in BOOLEAN
  BY DEF StartReadInLoop
<1>2. CASE channel_' = SetEvents(channel_, channel_.events \cup {"read"})
  <2>1. channel_.events \cup {"read"} \in SUBSET {"read", "write"}
    BY DEF IoInv, IoTyped, Chan, Channel
  <2> QED BY <1>1, <1>2, <2>1, ReadEventsKeep DEF IoInv, IoTyped
<1>3. CASE channel_' = channel_
  BY <1>1, <1>3 DEF IoInv, IoTyped, IoWatched, Watched, isWriting
<1> QED BY <1>2, <1>3 DEF StartReadInLoop

(* stopReadInLoop. *)
LEMMA StopReadKeeps ==
    ASSUME IoInv, StopReadInLoop, unqueued' = unqueued
    PROVE  IoInv'
<1>1. UNCHANGED <<state_, out, sock, baseQueue, downs>> /\ reading_' \in BOOLEAN
  BY DEF StopReadInLoop
<1>2. CASE channel_' = SetEvents(channel_, channel_.events \ {"read"})
  <2>1. channel_.events \ {"read"} \in SUBSET {"read", "write"}
    BY DEF IoInv, IoTyped, Chan, Channel
  <2> QED BY <1>1, <1>2, <2>1, ReadEventsKeep DEF IoInv, IoTyped
<1>3. CASE channel_' = channel_
  BY <1>1, <1>3 DEF IoInv, IoTyped, IoWatched, Watched, isWriting
<1> QED BY <1>2, <1>3 DEF StopReadInLoop

(* connectEstablished. *)
LEMMA EstablishedKeeps ==
    ASSUME IoInv, ConnectEstablished, unqueued' = unqueued
    PROVE  IoInv'
<1>1. /\ UNCHANGED <<out, sock, baseQueue, downs, reading_>> /\ state_' = "kConnected"
      /\ channel_' = SetEvents(channel_, channel_.events \cup {"read"})
  BY DEF ConnectEstablished
<1>2. channel_.events \cup {"read"} \in SUBSET {"read", "write"}
  BY DEF IoInv, IoTyped, Chan, Channel
<1> QED BY <1>1, <1>2, ReadEventsKeep DEF IoInv, IoTyped, States

(* connectDestroyed, which comes after the connection went down. *)
LEMMA DestroyedKeeps ==
    ASSUME IoInv, ConnectDestroyed, downs > 0, unqueued' = unqueued
    PROVE  IoInv' /\ downs' > 0
<1> DEFINE c == IF state_ = "kConnected" THEN SetEvents(channel_, {}) ELSE channel_
<1>1. Chan(c)
  BY SetEventsIs DEF IoInv, IoTyped
<1>2. channel_' = Removed(c)
  BY DEF ConnectDestroyed
<1> HIDE DEF c
<1>3. Chan(channel_')
  BY <1>1, <1>2, RemovedIs
<1>4. /\ state_' \in States \cup {"none"} /\ downs' \in Nat /\ downs' > 0
      /\ UNCHANGED <<reading_, out, sock, baseQueue>>
  BY DEF ConnectDestroyed, States, IoInv, IoTyped
<1> QED BY <1>3, <1>4 DEF IoInv, IoTyped, IoWatched, Watched

(* handleWrite: the registration for writing goes when the output is out. *)
LEMMA HandleWriteKeeps ==
    ASSUME IoInv, HandleWrite
    PROVE  IoInv'
<1>0. unqueued' = unqueued
  BY DEF HandleWrite, user
<1>1. CASE UnchangedIo
  BY <1>0, <1>1 DEF UnchangedIo, conn, IoInv, IoTyped, IoWatched, Watched, isWriting
<1>2. ASSUME isWriting, NEW left \in 0..(out - 1),
             out' = left,
             channel_' = IF left = 0 THEN SetEvents(channel_, channel_.events \ {"write"})
                                     ELSE channel_,
             sock' = IF left = 0 /\ state_ = "kDisconnecting"
                     THEN [sock EXCEPT !.shut = TRUE] ELSE sock,
             UNCHANGED <<state_, reading_, baseQueue, downs, failed>>
      PROVE  IoInv'
  <2>1. sock' \in Socket
    BY <1>2 DEF IoInv, IoTyped, Socket
  <2>2. left \in 0..MaxOut /\ (downs = 0 => unqueued \/ channel_.index = "KAdded")
    BY <1>2, ConstantsAssumption DEF IoInv, IoTyped, IoWatched, Watched
  <2>3. CASE left = 0
    <3>1. channel_.events \ {"write"} \in SUBSET {"read", "write"}
      BY DEF IoInv, IoTyped, Chan, Channel
    <3>2. Chan(channel_') /\ channel_'.events = channel_.events \ {"write"}
      BY <1>2, <2>3, <3>1, SetEventsIs DEF IoInv, IoTyped
    <3>3. ~isWriting' /\ ~(out' > 0)
      BY <1>2, <2>3, <3>2 DEF isWriting
    <3> QED BY <1>0, <1>2, <2>1, <2>2, <3>2, <3>3 DEF IoInv, IoTyped, IoWatched, Watched
  <2>4. CASE left # 0
    <3>1. channel_' = channel_ /\ out' > 0 /\ isWriting'
      BY <1>2, <2>2, <2>4 DEF isWriting
    <3> QED BY <1>0, <1>2, <2>1, <2>2, <3>1 DEF IoInv, IoTyped, IoWatched, Watched
  <2> QED BY <2>3, <2>4
<1> QED BY <1>1, <1>2 DEF HandleWrite
-----------------------------------------------------------------------------
Functors == StrongFunctors \cup RawFunctors

RestTyped == /\ revents \in SUBSET {"HUP", "ERR", "IN", "OUT"}
             /\ ioQueue \in Seq(Functors)
             /\ connections_ \in BOOLEAN
             /\ userRef \in BOOLEAN
             /\ userPc \in {"idle", "setState", "queue", "append", "enable"}
             /\ userOp \in Ops \cup {"none"}
             /\ userPc \in {"setState", "queue"} => userOp \in Ops \ {"sendBytes"}
             /\ userPc \in {"append", "enable"} => unqueued
             /\ racy \in BOOLEAN /\ unqueued \in BOOLEAN

NotRemoved == downs = 0 => ~Holds(ioQueue, "connectDestroyed")

Inv == IoInv /\ RestTyped /\ NotRemoved

(* The connection before it is accepted. *)
LEMMA InvInit == Init => Inv
<1> SUFFICES ASSUME Init PROVE Inv
  OBVIOUS
<1>1. Chan(channel_) /\ channel_.events = {}
  BY DEF Init, Chan, Channel
<1>2. sock \in Socket
  BY DEF Init, Socket
<1>3. reading_ \in BOOLEAN /\ out \in 0..MaxOut /\ downs = 0 /\ baseQueue = 0 /\ ~isWriting
  BY <1>1, ConstantsAssumption DEF Init, isWriting
<1>4. IoInv
  BY <1>1, <1>2, <1>3 DEF Init, IoInv, IoTyped, IoWatched, Watched
<1>5. ioQueue \in Seq(Functors) /\ ~Holds(ioQueue, "connectDestroyed")
  BY DEF Init, Holds
<1>6. connections_ \in BOOLEAN /\ userRef \in BOOLEAN /\ racy \in BOOLEAN
      /\ unqueued \in BOOLEAN
  BY DEF Init
<1>7. RestTyped
  BY <1>5, <1>6 DEF Init, RestTyped
<1> QED BY <1>4, <1>5, <1>7 DEF Inv, NotRemoved

(* A step of the I/O loop never undoes a close. *)
LEMMA DownsGrow ==
    ASSUME IoInv, \/ HandleClose \/ ForceCloseInLoop \/ SendInLoop \/ StartReadInLoop
                  \/ StopReadInLoop \/ ConnectEstablished \/ UnchangedIo
    PROVE  downs' = 0 => downs = 0
BY DEF IoInv, IoTyped, HandleClose, ForceCloseInLoop, SendInLoop, StartReadInLoop,
       StopReadInLoop, ConnectEstablished, UnchangedIo

(* Nothing changes in the I/O loop's part. *)
LEMMA IoStays ==
    ASSUME IoInv, UNCHANGED <<conn, baseQueue, downs>>, sock' \in Socket,
           unqueued => unqueued'
    PROVE  IoInv'
BY DEF IoInv, IoTyped, IoWatched, Watched, conn, isWriting

(* Running a functor. *)
LEMMA RunFunctorKeeps ==
    ASSUME Inv, NEW f \in StrongFunctors \cup RawFunctors, RunFunctor(f)
    PROVE  Inv'
<1>0. /\ IoInv /\ ioQueue \in Seq(Functors) /\ ioQueue # <<>> /\ f = Head(ioQueue)
      /\ ioQueue' = Tail(ioQueue)
      /\ UNCHANGED <<revents, connections_, userRef, userPc, userOp, racy, unqueued>>
  BY DEF Inv, RestTyped, RunFunctor, user
<1>1. /\ ioQueue' \in Seq(Functors) /\ Holds(ioQueue, f)
      /\ Holds(ioQueue', "connectDestroyed") => Holds(ioQueue, "connectDestroyed")
  BY <1>0, TailHolds
<1>2. RestTyped'
  BY <1>0, <1>1 DEF Inv, RestTyped
<1>3. ASSUME IoInv', downs' = 0 => downs = 0
      PROVE  Inv'
  BY <1>1, <1>2, <1>3 DEF Inv, NotRemoved
<1>4. CASE f \in RawFunctors /\ ~Alive
  <2>1. UNCHANGED <<conn, sock, baseQueue, downs>>
    BY <1>4 DEF RunFunctor
  <2>2. sock' \in Socket
    BY <2>1 DEF Inv, IoInv, IoTyped
  <2> QED BY <1>0, <1>3, <2>1, <2>2, IoStays
<1>5. CASE ~(f \in RawFunctors /\ ~Alive)
  <2>1. CASE f = "connectEstablished"
    <3>1. ConnectEstablished
      BY <1>5, <2>1 DEF RunFunctor
    <3> QED BY <1>0, <1>3, <3>1, EstablishedKeeps, DownsGrow
  <2>2. CASE f = "connectDestroyed"
    <3>1. ConnectDestroyed
      BY <1>5, <2>2 DEF RunFunctor
    <3>2. downs > 0
      BY <1>1, <2>2 DEF Inv, IoInv, IoTyped, NotRemoved
    <3>3. IoInv' /\ downs' > 0
      BY <1>0, <3>1, <3>2, DestroyedKeeps
    <3> QED BY <1>3, <3>3
  <2>3. CASE f = "forceCloseInLoop"
    <3>1. HandleClose \/ UnchangedIo
      BY <1>5, <2>3 DEF RunFunctor, ForceCloseInLoop
    <3>2. CASE HandleClose
      BY <1>0, <1>3, <3>2, HandleCloseKeeps, DownsGrow
    <3>3. CASE UnchangedIo
      <4>1. sock' \in Socket /\ UNCHANGED <<conn, baseQueue, downs>>
        BY <3>3 DEF UnchangedIo, Inv, IoInv, IoTyped
      <4> QED BY <1>0, <1>3, <4>1, IoStays
    <3> QED BY <3>1, <3>2, <3>3
  <2>4. CASE f = "sendInLoop"
    <3>1. SendInLoop
      BY <1>5, <2>4 DEF RunFunctor
    <3> QED BY <1>0, <1>3, <3>1, SendInLoopKeeps, DownsGrow
  <2>5. CASE f = "startReadInLoop"
    <3>1. StartReadInLoop
      BY <1>5, <2>5 DEF RunFunctor
    <3> QED BY <1>0, <1>3, <3>1, StartReadKeeps, DownsGrow
  <2>6. CASE f = "stopReadInLoop"
    <3>1. StopReadInLoop
      BY <1>5, <2>6 DEF RunFunctor
    <3> QED BY <1>0, <1>3, <3>1, StopReadKeeps, DownsGrow
  <2>7. CASE f = "shutdownInLoop"
    <3>1. ShutdownInLoop /\ UNCHANGED <<conn, baseQueue, downs>>
      BY <1>5, <2>7 DEF RunFunctor
    <3>2. sock' \in Socket
      BY <3>1 DEF ShutdownInLoop, Inv, IoInv, IoTyped, Socket
    <3> QED BY <1>0, <1>3, <3>1, <3>2, IoStays
  <2> QED BY <2>1, <2>2, <2>3, <2>4, <2>5, <2>6, <2>7 DEF StrongFunctors, RawFunctors
<1> QED BY <1>4, <1>5

(* A call of user code in the I/O loop. *)
LEMMA LoopCallKeeps ==
    ASSUME Inv, NEW op \in LoopOps, LoopCall(op)
    PROVE  Inv'
<1>0. /\ IoInv /\ ioQueue \in Seq(Functors) /\ racy' \in BOOLEAN
      /\ UNCHANGED <<revents, connections_, userRef, userPc, userOp, unqueued>>
  BY DEF Inv, RestTyped, LoopCall
<1>1. ASSUME IoInv', downs' = 0 => downs = 0, ioQueue' = ioQueue
      PROVE  Inv'
  BY <1>0, <1>1 DEF Inv, NotRemoved, RestTyped
<1>2. sock \in Socket
  BY DEF Inv, IoInv, IoTyped
<1>3. CASE op = "send"
  <2>1. (SendInLoop \/ UnchangedIo) /\ ioQueue' = ioQueue
    BY <1>3 DEF LoopCall
  <2>2. CASE SendInLoop
    BY <1>0, <1>1, <2>1, <2>2, SendInLoopKeeps, DownsGrow
  <2>3. CASE UnchangedIo
    <3>1. sock' \in Socket /\ UNCHANGED <<conn, baseQueue, downs>>
      BY <1>2, <2>3 DEF UnchangedIo
    <3> QED BY <1>0, <1>1, <2>1, <3>1, IoStays
  <2> QED BY <2>1, <2>2, <2>3
<1>4. CASE op = "shutdown"
  <2>1. /\ state_' = "kDisconnecting" /\ ShutdownInLoop
        /\ UNCHANGED <<reading_, channel_, out, ioQueue, baseQueue, downs>>
    BY <1>4 DEF LoopCall
  <2>2. sock' \in Socket
    BY <1>2, <2>1 DEF ShutdownInLoop, Socket
  <2>3. IoInv'
    BY <1>0, <2>1, <2>2 DEF IoInv, IoTyped, IoWatched, Watched, isWriting, States
  <2> QED BY <1>1, <2>1, <2>3
<1>5. CASE op = "forceClose"
  <2>1. /\ state_' = "kDisconnecting" /\ ioQueue' = Append(ioQueue, "forceCloseInLoop")
        /\ UNCHANGED <<reading_, channel_, out, sock, baseQueue, downs>>
    BY <1>5 DEF LoopCall
  <2>2. IoInv'
    BY <1>0, <2>1 DEF IoInv, IoTyped, IoWatched, Watched, isWriting, States
  <2>3. "forceCloseInLoop" \in Functors
    BY DEF Functors, StrongFunctors
  <2>4. /\ ioQueue' \in Seq(Functors)
        /\ Holds(ioQueue', "connectDestroyed") => Holds(ioQueue, "connectDestroyed")
    BY <1>0, <2>1, <2>3, AppendHolds
  <2> QED BY <1>0, <2>1, <2>2, <2>4 DEF Inv, NotRemoved, RestTyped
<1>6. CASE op = "startRead"
  BY <1>0, <1>1, <1>6, StartReadKeeps, DownsGrow DEF LoopCall
<1>7. CASE op = "stopRead"
  BY <1>0, <1>1, <1>7, StopReadKeeps, DownsGrow DEF LoopCall
<1>8. CASE op = "sendBytes"
  BY <1>0, <1>1, <1>8, SendInLoopKeeps, DownsGrow DEF LoopCall
<1> QED BY <1>3, <1>4, <1>5, <1>6, <1>7, <1>8, ConstantsAssumption DEF Ops

(* An event of the channel. *)
LEMMA HandleEventKeeps ==
    ASSUME Inv, HandleEvent
    PROVE  Inv'
<1>0. /\ IoInv /\ UNCHANGED <<ioQueue, connections_, userRef, userPc, userOp, racy, unqueued>>
      /\ revents' \subseteq revents
  BY DEF Inv, HandleEvent, HandleHup, HandleError, HandleRead, HandleWrite, user
<1>1. ASSUME IoInv', downs' = 0 => downs = 0
      PROVE  Inv'
  BY <1>0, <1>1 DEF Inv, NotRemoved, RestTyped
<1>2. CASE HandleClose
  BY <1>0, <1>1, <1>2, HandleCloseKeeps, DownsGrow
<1>3. CASE HandleWrite
  <2>1. downs' = downs
    BY <1>3 DEF HandleWrite, UnchangedIo
  <2> QED BY <1>0, <1>1, <1>3, <2>1, HandleWriteKeeps
<1>4. ASSUME UNCHANGED <<conn, baseQueue, downs>>, sock' \in Socket
      PROVE  Inv'
  BY <1>0, <1>1, <1>4, IoStays
<1>5. sock \in Socket
  BY DEF Inv, IoInv, IoTyped
<1>6. CASE HandleError
  <2>1. UNCHANGED <<conn, baseQueue, downs>> /\ sock' = [sock EXCEPT !.err = FALSE]
    BY <1>6 DEF HandleError
  <2>2. sock' \in Socket
    BY <1>5, <2>1 DEF Socket
  <2> QED BY <1>4, <2>1, <2>2
<1>7. CASE HandleHup
  <2>1. HandleClose \/ UNCHANGED <<conn, sock, baseQueue, downs>>
    BY <1>7 DEF HandleHup, UnchangedIo
  <2> QED BY <1>2, <1>4, <1>5, <2>1
<1>8. CASE HandleRead
  <2>1. CASE ~(sock.err \/ sock.data)
    BY <1>2, <1>8, <2>1 DEF HandleRead
  <2>2. CASE sock.err \/ sock.data
    <3>1. /\ UNCHANGED <<conn, baseQueue, downs>>
          /\ sock' = [sock EXCEPT !.err = FALSE] \/ sock' = [sock EXCEPT !.data = FALSE]
      BY <1>8, <2>2 DEF HandleRead
    <3>2. sock' \in Socket
      BY <1>5, <3>1 DEF Socket
    <3> QED BY <1>4, <3>1, <3>2
  <2> QED BY <2>1, <2>2
<1> QED BY <1>3, <1>6, <1>7, <1>8 DEF HandleEvent

(* Every step keeps Inv, whatever is called in whichever thread. *)
LEMMA InvStep == Inv /\ [Next]_vars => Inv'
<1> SUFFICES ASSUME Inv, [Next]_vars
             PROVE  Inv'
  OBVIOUS
<1>0. /\ IoInv /\ ioQueue \in Seq(Functors) /\ sock \in Socket
  BY DEF Inv, RestTyped, IoInv, IoTyped
<1>1. CASE NewConnection
  <2>1. /\ state_' = "kConnecting" /\ connections_' = TRUE
        /\ ioQueue' = Append(ioQueue, "connectEstablished")
        /\ UNCHANGED <<reading_, channel_, out, sock, revents, baseQueue, userRef, userPc,
                       userOp, racy, unqueued, downs>>
    BY <1>1 DEF NewConnection, user
  <2>2. "connectEstablished" \in Functors
    BY DEF Functors, StrongFunctors
  <2>3. /\ ioQueue' \in Seq(Functors)
        /\ Holds(ioQueue', "connectDestroyed") => Holds(ioQueue, "connectDestroyed")
    BY <1>0, <2>1, <2>2, AppendHolds
  <2>4. IoInv'
    BY <1>0, <2>1 DEF IoInv, IoTyped, IoWatched, Watched, isWriting, States
  <2> QED BY <2>1, <2>3, <2>4 DEF Inv, NotRemoved, RestTyped
<1>2. CASE RemoveConnectionInLoop
  <2>1. /\ baseQueue > 0 /\ baseQueue' = baseQueue - 1
        /\ connections_' = FALSE
        /\ ioQueue' = Append(ioQueue, "connectDestroyed")
        /\ UNCHANGED <<conn, sock, revents, userRef, userPc, userOp, racy, unqueued, downs>>
    BY <1>2 DEF RemoveConnectionInLoop, user
  <2>2. "connectDestroyed" \in Functors
    BY DEF Functors, StrongFunctors
  <2>3. ioQueue' \in Seq(Functors)
    BY <1>0, <2>1, <2>2, AppendHolds
  <2>4. downs # 0 /\ baseQueue' \in Nat
    BY <1>0, <2>1 DEF IoInv, IoTyped, IoWatched, Watched
  <2>5. IoInv'
    BY <1>0, <2>1, <2>4 DEF IoInv, IoTyped, IoWatched, Watched, conn
  <2> QED BY <2>1, <2>3, <2>4, <2>5 DEF Inv, NotRemoved, RestTyped
<1>3. CASE HandleEvent
  BY <1>3, HandleEventKeeps
<1>4. CASE \E f \in StrongFunctors \cup RawFunctors : RunFunctor(f)
  BY <1>4, RunFunctorKeeps
<1>5. ASSUME NEW writable \in BOOLEAN, Poll(writable)
      PROVE  Inv'
  <2>1. UNCHANGED <<conn, sock, ioQueue, baseQueue, connections_, user, downs>>
    BY <1>5 DEF Poll
  <2>2. revents' \in SUBSET {"HUP", "ERR", "IN", "OUT"}
    BY <1>5 DEF Poll, Reported
  <2>3. IoInv'
    BY <1>0, <2>1, IoStays DEF user
  <2> QED BY <2>1, <2>2, <2>3 DEF Inv, NotRemoved, RestTyped, user
<1>6. CASE \E op \in LoopOps : LoopCall(op)
  BY <1>6, LoopCallKeeps
<1>7. CASE GetRef \/ DropRef
  <2>1. /\ userRef' \in BOOLEAN
        /\ UNCHANGED <<conn, sock, revents, ioQueue, baseQueue, connections_, userPc, userOp,
                       racy, unqueued, downs>>
    BY <1>7 DEF GetRef, DropRef
  <2>2. IoInv'
    BY <1>0, <2>1, IoStays DEF user
  <2> QED BY <2>1, <2>2 DEF Inv, NotRemoved, RestTyped
<1>8. CASE UserSetState
  <2>1. /\ userPc = "setState" /\ userPc' = "queue" /\ state_' = "kDisconnecting"
        /\ UNCHANGED <<reading_, channel_, out, sock, revents, ioQueue, baseQueue,
                       connections_, userRef, userOp, racy, unqueued, downs>>
    BY <1>8 DEF UserSetState
  <2>2. IoInv'
    BY <1>0, <2>1 DEF IoInv, IoTyped, IoWatched, Watched, isWriting, States
  <2> QED BY <2>1, <2>2 DEF Inv, NotRemoved, RestTyped
<1>9. CASE UserQueue
  <2> DEFINE f == [send |-> "sendInLoop", shutdown |-> "shutdownInLoop",
                   forceClose |-> "forceCloseInLoop", startRead |-> "startReadInLoop",
                   stopRead |-> "stopReadInLoop"][userOp]
  <2>1. /\ userPc = "queue" /\ userPc' = "idle" /\ userOp' = "none"
        /\ ioQueue' = Append(ioQueue, f)
        /\ UNCHANGED <<conn, sock, revents, baseQueue, connections_, userRef, racy, unqueued,
                       downs>>
    BY <1>9 DEF UserQueue
  <2>2. userOp \in Ops /\ userOp # "sendBytes"
    BY <2>1 DEF Inv, RestTyped
  <2>3. f \in Functors /\ f # "connectDestroyed"
    BY <2>2, QueuedIs DEF Functors
  <2> HIDE DEF f
  <2>4. /\ ioQueue' \in Seq(Functors)
        /\ Holds(ioQueue', "connectDestroyed") => Holds(ioQueue, "connectDestroyed")
    BY <1>0, <2>1, <2>3, AppendHolds
  <2>5. IoInv'
    BY <1>0, <2>1, IoStays DEF user
  <2> QED BY <2>1, <2>4, <2>5 DEF Inv, NotRemoved, RestTyped
<1>10. ASSUME NEW op \in UserOps, UserCall(op)
       PROVE  Inv'
  <2>1. /\ userOp' = op /\ racy' \in BOOLEAN /\ unqueued' = (unqueued \/ op = "sendBytes")
        /\ userPc' \in {"setState", "queue", "append"}
        /\ userPc' = "append" <=> op = "sendBytes"
        /\ UNCHANGED <<conn, sock, revents, ioQueue, baseQueue, connections_, userRef, downs>>
    BY <1>10 DEF UserCall
  <2>2. op \in Ops
    BY ConstantsAssumption
  <2>3. IoInv'
    BY <1>0, <2>1, IoStays DEF user
  <2> QED BY <2>1, <2>2, <2>3 DEF Inv, NotRemoved, RestTyped
<1>11. CASE PeerSends \/ PeerCloses \/ PeerResets
  <2>1. UNCHANGED <<conn, revents, ioQueue, baseQueue, connections_, user, downs>>
    BY <1>11 DEF PeerSends, PeerCloses, PeerResets, Peer
  <2>2. \/ sock' = [sock EXCEPT !.data = TRUE]
        \/ sock' = [sock EXCEPT !.eof = TRUE]
        \/ sock' = [sock EXCEPT !.reset = TRUE, !.err = TRUE, !.data = FALSE]
    BY <1>11 DEF PeerSends, PeerCloses, PeerResets, Peer
  <2>3. sock' \in Socket
    BY <1>0, <2>2 DEF Socket
  <2>4. IoInv'
    BY <1>0, <2>1, <2>3, IoStays DEF user
  <2> QED BY <2>1, <2>4 DEF Inv, NotRemoved, RestTyped, user
<1>12. CASE UNCHANGED vars
  <2>1. UNCHANGED <<conn, sock, revents, ioQueue, baseQueue, connections_, user, downs>>
    BY <1>12 DEF vars
  <2>2. IoInv'
    BY <1>0, <2>1, IoStays DEF user
  <2> QED BY <2>1, <2>2 DEF Inv, NotRemoved, RestTyped, user
<1>13. CASE UserAppend
  <2>1. /\ userPc = "append" /\ userPc' = "enable" /\ out' \in {out, MaxOut}
        /\ UNCHANGED <<state_, reading_, channel_, sock, revents, ioQueue, baseQueue,
                       connections_, userRef, userOp, racy, unqueued, downs>>
    BY <1>13 DEF UserAppend
  <2>2. unqueued /\ out' \in 0..MaxOut
    BY <2>1, ConstantsAssumption DEF Inv, RestTyped, IoInv, IoTyped
  <2>3. IoInv'
    BY <1>0, <2>1, <2>2 DEF IoInv, IoTyped, IoWatched
  <2> QED BY <2>1, <2>2, <2>3 DEF Inv, NotRemoved, RestTyped
<1>14. CASE UserEnable
  <2>1. /\ userPc = "enable" /\ userPc' = "idle" /\ userOp' = "none"
        /\ UNCHANGED <<state_, reading_, out, sock, revents, ioQueue, baseQueue,
                       connections_, userRef, racy, unqueued, downs>>
    BY <1>14 DEF UserEnable
  <2>2. unqueued /\ Chan(channel_)
    BY <2>1 DEF Inv, RestTyped, IoInv, IoTyped
  <2>3. Chan(channel_')
    <3>1. channel_.events \in SUBSET {"read", "write"}
      BY <2>2 DEF Chan, Channel
    <3>2. \/ channel_' = channel_
          \/ \E ev \in SUBSET {"read", "write"} : channel_' = SetEvents(channel_, ev)
      BY <1>14, <3>1 DEF UserEnable
    <3> QED BY <2>2, <3>2, SetEventsIs
  <2>4. IoInv'
    BY <1>0, <2>1, <2>2, <2>3 DEF IoInv, IoTyped, IoWatched
  <2> QED BY <2>1, <2>2, <2>4 DEF Inv, NotRemoved, RestTyped
<1> QED BY <1>1, <1>2, <1>3, <1>4, <1>5, <1>6, <1>7, <1>8, <1>9, <1>10, <1>11, <1>12, <1>13,
           <1>14
        DEF Next, IoStep

(* An open connection with bytes in outputBuffer_ is registered for        *)
(* writing and one without is not, whatever is called in any thread except *)
(* send(const void*, int) outside the loop.                                *)
THEOREM OutputIsWatched == Spec => []OutputWatched
<1>1. Inv => OutputWatched
  BY DEF Inv, IoInv, IoWatched, Watched, OutputWatched
<1> QED BY <1>1, InvInit, InvStep, PTL DEF Spec

(* shutdownInLoop, and handleWrite when it has written the last byte, are  *)
(* the only ones that shut the socket down, and there is no output then,   *)
(* unless send(const void*, int) was called outside the loop.              *)
THEOREM ShutdownWaits == Spec => ShutdownAfterOutput
<1> DEFINE A == sock'.shut /\ ~sock.shut /\ downs = 0 /\ ~unqueued => out' = 0
<1>1. Inv /\ [Next]_vars => [A]_vars
  <2> SUFFICES ASSUME Inv, Next, sock'.shut, ~sock.shut, downs = 0, ~unqueued
               PROVE  out' = 0
    OBVIOUS
  <2>0. sock \in Socket /\ out \in Nat /\ (out > 0 <=> isWriting)
    BY ConstantsAssumption DEF Inv, IoInv, IoTyped, IoWatched, Watched
  <2>1. sock' # sock
    OBVIOUS
  <2>2. ASSUME ShutdownInLoop, out' = out
        PROVE  out' = 0
    <3>1. ~isWriting
      BY <2>0, <2>2 DEF ShutdownInLoop, Socket
    <3> QED BY <2>0, <2>2, <3>1
  <2>3. CASE HandleWrite
    BY <2>1, <2>3 DEF HandleWrite, UnchangedIo
  <2>4. CASE HandleHup \/ HandleError \/ HandleRead
    BY <2>0, <2>1, <2>4 DEF HandleHup, HandleError, HandleRead, HandleClose, UnchangedIo, Socket
  <2>5. ASSUME NEW f \in StrongFunctors \cup RawFunctors, RunFunctor(f)
        PROVE  out' = 0
    <3>1. CASE f = "shutdownInLoop" /\ Alive
      <4>1. ShutdownInLoop /\ UNCHANGED conn
        BY <2>5, <3>1 DEF RunFunctor
      <4> QED BY <2>2, <4>1 DEF conn
    <3>2. CASE f \in RawFunctors /\ ~Alive
      BY <2>1, <2>5, <3>2 DEF RunFunctor
    <3>3. CASE f # "shutdownInLoop" /\ ~(f \in RawFunctors /\ ~Alive)
      BY <2>1, <2>5, <3>3
         DEF RunFunctor, StrongFunctors, RawFunctors, ConnectEstablished, ConnectDestroyed,
             ForceCloseInLoop, HandleClose, UnchangedIo, SendInLoop, StartReadInLoop,
             StopReadInLoop
    <3> QED BY <3>1, <3>2, <3>3 DEF RawFunctors
  <2>6. ASSUME NEW op \in LoopOps, LoopCall(op)
        PROVE  out' = 0
    <3>1. CASE op = "shutdown"
      BY <2>2, <2>6, <3>1 DEF LoopCall
    <3>2. CASE op # "shutdown"
      BY <2>1, <2>6, <3>2, ConstantsAssumption
         DEF LoopCall, Ops, SendInLoop, UnchangedIo, StartReadInLoop, StopReadInLoop
    <3> QED BY <3>1, <3>2
  <2>7. CASE PeerSends \/ PeerCloses \/ PeerResets
    BY <2>0, <2>7 DEF PeerSends, PeerCloses, PeerResets, Peer, Socket
  <2>8. CASE \/ NewConnection \/ RemoveConnectionInLoop
             \/ (\E writable \in BOOLEAN : Poll(writable))
             \/ GetRef \/ DropRef \/ UserSetState \/ UserQueue \/ UserAppend \/ UserEnable
             \/ (\E op \in UserOps : UserCall(op))
    BY <2>1, <2>8 DEF NewConnection, RemoveConnectionInLoop, Poll, GetRef, DropRef, UserSetState,
                      UserQueue, UserAppend, UserEnable, UserCall
  <2> QED BY <2>3, <2>4, <2>5, <2>6, <2>7, <2>8 DEF Next, IoStep, HandleEvent
<1>2. ShutdownAfterOutput <=> [][A]_vars
  BY DEF ShutdownAfterOutput
<1> QED BY <1>1, <1>2, InvInit, InvStep, PTL DEF Spec
-----------------------------------------------------------------------------
\* The life of a connection that is used as it should be: what is queued and
\* what the server, the loop and the poller hold in each state.
Quiet == /\ userPc \notin {"setState", "append", "enable"}
         /\ userPc = "queue" => userOp = "send" /\ userRef
         /\ ~Holds(ioQueue, "startReadInLoop") /\ ~Holds(ioQueue, "stopReadInLoop")
         /\ Once(ioQueue, "connectEstablished") /\ Once(ioQueue, "connectDestroyed")

NotYet == state_ = "none" =>
            /\ ~connections_ /\ ~userRef /\ revents = {} /\ baseQueue = 0 /\ downs = 0
            /\ ioQueue = <<>> /\ channel_.index = "KNew"

Connecting == state_ = "kConnecting" =>
                /\ connections_ /\ ~userRef /\ revents = {} /\ baseQueue = 0 /\ downs = 0
                /\ ioQueue = <<"connectEstablished">> /\ channel_.index = "KNew"

Up == state_ \in Open =>
        /\ connections_ /\ baseQueue = 0 /\ downs = 0
        /\ "read" \in channel_.events /\ channel_.index = "KAdded"
        /\ ~Holds(ioQueue, "connectEstablished") /\ ~Holds(ioQueue, "connectDestroyed")

\* Its removal is queued in the base loop, then in the I/O loop, then done.
Removing == IF connections_
            THEN /\ baseQueue = 1 /\ channel_.mapped
                 /\ ~Holds(ioQueue, "connectDestroyed")
            ELSE /\ baseQueue = 0
                 /\ Holds(ioQueue, "connectDestroyed") <=> channel_.mapped
                 /\ ~channel_.mapped => ~channel_.added

Down == state_ = "kDisconnected" =>
          /\ downs = 1 /\ channel_.events = {} /\ channel_.index # "KAdded"
          /\ revents \subseteq {"ERR", "OUT"}
          /\ ~Holds(ioQueue, "connectEstablished")
          /\ Removing

Life == /\ failed = "none" \/ UseAfterDestruction
        /\ Quiet /\ NotYet /\ Connecting /\ Up /\ Down

\* A change of the queue that adds or takes none of the functors Life names.
SameInQueue == /\ \A g \in {"connectEstablished", "connectDestroyed", "startReadInLoop",
                            "stopReadInLoop"} : Holds(ioQueue', g) <=> Holds(ioQueue, g)
               /\ Once(ioQueue', "connectEstablished") /\ Once(ioQueue', "connectDestroyed")

QuietUser == /\ userPc \notin {"setState", "append", "enable"}
             /\ userPc = "queue" => userOp = "send" /\ userRef

(* A step of a connection that is up and stays up, or is down. *)
LEMMA LifeGoesOn ==
    ASSUME Inv, Life, state_ \in Open \cup {"kDisconnected"},
           SameInQueue, QuietUser', failed' = "none" \/ UseAfterDestruction',
           UNCHANGED <<connections_, baseQueue, downs>>,
           state_ \in Open => /\ state_' \in Open
                              /\ "read" \in channel_'.events /\ channel_'.index = "KAdded",
           state_ = "kDisconnected" => /\ state_' = "kDisconnected" /\ channel_' = channel_
                                       /\ revents' \subseteq {"ERR", "OUT"}
    PROVE  Life'
<1>1. Quiet'
  BY DEF Life, Quiet, QuietUser, SameInQueue
<1>2. CASE state_ \in Open
  <2>1. Up'
    BY <1>2 DEF Life, Up, SameInQueue
  <2>2. NotYet' /\ Connecting' /\ Down'
    BY <1>2 DEF NotYet, Connecting, Down, Open
  <2> QED BY <1>1, <2>1, <2>2 DEF Life
<1>3. CASE state_ = "kDisconnected"
  <2>1. Down
    BY DEF Life
  <2>2. Removing'
    BY <1>3, <2>1 DEF Down, Removing, SameInQueue
  <2>3. Down'
    BY <1>3, <2>1, <2>2 DEF Down, SameInQueue
  <2>4. NotYet' /\ Connecting' /\ Up'
    BY <1>3 DEF NotYet, Connecting, Up, Open
  <2> QED BY <1>1, <2>3, <2>4 DEF Life
<1> QED BY <1>2, <1>3

(* handleClose of a connection that is up. *)
LEMMA LifeCloses ==
    ASSUME Inv, Life, state_ \in Open, HandleClose, SameInQueue,
           UNCHANGED <<connections_, userRef, userPc, userOp>>,
           failed = "none", revents' \subseteq {"ERR", "OUT"}
    PROVE  Life'
<1>1. /\ connections_ /\ baseQueue = 0 /\ downs = 0 /\ channel_.index = "KAdded"
      /\ ~Holds(ioQueue, "connectEstablished") /\ ~Holds(ioQueue, "connectDestroyed")
  BY DEF Life, Up
<1>2. /\ failed' = "none" /\ state_' = "kDisconnected" /\ downs' = 1 /\ baseQueue' = 1
      /\ channel_' = SetEvents(channel_, {})
  BY <1>1 DEF HandleClose
<1>3. channel_'.events = {} /\ channel_'.index = "KDeleted" /\ channel_'.mapped
  <2> DEFINE d == SetEvents(channel_, {})
  <2>1. d.events = {} /\ d.index = "KDeleted" /\ d.mapped
    BY <1>1, SetEventsIs DEF Inv, IoInv, IoTyped
  <2> HIDE DEF d
  <2> QED BY <1>2, <2>1 DEF d
<1>4. Down'
  BY <1>1, <1>2, <1>3 DEF Down, Removing, SameInQueue
<1>5. Quiet'
  BY DEF Life, Quiet, SameInQueue
<1>6. NotYet' /\ Connecting' /\ Up'
  BY <1>2 DEF NotYet, Connecting, Up, Open
<1> QED BY <1>2, <1>4, <1>5, <1>6 DEF Life

(* sendInLoop of a connection that is up or down. *)
LEMMA LifeSends ==
    ASSUME Inv, Life, state_ \in Open \cup {"kDisconnected"}, SendInLoop
    PROVE  /\ UNCHANGED <<state_, baseQueue, downs, failed>>
           /\ state_ \in Open => "read" \in channel_'.events /\ channel_'.index = "KAdded"
           /\ state_ = "kDisconnected" => channel_' = channel_
<1>1. UNCHANGED <<state_, baseQueue, downs, failed>>
  BY DEF SendInLoop
<1>2. state_ = "kDisconnected" => channel_' = channel_
  BY DEF SendInLoop, Sendable
<1>3. ASSUME state_ \in Open
      PROVE  "read" \in channel_'.events /\ channel_'.index = "KAdded"
  <2>1. "read" \in channel_.events /\ channel_.index = "KAdded"
    BY <1>3 DEF Life, Up
  <2>2. CASE channel_' = channel_
    BY <2>1, <2>2
  <2>3. CASE channel_' = SetEvents(channel_, channel_.events \cup {"write"})
    <3>1. channel_.events \cup {"write"} \in SUBSET {"read", "write"} /\ Chan(channel_)
      BY DEF Inv, IoInv, IoTyped, Chan, Channel
    <3>2. /\ channel_'.events = channel_.events \cup {"write"}
          /\ channel_'.index = "KAdded"
      BY <2>3, <3>1, SetEventsIs
    <3> QED BY <2>1, <3>2
  <2> QED BY <2>2, <2>3 DEF SendInLoop
<1> QED BY <1>1, <1>2, <1>3

(* Running a functor: connectEstablished finds a connection that is        *)
(* connecting, connectDestroyed one that is down and still in the poller.  *)
LEMMA RunFunctorLife ==
    ASSUME Inv, Life, NEW f \in Functors, RunFunctor(f)
    PROVE  Life'
<1>0. /\ ioQueue \in Seq(Functors) /\ ioQueue # <<>> /\ f = Head(ioQueue)
      /\ ioQueue' = Tail(ioQueue) /\ revents = {} /\ failed = "none"
      /\ UNCHANGED <<revents, connections_, userRef, userPc, userOp>>
  BY DEF Inv, RestTyped, RunFunctor, user, Running
<1>1. /\ Holds(ioQueue, f)
      /\ \A g : Holds(ioQueue', g) => Holds(ioQueue, g)
      /\ \A g : g # f /\ Holds(ioQueue, g) => Holds(ioQueue', g)
      /\ Once(ioQueue', "connectEstablished") /\ Once(ioQueue', "connectDestroyed")
      /\ Once(ioQueue, f) => ~Holds(ioQueue', f)
  BY <1>0, TailHolds DEF Life, Quiet
<1>2. f # "startReadInLoop" /\ f # "stopReadInLoop"
  BY <1>1 DEF Life, Quiet
<1>3. /\ state_ # "none"
      /\ state_ = "kConnecting" => f = "connectEstablished" /\ ioQueue' = <<>>
      /\ f = "connectEstablished" => state_ = "kConnecting"
      /\ f = "connectDestroyed" => state_ = "kDisconnected"
  <2>1. state_ # "none"
    BY <1>0 DEF Life, NotYet
  <2>2. state_ = "kConnecting" => f = "connectEstablished" /\ ioQueue' = <<>>
    BY <1>0 DEF Life, Connecting
  <2>3. state_ \in Open \cup {"none", "kConnecting", "kDisconnected"}
    BY DEF Inv, IoInv, IoTyped, States, Open
  <2>4. f = "connectEstablished" => state_ = "kConnecting"
    BY <1>1, <2>1, <2>3 DEF Life, Up, Down
  <2>5. f = "connectDestroyed" => state_ = "kDisconnected"
    BY <1>1, <2>1, <2>2, <2>3 DEF Life, Up
  <2> QED BY <2>1, <2>2, <2>4, <2>5
<1>4. state_ # "kConnecting" => state_ \in Open \cup {"kDisconnected"}
  BY <1>3 DEF Inv, IoInv, IoTyped, States, Open
<1>5. f # "connectEstablished" /\ f # "connectDestroyed" => SameInQueue
  BY <1>1, <1>2 DEF SameInQueue
<1>6. QuietUser'
  BY <1>0 DEF Life, Quiet, QuietUser
<1>7. state_ \in Open => "read" \in channel_.events /\ channel_.index = "KAdded"
  BY DEF Life, Up
<1>8. ASSUME f # "connectEstablished", f # "connectDestroyed",
             UNCHANGED <<conn, baseQueue, downs>>,
             failed' = "none" \/ UseAfterDestruction'
      PROVE  Life'
  BY <1>0, <1>3, <1>4, <1>5, <1>6, <1>7, <1>8, LifeGoesOn DEF conn
<1>9. CASE f \in RawFunctors /\ ~Alive
  BY <1>8, <1>9 DEF RunFunctor, UseAfterDestruction, RawFunctors
<1>10. CASE ~(f \in RawFunctors /\ ~Alive)
  <2>1. CASE f = "connectEstablished"
    <3>1. /\ ConnectEstablished /\ state_ = "kConnecting" /\ ioQueue' = <<>>
      BY <1>10, <2>1, <1>3 DEF RunFunctor
    <3>2. /\ state_' = "kConnected" /\ failed' = "none" /\ connections_'
          /\ baseQueue' = 0 /\ downs' = 0
          /\ channel_' = SetEvents(channel_, channel_.events \cup {"read"})
      BY <1>0, <3>1 DEF ConnectEstablished, Life, Connecting
    <3>3. "read" \in channel_'.events /\ channel_'.index = "KAdded"
      <4>1. channel_.events \cup {"read"} \in SUBSET {"read", "write"} /\ Chan(channel_)
        BY DEF Inv, IoInv, IoTyped, Chan, Channel
      <4>2. /\ channel_'.events = channel_.events \cup {"read"}
            /\ channel_'.index = "KAdded"
        BY <3>2, <4>1, SetEventsIs
      <4> QED BY <4>2
    <3>4. \A g : ~Holds(ioQueue', g)
      BY <3>1 DEF Holds
    <3>5. Up' /\ NotYet' /\ Connecting' /\ Down'
      BY <3>2, <3>3, <3>4 DEF Up, NotYet, Connecting, Down
    <3>6. Quiet'
      BY <1>1, <1>6, <3>4 DEF Quiet, QuietUser
    <3> QED BY <3>2, <3>5, <3>6 DEF Life
  <2>2. CASE f = "connectDestroyed"
    <3>1. ConnectDestroyed /\ state_ = "kDisconnected" /\ Down
      BY <1>10, <2>2, <1>3 DEF RunFunctor, Life
    <3>2. /\ ~connections_ /\ baseQueue = 0 /\ channel_.mapped /\ channel_.events = {}
          /\ downs = 1
      BY <1>1, <2>2, <3>1 DEF Down, Removing
    <3>3. /\ channel_' = Removed(channel_) /\ failed' = "none"
          /\ UNCHANGED <<state_, downs, baseQueue>>
      BY <1>0, <3>1, <3>2 DEF ConnectDestroyed, Removable
    <3>4. /\ channel_'.events = {} /\ channel_'.index = "KNew"
          /\ ~channel_'.mapped /\ ~channel_'.added
      BY <3>2, <3>3, RemovedIs DEF Inv, IoInv, IoTyped
    <3>5. ~Holds(ioQueue', "connectDestroyed") /\ ~Holds(ioQueue', "connectEstablished")
      BY <1>1, <2>2, <3>1 DEF Life, Quiet, Down
    <3>6. Down'
      BY <1>0, <3>1, <3>2, <3>3, <3>4, <3>5 DEF Down, Removing
    <3>7. Up' /\ NotYet' /\ Connecting'
      BY <3>1, <3>3 DEF Up, NotYet, Connecting, Open
    <3>8. Quiet'
      BY <1>1, <1>6 DEF Life, Quiet, QuietUser
    <3> QED BY <3>3, <3>6, <3>7, <3>8 DEF Life
  <2>3. CASE f = "forceCloseInLoop"
    <3>1. ForceCloseInLoop
      BY <1>10, <2>3 DEF RunFunctor
    <3>2. CASE state_ \in Open
      <4>1. HandleClose
        BY <3>1, <3>2 DEF ForceCloseInLoop
      <4> QED BY <1>0, <1>5, <2>3, <3>2, <4>1, LifeCloses
    <3>3. CASE state_ \notin Open
      <4>1. UnchangedIo
        BY <3>1, <3>3 DEF ForceCloseInLoop
      <4> QED BY <1>0, <1>8, <2>3, <4>1 DEF UnchangedIo
    <3> QED BY <3>2, <3>3
  <2>4. CASE f = "sendInLoop"
    <3>1. SendInLoop /\ state_ \in Open \cup {"kDisconnected"}
      BY <1>10, <2>4, <1>3, <1>4 DEF RunFunctor
    <3>2. /\ UNCHANGED <<state_, baseQueue, downs, failed>>
          /\ state_ \in Open => "read" \in channel_'.events /\ channel_'.index = "KAdded"
          /\ state_ = "kDisconnected" => channel_' = channel_
      BY <3>1, LifeSends
    <3> QED BY <1>0, <1>5, <1>6, <2>4, <3>1, <3>2, LifeGoesOn
  <2>5. CASE f = "shutdownInLoop"
    BY <1>0, <1>8, <1>10, <2>5 DEF RunFunctor
  <2> QED BY <1>2, <2>1, <2>2, <2>3, <2>4, <2>5 DEF Functors, StrongFunctors, RawFunctors
<1> QED BY <1>9, <1>10

(* An event finds a connection that is up, or is one of those left over    *)
(* when it went down.                                                      *)
LEMMA HandleEventLife ==
    ASSUME Inv, Life, HandleEvent
    PROVE  Life'
<1>0. /\ failed = "none" /\ revents # {} /\ revents \in SUBSET {"HUP", "ERR", "IN", "OUT"}
      /\ revents' \subseteq revents
      /\ UNCHANGED <<ioQueue, connections_, userRef, userPc, userOp>>
  BY DEF Inv, RestTyped, HandleEvent, HandleHup, HandleError, HandleRead, HandleWrite, user,
         Running
<1>1. state_ \in Open \cup {"kDisconnected"}
  BY <1>0 DEF Life, NotYet, Connecting, Inv, IoInv, IoTyped, States, Open
<1>2. state_ = "kDisconnected" => revents \subseteq {"ERR", "OUT"} /\ channel_.events = {}
  BY DEF Life, Down
<1>3. SameInQueue /\ QuietUser'
  BY <1>0 DEF SameInQueue, QuietUser, Life, Quiet
<1>4. state_ \in Open => "read" \in channel_.events /\ channel_.index = "KAdded"
  BY DEF Life, Up
<1>5. ASSUME UNCHANGED <<conn, baseQueue, downs, failed>>
      PROVE  Life'
  BY <1>0, <1>1, <1>2, <1>3, <1>4, <1>5, LifeGoesOn DEF conn
<1>6. CASE HandleHup
  <2>1. state_ \in Open
    BY <1>1, <1>2, <1>6 DEF HandleHup
  <2>2. CASE "IN" \in revents
    BY <1>5, <1>6, <2>2 DEF HandleHup, UnchangedIo
  <2>3. CASE "IN" \notin revents
    <3>1. HandleClose /\ revents' \subseteq {"ERR", "OUT"}
      BY <1>0, <1>6, <2>3 DEF HandleHup
    <3> QED BY <1>0, <1>3, <2>1, <3>1, LifeCloses
  <2> QED BY <2>2, <2>3
<1>7. CASE HandleError
  BY <1>5, <1>7 DEF HandleError
<1>8. CASE HandleRead
  <2>1. state_ \in Open
    BY <1>1, <1>2, <1>8 DEF HandleRead
  <2>2. CASE sock.err \/ sock.data
    BY <1>5, <1>8, <2>2 DEF HandleRead
  <2>3. CASE ~(sock.err \/ sock.data)
    <3>1. HandleClose /\ revents' \subseteq {"ERR", "OUT"}
      BY <1>0, <1>8, <2>3 DEF HandleRead
    <3> QED BY <1>0, <1>3, <2>1, <3>1, LifeCloses
  <2> QED BY <2>2, <2>3
<1>9. CASE HandleWrite
  <2>1. CASE UnchangedIo
    BY <1>5, <2>1 DEF UnchangedIo
  <2>2. CASE ~UnchangedIo
    <3>1. /\ isWriting /\ UNCHANGED <<state_, baseQueue, downs, failed>>
          /\ \/ channel_' = SetEvents(channel_, channel_.events \ {"write"})
             \/ channel_' = channel_
      BY <1>9, <2>2 DEF HandleWrite
    <3>2. state_ \in Open
      BY <1>1, <1>2, <3>1 DEF isWriting
    <3>3. "read" \in channel_'.events /\ channel_'.index = "KAdded"
      <4>1. channel_.events \ {"write"} \in SUBSET {"read", "write"} /\ Chan(channel_)
        BY DEF Inv, IoInv, IoTyped, Chan, Channel
      <4>2. CASE channel_' = SetEvents(channel_, channel_.events \ {"write"})
        <5>1. "read" \in channel_.events \ {"write"}
          BY <1>4, <3>2
        <5>2. /\ channel_'.events = channel_.events \ {"write"}
              /\ channel_'.index = "KAdded"
          BY <4>1, <4>2, <5>1, SetEventsIs
        <5> QED BY <5>1, <5>2
      <4>3. CASE channel_' = channel_
        BY <1>4, <3>2, <4>3
      <4> QED BY <3>1, <4>2, <4>3
    <3>4. state_ # "kDisconnected" /\ state_' \in Open
      BY <3>1, <3>2 DEF Open
    <3> QED BY <1>0, <1>1, <1>3, <3>1, <3>3, <3>4, LifeGoesOn
  <2> QED BY <2>1, <2>2
<1> QED BY <1>6, <1>7, <1>8, <1>9 DEF HandleEvent

(* A call in the I/O loop, of what is safe there. *)
LEMMA LoopCallLife ==
    ASSUME Inv, Life, NEW op \in LoopOps, LoopCall(op), ~racy'
    PROVE  Life'
<1>0. /\ failed = "none" /\ ioQueue \in Seq(Functors)
      /\ op \in {"send", "sendBytes", "shutdown", "forceClose"}
      /\ UNCHANGED <<revents, connections_, userRef, userPc, userOp>>
  BY ConstantsAssumption DEF Inv, RestTyped, LoopCall, Running, Ops
<1>1. state_ \in Open \cup {"kDisconnected"}
  BY DEF LoopCall, Life, NotYet, Inv, IoInv, IoTyped, States, Open
<1>2. QuietUser'
  BY <1>0 DEF QuietUser, Life, Quiet
<1>3. /\ state_ \in Open => "read" \in channel_.events /\ channel_.index = "KAdded"
      /\ state_ = "kDisconnected" => revents \subseteq {"ERR", "OUT"}
  BY DEF Life, Up, Down
<1>4. ioQueue' = ioQueue => SameInQueue
  BY DEF SameInQueue, Life, Quiet
<1>5. CASE op \in {"send", "sendBytes"}
  <2>1. (SendInLoop \/ UnchangedIo) /\ ioQueue' = ioQueue
    BY <1>5 DEF LoopCall
  <2>2. /\ UNCHANGED <<state_, baseQueue, downs, failed>>
        /\ state_ \in Open => "read" \in channel_'.events /\ channel_'.index = "KAdded"
        /\ state_ = "kDisconnected" => channel_' = channel_
    BY <1>1, <1>3, <2>1, LifeSends DEF UnchangedIo, conn
  <2> QED BY <1>0, <1>1, <1>2, <1>3, <1>4, <2>1, <2>2, LifeGoesOn
<1>6. CASE op = "shutdown"
  <2>1. /\ state_ \in Open /\ state_' \in Open /\ state_ # "kDisconnected"
        /\ UNCHANGED <<channel_, ioQueue, baseQueue, downs, failed>>
    BY <1>6 DEF LoopCall, Open
  <2> QED BY <1>0, <1>1, <1>2, <1>3, <1>4, <2>1, LifeGoesOn
<1>7. CASE op = "forceClose"
  <2>1. /\ state_ \in Open /\ state_' \in Open /\ state_ # "kDisconnected"
        /\ ioQueue' = Append(ioQueue, "forceCloseInLoop")
        /\ UNCHANGED <<channel_, baseQueue, downs, failed>>
    BY <1>7 DEF LoopCall, Open
  <2>2. "forceCloseInLoop" \in Functors
    BY DEF Functors, StrongFunctors
  <2>3. /\ \A g : Holds(ioQueue', g) <=> Holds(ioQueue, g) \/ g = "forceCloseInLoop"
        /\ Once(ioQueue, "connectEstablished") => Once(ioQueue', "connectEstablished")
        /\ Once(ioQueue, "connectDestroyed") => Once(ioQueue', "connectDestroyed")
    BY <1>0, <2>1, <2>2, AppendHolds
  <2>4. SameInQueue
    BY <2>3 DEF SameInQueue, Life, Quiet
  <2> QED BY <1>0, <1>1, <1>2, <1>3, <2>1, <2>4, LifeGoesOn
<1> QED BY <1>0, <1>5, <1>6, <1>7

(* Every step of a connection that is used as it should be keeps Life. *)
LEMMA LifeStep ==
    ASSUME Inv, Life, [Next]_vars, ~racy'
    PROVE  Life'
<1>0. ioQueue \in Seq(Functors) /\ baseQueue \in Nat
  BY DEF Inv, RestTyped, IoInv, IoTyped
<1>1. ASSUME UNCHANGED <<conn, revents, ioQueue, baseQueue, connections_, userRef, downs,
                         failed>>,
             QuietUser'
      PROVE  Life'
  <2>1. UNCHANGED <<state_, channel_, revents, ioQueue, baseQueue, connections_, userRef, downs,
                    failed>>
    BY <1>1 DEF conn
  <2>2. NotYet' /\ Connecting'
    BY <2>1 DEF Life, NotYet, Connecting
  <2>3. Up' /\ Down'
    BY <2>1 DEF Life, Up, Down, Removing
  <2>4. Quiet'
    BY <1>1, <2>1 DEF Life, Quiet, QuietUser
  <2> QED BY <2>1, <2>2, <2>3, <2>4 DEF Life, UseAfterDestruction
<1>2. CASE NewConnection
  <2>1. /\ state_ = "none" /\ state_' = "kConnecting" /\ connections_' = TRUE
        /\ ioQueue' = Append(ioQueue, "connectEstablished")
        /\ UNCHANGED <<channel_, revents, baseQueue, userRef, userPc, userOp, downs, failed>>
    BY <1>2 DEF NewConnection, user
  <2>2. /\ ioQueue = <<>> /\ ~userRef /\ revents = {} /\ baseQueue = 0 /\ downs = 0
        /\ channel_.index = "KNew"
    BY <2>1 DEF Life, NotYet
  <2>3. ioQueue' = <<"connectEstablished">>
    BY <2>1, <2>2
  <2>4. Connecting'
    BY <2>1, <2>2, <2>3 DEF Connecting
  <2>5. NotYet' /\ Up' /\ Down'
    BY <2>1 DEF NotYet, Up, Down, Open
  <2>6. Quiet'
    <3>1. /\ ~Holds(ioQueue', "startReadInLoop") /\ ~Holds(ioQueue', "stopReadInLoop")
          /\ Once(ioQueue', "connectEstablished") /\ Once(ioQueue', "connectDestroyed")
      BY <2>3 DEF Holds, Once
    <3> QED BY <2>1, <3>1 DEF Life, Quiet
  <2> QED BY <2>1, <2>4, <2>5, <2>6 DEF Life, UseAfterDestruction
<1>3. CASE RemoveConnectionInLoop
  <2>1. /\ baseQueue > 0 /\ baseQueue' = baseQueue - 1
        /\ failed' = IF connections_ THEN failed ELSE "removeConnectionInLoop:n==1"
        /\ connections_' = FALSE
        /\ ioQueue' = Append(ioQueue, "connectDestroyed")
        /\ UNCHANGED <<state_, channel_, revents, userRef, userPc, userOp, downs>>
    BY <1>3 DEF RemoveConnectionInLoop, user, conn
  <2>2. state_ = "kDisconnected"
    BY <2>1 DEF Inv, IoInv, IoTyped, States, Open, Life, NotYet, Connecting, Up
  <2>3. /\ Down /\ connections_ /\ baseQueue = 1 /\ channel_.mapped
        /\ ~Holds(ioQueue, "connectDestroyed") /\ ~Holds(ioQueue, "connectEstablished")
    BY <2>1, <2>2 DEF Life, Down, Removing
  <2>4. "connectDestroyed" \in Functors
    BY DEF Functors, StrongFunctors
  <2>5. /\ \A g : Holds(ioQueue', g) <=> Holds(ioQueue, g) \/ g = "connectDestroyed"
        /\ Once(ioQueue', "connectEstablished") /\ Once(ioQueue', "connectDestroyed")
    BY <1>0, <2>1, <2>3, <2>4, AppendHolds DEF Life, Quiet
  <2>6. baseQueue' = 0 /\ failed' = failed
    BY <2>1, <2>3
  <2>7. Down'
    BY <2>1, <2>2, <2>3, <2>5, <2>6 DEF Down, Removing
  <2>8. NotYet' /\ Up' /\ Connecting'
    BY <2>1, <2>2 DEF NotYet, Up, Connecting, Open
  <2>9. Quiet'
    BY <2>1, <2>5 DEF Life, Quiet
  <2> QED BY <2>6, <2>7, <2>8, <2>9 DEF Life, UseAfterDestruction
<1>4. CASE HandleEvent
  BY <1>4, HandleEventLife
<1>5. CASE \E f \in StrongFunctors \cup RawFunctors : RunFunctor(f)
  BY <1>5, RunFunctorLife DEF Functors
<1>6. ASSUME NEW writable \in BOOLEAN, Poll(writable)
      PROVE  Life'
  <2>1. /\ channel_.index = "KAdded"
        /\ UNCHANGED <<state_, channel_, ioQueue, baseQueue, connections_, userRef, userPc,
                       userOp, downs, failed>>
    BY <1>6 DEF Poll, user, conn
  <2>2. state_ \in Open
    BY <2>1 DEF Inv, IoInv, IoTyped, States, Open, Life, NotYet, Connecting, Down
  <2>3. SameInQueue /\ QuietUser'
    BY <2>1 DEF SameInQueue, QuietUser, Life, Quiet
  <2>4. /\ state_' \in Open /\ "read" \in channel_'.events /\ channel_'.index = "KAdded"
        /\ state_ # "kDisconnected"
    BY <2>1, <2>2 DEF Life, Up, Open
  <2>5. failed' = "none" \/ UseAfterDestruction'
    BY <2>1 DEF Life, UseAfterDestruction
  <2> QED BY <2>1, <2>2, <2>3, <2>4, <2>5, LifeGoesOn
<1>7. CASE \E op \in LoopOps : LoopCall(op)
  BY <1>7, LoopCallLife
<1>8. CASE GetRef \/ DropRef
  <2>1. /\ UNCHANGED <<conn, revents, ioQueue, baseQueue, connections_, userPc, userOp, downs,
                       failed>>
        /\ state_ = "kConnected" \/ (userRef /\ userPc = "idle")
        /\ userRef' = TRUE \/ userPc = "idle"
    BY <1>8 DEF GetRef, DropRef
  <2>2. state_ \in Open \cup {"kDisconnected"}
    BY <2>1 DEF Inv, IoInv, IoTyped, States, Open, Life, NotYet, Connecting
  <2>3. QuietUser'
    BY <2>1 DEF QuietUser, Life, Quiet
  <2>4. NotYet' /\ Connecting' /\ Up' /\ Down'
    BY <2>1, <2>2 DEF conn, Life, NotYet, Connecting, Up, Down, Removing, Open
  <2>5. Quiet'
    BY <2>1, <2>3 DEF Life, Quiet, QuietUser
  <2> QED BY <2>1, <2>4, <2>5 DEF Life, UseAfterDestruction
<1>9. CASE UserSetState \/ UserAppend \/ UserEnable
  BY <1>9 DEF UserSetState, UserAppend, UserEnable, Life, Quiet
<1>10. CASE UserQueue
  <2>1. /\ userPc = "queue" /\ userPc' = "idle"
        /\ ioQueue' = Append(ioQueue, [send |-> "sendInLoop", shutdown |-> "shutdownInLoop",
                                       forceClose |-> "forceCloseInLoop",
                                       startRead |-> "startReadInLoop",
                                       stopRead |-> "stopReadInLoop"][userOp])
        /\ UNCHANGED <<conn, revents, baseQueue, connections_, userRef, downs, failed>>
    BY <1>10 DEF UserQueue
  <2>2. userOp = "send" /\ userRef
    BY <2>1 DEF Life, Quiet
  <2>3. ioQueue' = Append(ioQueue, "sendInLoop") /\ "sendInLoop" \in Functors
    BY <2>1, <2>2 DEF Functors, RawFunctors
  <2>4. /\ \A g : Holds(ioQueue', g) <=> Holds(ioQueue, g) \/ g = "sendInLoop"
        /\ Once(ioQueue, "connectEstablished") => Once(ioQueue', "connectEstablished")
        /\ Once(ioQueue, "connectDestroyed") => Once(ioQueue', "connectDestroyed")
    BY <1>0, <2>3, AppendHolds
  <2>5. SameInQueue
    BY <2>4 DEF SameInQueue, Life, Quiet
  <2>6. state_ \in Open \cup {"kDisconnected"}
    BY <2>2 DEF Inv, IoInv, IoTyped, States, Open, Life, NotYet, Connecting
  <2>7. QuietUser'
    BY <2>1 DEF QuietUser
  <2>8. /\ state_ \in Open => "read" \in channel_.events /\ channel_.index = "KAdded"
        /\ state_ = "kDisconnected" => revents \subseteq {"ERR", "OUT"}
    BY DEF Life, Up, Down
  <2>9. failed' = "none" \/ UseAfterDestruction'
    BY <2>1 DEF Life, UseAfterDestruction
  <2> QED BY <2>1, <2>5, <2>6, <2>7, <2>8, <2>9, LifeGoesOn DEF conn
<1>11. ASSUME NEW op \in UserOps, UserCall(op)
       PROVE  Life'
  <2>1. /\ op = "send" /\ userOp' = "send" /\ userPc' = "queue" /\ userRef
        /\ UNCHANGED <<conn, revents, ioQueue, baseQueue, connections_, userRef, downs, failed>>
    BY <1>11 DEF UserCall
  <2>2. QuietUser'
    BY <2>1 DEF QuietUser
  <2> QED BY <1>1, <2>1, <2>2
<1>12. CASE PeerSends \/ PeerCloses \/ PeerResets
  <2>1. UNCHANGED <<conn, revents, ioQueue, baseQueue, connections_, user, downs, failed>>
    BY <1>12 DEF PeerSends, PeerCloses, PeerResets, Peer
  <2>2. QuietUser'
    BY <2>1 DEF QuietUser, Life, Quiet, user
  <2> QED BY <1>1, <2>1, <2>2 DEF user
<1>13. CASE UNCHANGED vars
  <2>1. UNCHANGED <<conn, revents, ioQueue, baseQueue, connections_, user, downs, failed>>
    BY <1>13 DEF vars
  <2>2. QuietUser'
    BY <2>1 DEF QuietUser, Life, Quiet, user
  <2> QED BY <1>1, <2>1, <2>2 DEF user
<1> QED BY <1>2, <1>3, <1>4, <1>5, <1>6, <1>7, <1>8, <1>9, <1>10, <1>11, <1>12, <1>13
        DEF Next, IoStep

(* A connection on which only safe calls were made is in one of the states *)
(* of its life.                                                            *)
LEMMA LifeHolds == Spec => [](Inv /\ (~racy => Life))
<1>1. Init => (~racy => Life)
  <2> SUFFICES ASSUME Init PROVE Life
    OBVIOUS
  <2>1. Quiet
    BY DEF Init, Quiet, Holds, Once
  <2>2. NotYet /\ Connecting /\ Up /\ Down
    BY DEF Init, NotYet, Connecting, Up, Down, Open
  <2> QED BY <2>1, <2>2 DEF Init, Life
<1>2. Inv /\ (~racy => Life) /\ [Next]_vars => (~racy' => Life')
  <2> SUFFICES ASSUME Inv, ~racy => Life, [Next]_vars, ~racy'
               PROVE  Life'
    OBVIOUS
  <2>1. ~racy
    BY DEF Next, vars, user, IoStep, HandleEvent, HandleHup, HandleError, HandleRead, HandleWrite,
           RunFunctor, Poll, LoopCall, NewConnection, RemoveConnectionInLoop, GetRef, DropRef,
           UserSetState, UserQueue, UserAppend, UserEnable, UserCall, PeerSends, PeerCloses,
           PeerResets, Peer
  <2> QED BY <2>1, LifeStep
<1> QED BY <1>1, <1>2, InvInit, InvStep, PTL DEF Spec

(* No assert of connectEstablished, handleClose, removeConnectionInLoop,   *)
(* Channel::remove and Epoller::removeChannel fails, whatever the peer     *)
(* does, as long as the user keeps to send of a string or a Buffer in      *)
(* other threads and to any send, shutdown and forceClose in the loop.     *)
THEOREM NoAssertFails == Spec => []AssertsHold
<1>1. (~racy => Life) => AssertsHold
  BY DEF Life, AssertsHold
<1> QED BY <1>1, LifeHolds, PTL

(* Then connectionCallback_ reports the end once, and closeCallback_ asks  *)
(* the server once to remove the connection.                               *)
THEOREM GoesDownOnce == Spec => []DownOnce
<1>1. Inv /\ (~racy => Life) => DownOnce
  <2> SUFFICES ASSUME Inv, Life PROVE downs <= 1 /\ baseQueue <= downs
    BY DEF DownOnce
  <2>1. state_ \in Open \cup {"none", "kConnecting", "kDisconnected"}
    BY DEF Inv, IoInv, IoTyped, States, Open
  <2>2. \/ downs = 0 /\ baseQueue = 0
        \/ downs = 1 /\ baseQueue \in {0, 1}
    BY <2>1 DEF Life, NotYet, Connecting, Up, Down, Removing
  <2> QED BY <2>2
<1> QED BY <1>1, LifeHolds, PTL

(* Then the destructors of TcpConnection and of its Channel, which run     *)
(* when the last TcpConnectionPtr goes, find the connection disconnected   *)
(* and its channel neither in the loop nor in the poller.                  *)
THEOREM DestroyedCleanly == Spec => []DestroyedClean
<1>1. Inv /\ (~racy => Life) => DestroyedClean
  <2> SUFFICES ASSUME Inv, Life, state_ # "none", ~Alive
               PROVE  /\ state_ = "kDisconnected"
                      /\ ~channel_.added /\ ~channel_.mapped /\ channel_.index = "KNew"
    BY DEF DestroyedClean
  <2>1. ~connections_ /\ ~Holds(ioQueue, "connectDestroyed")
    BY DEF Alive, Holds, StrongFunctors
  <2>2. state_ = "kDisconnected"
    BY <2>1 DEF Inv, IoInv, IoTyped, States, Open, Life, Connecting, Up
  <2>3. ~channel_.added /\ ~channel_.mapped
    BY <2>1, <2>2 DEF Life, Down, Removing
  <2>4. channel_.index = "KNew"
    BY <2>3 DEF Inv, IoInv, IoTyped, Chan, Channel
  <2> QED BY <2>2, <2>3, <2>4
<1> QED BY <1>1, LifeHolds, PTL
=============================================================================
