-------------------------- MODULE TcpServer_proofs --------------------------
(***************************************************************************)
(* Proofs about TcpServer, for any number of I/O loops, starting threads,  *)
(* clients and descriptors: a connection is owned until it is destroyed    *)
(* and no assert fails of itself, connections are dealt out evenly, and    *)
(* the EMFILE branch gets idleFd_ back.                                    *)
(***************************************************************************)
EXTENDS TcpServer, Integers, FiniteSetTheorems, TLAPS

(* Which functors wait in pendingFunctors_, and what queueing one at its   *)
(* end and running the one at its head does to the others.                 *)

Holds(q, f) == \E i \in DOMAIN q : q[i] = f
Once(q, f) == \A i, j \in DOMAIN q : q[i] = f /\ q[j] = f => i = j

(* What queueing a functor does to those that wait. *)
LEMMA AppendHolds ==
    ASSUME NEW S, NEW q \in Seq(S), NEW g \in S
    PROVE  /\ Append(q, g) \in Seq(S)
           /\ \A f : Holds(Append(q, g), f) <=> Holds(q, f) \/ f = g
           /\ \A f : Once(q, f) /\ (f = g => ~Holds(q, f)) => Once(Append(q, g), f)
<1> DEFINE r == Append(q, g)
<1>1. r \in Seq(S) /\ Len(q) \in Nat /\ Len(r) = Len(q) + 1
  OBVIOUS
<1>2. /\ \A i \in 1..Len(q) : r[i] = q[i]
      /\ r[Len(q) + 1] = g
  OBVIOUS
<1>3. DOMAIN q = 1..Len(q) /\ DOMAIN r = 1..(Len(q) + 1)
  BY <1>1
<1>4. ASSUME NEW f PROVE Holds(r, f) <=> Holds(q, f) \/ f = g
  BY <1>1, <1>2, <1>3 DEF Holds
<1>5. ASSUME NEW f, Once(q, f), f = g => ~Holds(q, f) PROVE Once(r, f)
  BY <1>1, <1>2, <1>3, <1>5 DEF Holds, Once
<1> QED BY <1>1, <1>4, <1>5

(* What running the first functor does to the others. *)
LEMMA TailHolds ==
    ASSUME NEW S, NEW q \in Seq(S), q # <<>>
    PROVE  /\ Head(q) \in S /\ Tail(q) \in Seq(S)
           /\ Holds(q, Head(q))
           /\ \A f : Holds(Tail(q), f) => Holds(q, f)
           /\ \A f : f # Head(q) /\ Holds(q, f) => Holds(Tail(q), f)
           /\ \A f : Once(q, f) => Once(Tail(q), f)
           /\ Once(q, Head(q)) => ~Holds(Tail(q), Head(q))
<1> DEFINE r == Tail(q)
<1>1. r \in Seq(S) /\ Len(q) \in Nat \ {0} /\ Len(r) = Len(q) - 1
  OBVIOUS
<1>2. \A i \in 1..(Len(q) - 1) : r[i] = q[i + 1]
  OBVIOUS
<1>3. DOMAIN q = 1..Len(q) /\ DOMAIN r = 1..(Len(q) - 1) /\ Head(q) = q[1] /\ Head(q) \in S
  BY <1>1
<1>4. Holds(q, Head(q))
  BY <1>1, <1>3 DEF Holds
<1>5. ASSUME NEW f, Holds(r, f) PROVE Holds(q, f)
  BY <1>1, <1>2, <1>3, <1>5 DEF Holds
<1>6. ASSUME NEW f, f # Head(q), Holds(q, f) PROVE Holds(r, f)
  <2>1. PICK i \in 1..Len(q) : q[i] = f
    BY <1>3, <1>6 DEF Holds
  <2>2. i - 1 \in 1..(Len(q) - 1)
    BY <1>1, <1>3, <1>6, <2>1
  <2>3. r[i - 1] = f
    BY <1>1, <1>2, <2>1, <2>2
  <2> QED BY <2>2, <2>3, <1>3 DEF Holds
<1>7. ASSUME NEW f, Once(q, f) PROVE Once(r, f)
  <2>1. \A i \in 1..(Len(q) - 1) : i + 1 \in 1..Len(q)
    BY <1>1
  <2> SUFFICES ASSUME NEW i \in 1..(Len(q) - 1), NEW j \in 1..(Len(q) - 1), r[i] = f, r[j] = f
               PROVE  i = j
    BY <1>3 DEF Once
  <2>2. i + 1 = j + 1
    BY <2>1, <1>2, <1>3, <1>7 DEF Once
  <2> QED BY <2>2, <1>1
<1>8. ASSUME Once(q, Head(q)), Holds(r, Head(q)) PROVE FALSE
  <2>1. PICK i \in 1..(Len(q) - 1) : r[i] = Head(q)
    BY <1>3, <1>8 DEF Holds
  <2>2. i + 1 \in 1..Len(q) /\ 1 \in 1..Len(q) /\ q[i + 1] = q[1] /\ i + 1 # 1
    BY <2>1, <1>1, <1>2, <1>3
  <2> QED BY <2>2, <1>3, <1>8 DEF Once
<1> QED BY <1>1, <1>3, <1>4, <1>5, <1>6, <1>7, <1>8
-----------------------------------------------------------------------------
Functors == [f : {"listen", "connectEstablished", "connectDestroyed",
                  "removeConnectionInLoop"}, c : 0..MaxClients]
States == {"none", "kConnecting", "kConnected", "kDisconnecting", "kDisconnected", "destroyed"}
Queues == [Loops -> Seq(Functors)]

Known == 1..(nextConnId_ - 1)
-----------------------------------------------------------------------------
(* The EMFILE branch of Acceptor::handleRead. *)

(* While idleFd_ is closed a descriptor is there to open it again, unless  *)
(* another thread took it: the one of idleFd_ itself, or of the client     *)
(* that was accepted in its place.                                         *)
IdleInv == /\ free \in Nat /\ others \in Nat
           /\ acceptPc \in {"idle", "accept", "close", "open"}
           /\ stolen \in BOOLEAN
           /\ stolen = FALSE => /\ acceptPc = "idle" => idleFd_ = "held"
                                /\ acceptPc \in {"accept", "open"} => free > 0
                                /\ acceptPc = "close" => free > 0 \/ idleFd_ = "client"

(* Outside handleRead the Acceptor holds idleFd_, unless another thread    *)
(* opened a descriptor while it was closed: also when the client that was  *)
(* to be turned away went away by itself.                                  *)
THEOREM IdleFdComesBack == Spec => []IdleFdBack
<1>1. Init => IdleInv
  <2> SUFFICES ASSUME Init PROVE IdleInv
    OBVIOUS
  <2>1. free \in Nat /\ others \in Nat
    BY TcpServerAssumption DEF Init
  <2>2. acceptPc = "idle" /\ idleFd_ = "held"
    BY DEF Init, AcceptorInit
  <2>3. stolen \in BOOLEAN
    BY DEF Init
  <2> QED BY <2>1, <2>2, <2>3 DEF IdleInv
<1>2. IdleInv /\ [Next]_vars => IdleInv'
  <2> SUFFICES ASSUME IdleInv, [Next]_vars PROVE IdleInv'
    OBVIOUS
  <2> USE DEF IdleInv
  <2>1. CASE UNCHANGED fds
    BY <2>1 DEF fds
  <2>2. CASE Accept
    BY <2>2 DEF Accept, Readable, Idle, accept
  <2>3. CASE Emfile
    BY <2>3 DEF Emfile, InEmfile, accept
  <2>4. CASE EmfileAccept
    BY <2>4 DEF EmfileAccept, InEmfile
  <2>5. CASE EmfileClose
    BY <2>5 DEF EmfileClose, InEmfile
  <2>6. CASE EmfileOpen
    BY <2>6 DEF EmfileOpen, InEmfile
  <2>7. CASE OthersOpen
    <3>1. stolen' = FALSE => stolen = FALSE /\ acceptPc = "idle"
      BY <2>7 DEF OthersOpen
    <3> QED BY <2>7, <3>1 DEF OthersOpen
  <2>8. CASE OthersClose
    BY <2>8 DEF OthersClose
  <2>9. \/ \E n \in Loops : SetThreadNum(n)
        \/ \E t \in Starters : Start(t) \/ StartThread(t) \/ StartListen(t)
        \/ \E c \in Conns : Shutdown(c) \/ HandleClose(c) \/ UserRemoves(c)
        \/ \E l \in Loops : RunFunctor(l)
        \/ ClientConnects \/ ClientLeaves \/ UNCHANGED vars
        => UNCHANGED fds
    BY DEF SetThreadNum, Start, StartThread, StartListen, Shutdown, HandleClose, UserRemoves,
           RunFunctor, ClientConnects, ClientLeaves, vars
  <2> QED
    BY <2>1, <2>2, <2>3, <2>4, <2>5, <2>6, <2>7, <2>8, <2>9 DEF Next, EmfileStep
<1>3. IdleInv => IdleFdBack
  <2> SUFFICES ASSUME IdleInv PROVE IdleFdBack
    OBVIOUS
  <2>1. CASE stolen = TRUE
    BY <2>1 DEF IdleFdBack
  <2>2. CASE stolen = FALSE
    <3>1. acceptPc = "idle" => idleFd_ = "held"
      BY <2>2 DEF IdleInv
    <3> QED BY <3>1 DEF IdleFdBack
  <2> QED BY <2>1, <2>2 DEF IdleInv
<1> QED BY <1>1, <1>2, <1>3, PTL DEF Spec
-----------------------------------------------------------------------------
(* The inductive invariant of the pool and of the connections. *)

Est(c) == Functor("connectEstablished", c)
Des(c) == Functor("connectDestroyed", c)
Rem(c) == Functor("removeConnectionInLoop", c)
Lis == Functor("listen", 0)

(* There are no more connections than clients. *)
Counted == /\ nextConnId_ \in Nat \ {0} /\ backlog \in Nat /\ clients \in Nat
           /\ nextConnId_ + backlog <= clients + 1 /\ clients <= MaxClients

(* One thread at most is in EventLoopThreadPool::start, the one that found *)
(* started_ zero; the server listens, or is told to, when it is through,   *)
(* and only then connections come.                                         *)
Started == /\ startPc \in [Starters -> {"idle", "pool", "done"}]
           /\ started_ \in {0, 1} /\ listenning_ \in BOOLEAN
           /\ poolStarted_ \in BOOLEAN /\ (poolStarted_ <=> started_ = 1)
           /\ started_ = 0 => loops_ = 0 /\ \A t \in Starters : startPc[t] = "idle"
           /\ started_ = 1 => \E t \in Starters : startPc[t] # "idle"
           /\ \A t, u \in Starters : startPc[t] = "pool" /\ startPc[u] = "pool" => t = u
           /\ \A t \in Starters : startPc[t] = "pool"
                                    => listenning_ = FALSE /\ ~Holds(quene[0], Lis)
           /\ listenning_ = TRUE \/ Holds(quene[0], Lis) => started_ = 1 /\ loops_ = numThreads_
           /\ nextConnId_ > 1 => listenning_ = TRUE

NextInPool == /\ numThreads_ \in Loops /\ loops_ \in 0..numThreads_
              /\ next_ \in Nat /\ (next_ = 0 \/ next_ < loops_)

ConnsTyped == /\ connections_ \subseteq Known /\ asked \subseteq Known
              /\ state_ \in [Conns -> States] /\ loop_ \in [Conns -> Loops]
              /\ quene \in Queues
              /\ \A c \in Conns : c \in Known <=> state_[c] # "none"

(* A functor waits in the loop that is to run it, and belongs to a         *)
(* connection the server has had.                                          *)
Placed == \A l \in Loops : \A g \in Functors : Holds(quene[l], g) =>
            \/ g = Lis /\ l = 0
            \/ \E c \in Known : \/ g = Rem(c) /\ l = 0
                                \/ g \in {Est(c), Des(c)} /\ l = loop_[c]

(* The way of connection c, as the map, its state_ and the functors tell   *)
(* it: being established, up or shut down, closed with its removal or its  *)
(* destruction on the way, destroyed; of a connection that user code asked  *)
(* to remove only what is still true then.                                 *)
Connecting(c) == /\ state_[c] = "kConnecting" /\ c \notin asked /\ c \in connections_
                 /\ Holds(quene[loop_[c]], Est(c)) /\ Once(quene[loop_[c]], Est(c))
                 /\ ~Holds(quene[0], Rem(c)) /\ ~Holds(quene[loop_[c]], Des(c))

Up(c) == /\ state_[c] \in Open /\ c \notin asked /\ c \in connections_
         /\ ~Holds(quene[loop_[c]], Est(c))
         /\ ~Holds(quene[0], Rem(c)) /\ ~Holds(quene[loop_[c]], Des(c))

Closed(c) == /\ state_[c] = "kDisconnected" /\ c \notin asked
             /\ ~Holds(quene[loop_[c]], Est(c))
             /\ \/ /\ c \in connections_
                   /\ Holds(quene[0], Rem(c)) /\ Once(quene[0], Rem(c))
                   /\ ~Holds(quene[loop_[c]], Des(c))
                \/ /\ c \notin connections_
                   /\ ~Holds(quene[0], Rem(c))
                   /\ Holds(quene[loop_[c]], Des(c)) /\ Once(quene[loop_[c]], Des(c))

Destroyed(c) == /\ state_[c] = "destroyed" /\ c \notin asked /\ c \notin connections_
                /\ ~Holds(quene[loop_[c]], Est(c))
                /\ ~Holds(quene[0], Rem(c)) /\ ~Holds(quene[loop_[c]], Des(c))

Asked(c) == /\ c \in asked /\ state_[c] \in Open \cup {"kDisconnected", "destroyed"}
            /\ ~Holds(quene[loop_[c]], Est(c))
            /\ \/ /\ c \in connections_ /\ state_[c] # "destroyed"
                  /\ ~Holds(quene[loop_[c]], Des(c))
               \/ /\ c \notin connections_
                  /\ state_[c] = "destroyed" \/ Holds(quene[loop_[c]], Des(c))

OnItsWay(c) == Connecting(c) \/ Up(c) \/ Closed(c) \/ Destroyed(c) \/ Asked(c)

FailedByUser == \/ failed = "none"
                \/ failed = "removeConnectionInLoop:n==1" /\ asked # {}
                \/ failed = "remove:isNoneEvent" /\ \E c \in asked : state_[c] = "kDisconnecting"

(* Every loop of the pool has as many connections as the others, up to     *)
(* next_ one more.                                                         *)
Dealt == /\ numThreads_ = 0 => \A c \in Known : loop_[c] = 0
         /\ numThreads_ # 0 =>
              /\ \A c \in Known : loop_[c] # 0
              /\ \E b \in Nat : \A k \in 1..numThreads_ :
                   Given(k) = IF k <= next_ THEN b + 1 ELSE b

(* Everything but the way of the connections and what an assert says.      *)
Frame == Counted /\ Started /\ NextInPool /\ ConnsTyped /\ Placed

AllOnTheirWay == \A c \in Known : OnItsWay(c)

Inv == Frame /\ FailedByUser /\ (failed = "none" => AllOnTheirWay)
-----------------------------------------------------------------------------
(* Functors and queues. *)

(* A functor is told apart by its method and its connection. *)
LEMMA FunctorFields ==
    /\ \A f, c : Functor(f, c).f = f /\ Functor(f, c).c = c
    /\ \A f, c, g, d : Functor(f, c) = Functor(g, d) <=> f = g /\ c = d
    /\ \A g \in Functors : g = Functor(g.f, g.c)
<1>1. ASSUME NEW f, NEW c PROVE Functor(f, c).f = f /\ Functor(f, c).c = c
  BY DEF Functor
<1>2. ASSUME NEW f, NEW c, NEW g, NEW d PROVE Functor(f, c) = Functor(g, d) <=> f = g /\ c = d
  BY DEF Functor
<1>3. ASSUME NEW g \in Functors PROVE g = Functor(g.f, g.c)
  BY DEF Functor, Functors
<1> QED BY <1>1, <1>2, <1>3

(* The functors of a connection are functors, and different ones. *)
LEMMA FunctorsTyped ==
    /\ Lis \in Functors
    /\ \A c \in Conns : Est(c) \in Functors /\ Rem(c) \in Functors /\ Des(c) \in Functors
    /\ \A c, d : Est(c) # Rem(d) /\ Est(c) # Des(d) /\ Rem(c) # Des(d)
    /\ \A c : Est(c) # Lis /\ Rem(c) # Lis /\ Des(c) # Lis
    /\ \A c, d : c # d => Est(c) # Est(d) /\ Rem(c) # Rem(d) /\ Des(c) # Des(d)
<1>1. Lis \in Functors
  BY TcpServerAssumption DEF Lis, Functor, Functors
<1>2. ASSUME NEW c \in Conns PROVE Est(c) \in Functors /\ Rem(c) \in Functors /\ Des(c) \in Functors
  BY TcpServerAssumption DEF Est, Rem, Des, Functor, Functors, Conns
<1>3. /\ \A c, d : Est(c) # Rem(d) /\ Est(c) # Des(d) /\ Rem(c) # Des(d)
      /\ \A c : Est(c) # Lis /\ Rem(c) # Lis /\ Des(c) # Lis
      /\ \A c, d : c # d => Est(c) # Est(d) /\ Rem(c) # Rem(d) /\ Des(c) # Des(d)
  BY FunctorFields DEF Est, Rem, Des, Lis
<1> QED BY <1>1, <1>2, <1>3

(* r is q with the functor g queued in loop l. *)
Added(q, r, l, g) ==
    /\ r \in Queues
    /\ \A m \in Loops : \A h : Holds(r[m], h) <=> Holds(q[m], h) \/ (m = l /\ h = g)
    /\ \A m \in Loops : \A h : Once(q[m], h) /\ (m = l /\ h = g => ~Holds(q[m], h)) => Once(r[m], h)

(* r is q without the first functor of loop l, which is g. *)
Taken(q, r, l, g) ==
    /\ r \in Queues /\ g \in Functors /\ Holds(q[l], g)
    /\ \A m \in Loops : \A h : Holds(r[m], h) => Holds(q[m], h)
    /\ \A m \in Loops : \A h : Holds(q[m], h) /\ ~(m = l /\ h = g) => Holds(r[m], h)
    /\ \A m \in Loops : \A h : Once(q[m], h) => Once(r[m], h)
    /\ Once(q[l], g) => ~Holds(r[l], g)

(* What queneInLoop of one loop does to the functors of all. *)
LEMMA QuenedAdds ==
    ASSUME NEW q \in Queues, NEW l \in Loops, NEW f, NEW c, Functor(f, c) \in Functors
    PROVE  Added(q, Quened(q, l, f, c), l, Functor(f, c))
<1> DEFINE a == Append(q[l], Functor(f, c))
<1>1. q[l] \in Seq(Functors)
  BY DEF Queues
<1>2. /\ a \in Seq(Functors)
      /\ \A g : Holds(a, g) <=> Holds(q[l], g) \/ g = Functor(f, c)
      /\ \A g : Once(q[l], g) /\ (g = Functor(f, c) => ~Holds(q[l], g)) => Once(a, g)
  BY <1>1, AppendHolds
<1> HIDE DEF a
<1>3. Quened(q, l, f, c) = [q EXCEPT ![l] = a]
  BY DEF Quened, a
<1>4. \A m \in Loops : Quened(q, l, f, c)[m] = IF m = l THEN a ELSE q[m]
  BY <1>3 DEF Queues
<1>5. Quened(q, l, f, c) \in Queues
  BY <1>2, <1>3 DEF Queues
<1> QED BY <1>2, <1>4, <1>5 DEF Added

(* What running the first functor of one loop does to the others. *)
LEMMA TailTakes ==
    ASSUME NEW q \in Queues, NEW l \in Loops, q[l] # <<>>
    PROVE  Taken(q, [q EXCEPT ![l] = Tail(@)], l, Head(q[l]))
<1> DEFINE t == Tail(q[l])
           h == Head(q[l])
           r == [q EXCEPT ![l] = t]
<1>1. q[l] \in Seq(Functors)
  BY DEF Queues
<1>2. /\ h \in Functors /\ t \in Seq(Functors) /\ Holds(q[l], h)
      /\ \A g : Holds(t, g) => Holds(q[l], g)
      /\ \A g : g # h /\ Holds(q[l], g) => Holds(t, g)
      /\ \A g : Once(q[l], g) => Once(t, g)
      /\ Once(q[l], h) => ~Holds(t, h)
  BY <1>1, TailHolds
<1> HIDE DEF t, h
<1>4. \A m \in Loops : r[m] = IF m = l THEN t ELSE q[m]
  BY DEF Queues
<1>5. r \in Queues
  BY <1>2 DEF Queues
<1> HIDE DEF r
<1>6. Taken(q, r, l, h)
  BY <1>2, <1>4, <1>5 DEF Taken
<1> QED BY <1>6 DEF r, t, h

(* A functor that does not wait, waits at most once. *)
LEMMA NoneIsOnce ==
    ASSUME NEW q, NEW g, ~Holds(q, g) PROVE Once(q, g)
BY DEF Holds, Once

(* A connection that a step does not concern goes on as before. *)
LEMMA OthersStay ==
    ASSUME NEW d \in Conns, OnItsWay(d), loop_[d] \in Loops, 0 \in Loops,
           state_'[d] = state_[d], loop_'[d] = loop_[d],
           d \in asked' <=> d \in asked, d \in connections_' <=> d \in connections_,
           \A m \in Loops : \A g \in {Est(d), Rem(d), Des(d)} :
              /\ Holds(quene'[m], g) <=> Holds(quene[m], g)
              /\ Once(quene[m], g) => Once(quene'[m], g)
    PROVE  OnItsWay(d)'
<1> USE DEF Connecting, Up, Closed, Destroyed, Asked
<1>1. CASE Connecting(d) BY <1>1 DEF OnItsWay
<1>2. CASE Up(d) BY <1>2 DEF OnItsWay
<1>3. CASE Closed(d) BY <1>3 DEF OnItsWay
<1>4. CASE Destroyed(d) BY <1>4 DEF OnItsWay
<1>5. CASE Asked(d) BY <1>5 DEF OnItsWay
<1> QED BY <1>1, <1>2, <1>3, <1>4, <1>5 DEF OnItsWay
-----------------------------------------------------------------------------
(* The steps, one by one. *)

(* The numbers are where they should be.                                   *)
LEMMA Bounds ==
    ASSUME Frame
    PROVE  /\ 0 \in Loops /\ Known \subseteq Conns
           /\ \A c \in Known : c \in Conns /\ loop_[c] \in Loops
           /\ GetNextLoop.loop \in Loops
           /\ backlog > 0 => nextConnId_ \in Conns /\ nextConnId_ \notin Known
<1>1. 0 \in Loops
  BY TcpServerAssumption DEF Loops
<1>2. Known \subseteq Conns
  BY TcpServerAssumption DEF Frame, Counted, Known, Conns
<1>3. GetNextLoop.loop \in Loops
  BY <1>1, TcpServerAssumption DEF Frame, NextInPool, GetNextLoop, Loops
<1>4. backlog > 0 => nextConnId_ \in Conns /\ nextConnId_ \notin Known
  BY TcpServerAssumption DEF Frame, Counted, Known, Conns
<1> QED BY <1>1, <1>2, <1>3, <1>4 DEF Frame, ConnsTyped

(* The steps that concern neither connections nor functors. *)
LEMMA QuietStep ==
    ASSUME Inv, UNCHANGED <<conns, quene>>,
           \/ \E n \in Loops : SetThreadNum(n)
           \/ \E t \in Starters : Start(t) \/ StartThread(t)
           \/ Emfile \/ EmfileStep
           \/ ClientConnects \/ ClientLeaves \/ OthersOpen \/ OthersClose
           \/ UNCHANGED vars
    PROVE  Inv'
<1> USE DEF Inv
<1>1. Known' = Known /\ (ConnsTyped /\ Placed)'
  BY DEF Frame, ConnsTyped, Placed, Known, conns
<1>2. AllOnTheirWay => AllOnTheirWay'
  <2> SUFFICES ASSUME AllOnTheirWay, NEW c \in Known PROVE OnItsWay(c)'
    BY <1>1 DEF AllOnTheirWay
  <2>1. OnItsWay(c)
    BY DEF AllOnTheirWay
  <2> QED BY <2>1 DEF OnItsWay, Connecting, Up, Closed, Destroyed, Asked, conns
<1>3. Counted' /\ Started' /\ NextInPool' /\ failed' = failed
  <2> USE DEF Frame, conns
  <2>1. CASE \E n \in Loops : SetThreadNum(n)
    <3>1. PICK n \in Loops : SetThreadNum(n)
      BY <2>1
    <3>2. started_ = 0 /\ loops_ = 0
      BY <3>1 DEF SetThreadNum, Started
    <3>3. numThreads_' = n /\ n \in Nat /\ UNCHANGED <<loops_, next_>>
      BY <3>1, TcpServerAssumption DEF SetThreadNum, Loops
    <3>4. NextInPool'
      BY <3>1, <3>2, <3>3 DEF NextInPool
    <3>5. Started'
      BY <3>1, <3>2 DEF SetThreadNum, Started
    <3> QED BY <3>1, <3>4, <3>5 DEF SetThreadNum, Counted
  <2>2. ASSUME NEW t \in Starters, Start(t)
        PROVE  Counted' /\ Started' /\ NextInPool' /\ failed' = failed
    <3>1. Counted' /\ NextInPool'
      BY <2>2 DEF Start, Counted, NextInPool
    <3>2. CASE started_ = 0
      <4>1. /\ started_' = 1 /\ poolStarted_' = TRUE /\ failed' = failed
            /\ startPc' = [startPc EXCEPT ![t] = "pool"]
            /\ UNCHANGED <<loops_, numThreads_, listenning_, quene, nextConnId_>>
        BY <2>2, <3>2 DEF Start, Started
      <4>2. startPc'[t] = "pool" /\ \A u \in Starters : u # t => startPc'[u] = "idle"
        BY <3>2, <4>1 DEF Started
      <4>3. listenning_ = FALSE /\ ~Holds(quene[0], Lis)
        BY <3>2 DEF Started
      <4>4. startPc' \in [Starters -> {"idle", "pool", "done"}]
        BY <4>1 DEF Started
      <4>5. Started'
        BY <4>1, <4>2, <4>3, <4>4 DEF Started
      <4> QED BY <3>1, <4>1, <4>5
    <3>3. CASE started_ = 1
      <4>1. /\ started_' = 1 /\ poolStarted_' = TRUE /\ failed' = failed
            /\ startPc' = [startPc EXCEPT ![t] = "done"]
            /\ UNCHANGED <<loops_, numThreads_, listenning_, quene, nextConnId_>>
        BY <2>2, <3>3 DEF Start, Started
      <4>2. /\ startPc'[t] = "done" /\ \A u \in Starters : u # t => startPc'[u] = startPc[u]
            /\ startPc' \in [Starters -> {"idle", "pool", "done"}]
        BY <4>1 DEF Started
      <4>3. Started'
        BY <3>3, <4>1, <4>2 DEF Started
      <4> QED BY <3>1, <4>1, <4>3
    <3> QED BY <3>2, <3>3 DEF Started
  <2>3. ASSUME NEW t \in Starters, StartThread(t)
        PROVE  Counted' /\ Started' /\ NextInPool' /\ failed' = failed
    <3>1. startPc[t] = "pool" /\ started_ = 1 /\ listenning_ = FALSE /\ ~Holds(quene[0], Lis)
      BY <2>3 DEF StartThread, Started
    <3>2. Started'
      BY <2>3, <3>1 DEF StartThread, Started
    <3>3. NextInPool'
      BY <2>3, TcpServerAssumption DEF StartThread, NextInPool, Loops
    <3> QED BY <2>3, <3>2, <3>3 DEF StartThread, Counted
  <2>4. CASE Emfile \/ EmfileStep
    <3>1. /\ UNCHANGED <<started_, pool, listenning_, startPc, clients, failed>>
          /\ backlog' \in {backlog, backlog - 1} /\ backlog' \in Nat
      BY <2>4 DEF Emfile, EmfileStep, EmfileAccept, EmfileClose, EmfileOpen, InEmfile, Counted
    <3>2. Counted'
      <4>1. nextConnId_' = nextConnId_ /\ clients' = clients
        BY <3>1
      <4>2. backlog \in Nat /\ backlog' \in Nat
        BY <3>1 DEF Counted
      <4>3. nextConnId_ + backlog' <= clients + 1
        <5>1. CASE backlog' = backlog
          BY <5>1 DEF Counted
        <5>2. CASE backlog' = backlog - 1
          BY <5>2 DEF Counted
        <5> QED BY <3>1, <5>1, <5>2
      <4>4. nextConnId_ \in Nat \ {0} /\ clients \in Nat /\ clients <= MaxClients
        BY DEF Counted
      <4> QED BY <4>1, <4>2, <4>3, <4>4 DEF Counted
    <3> QED BY <3>1, <3>2 DEF pool, Started, NextInPool
  <2>5. CASE ClientConnects
    BY <2>5, TcpServerAssumption DEF ClientConnects, Counted, Started, NextInPool, pool
  <2>6. CASE ClientLeaves
    BY <2>6 DEF ClientLeaves, Counted, Started, NextInPool, pool
  <2>7. CASE OthersOpen \/ OthersClose
    BY <2>7 DEF OthersOpen, OthersClose, Counted, Started, NextInPool, pool
  <2>8. CASE UNCHANGED vars
    BY <2>8 DEF vars, Counted, Started, NextInPool, pool
  <2> QED BY <2>1, <2>2, <2>3, <2>4, <2>5, <2>6, <2>7, <2>8
<1>4. FailedByUser'
  BY <1>3 DEF FailedByUser, conns
<1> QED BY <1>1, <1>2, <1>3, <1>4 DEF Frame

(* The end of start: the server listens, or the base loop is told to. *)
LEMMA StartListenStep ==
    ASSUME Inv, NEW t \in Starters, StartListen(t)
    PROVE  Inv'
<1> USE DEF Inv
<1>1. /\ startPc[t] = "pool" /\ loops_ = numThreads_ /\ started_ = 1 /\ listenning_ = FALSE
      /\ ~Holds(quene[0], Lis)
  BY DEF StartListen, Frame, Started
<1>2. /\ failed' = failed /\ startPc' = [startPc EXCEPT ![t] = "done"]
      /\ UNCHANGED <<started_, poolStarted_, numThreads_, loops_, next_, nextConnId_,
                     connections_, state_, loop_, asked, backlog, clients>>
  BY <1>1 DEF StartListen, pool, conns
<1>3. /\ \A u \in Starters : startPc'[u] \in {"idle", "done"} /\ (u # t => startPc'[u] = startPc[u])
      /\ startPc' \in [Starters -> {"idle", "pool", "done"}] /\ startPc'[t] = "done"
  BY <1>1, <1>2 DEF Frame, Started
<1>4. 0 \in Loops /\ \A c \in Known : c \in Conns /\ loop_[c] \in Loops
  BY Bounds
<1>5. \/ listenning_' = TRUE /\ quene' = quene
      \/ listenning_' = listenning_ /\ quene' = Quened(quene, 0, "listen", 0)
  BY DEF StartListen, Listen
<1>6. Lis \in Functors /\ Functor("listen", 0) = Lis /\ quene \in Queues
  BY FunctorsTyped DEF Lis, Frame, ConnsTyped
<1>7. /\ quene' \in Queues
      /\ \A m \in Loops : \A g : g # Lis \/ m # 0 => (Holds(quene'[m], g) <=> Holds(quene[m], g))
      /\ \A m \in Loops : \A g : g # Lis => (Once(quene[m], g) => Once(quene'[m], g))
  <2>1. CASE quene' = quene
    BY <2>1, <1>6
  <2>2. CASE quene' = Quened(quene, 0, "listen", 0)
    <3>1. Added(quene, quene', 0, Lis)
      BY <2>2, <1>4, <1>6, QuenedAdds
    <3> QED BY <3>1 DEF Added
  <2> QED BY <1>5, <2>1, <2>2
<1>8. Started'
  BY <1>1, <1>2, <1>3, <1>5 DEF Frame, Started
<1>9. Counted' /\ NextInPool' /\ Known' = Known
  BY <1>2 DEF Frame, Counted, NextInPool, Known
<1>10. ConnsTyped'
  BY <1>2, <1>7, <1>9 DEF Frame, ConnsTyped
<1>11. Placed'
  <2> SUFFICES ASSUME NEW l \in Loops, NEW g \in Functors, Holds(quene'[l], g)
               PROVE  \/ g = Lis /\ l = 0
                      \/ \E c \in Known : \/ g = Rem(c) /\ l = 0
                                          \/ g \in {Est(c), Des(c)} /\ l = loop_[c]
    BY <1>2, <1>9 DEF Placed
  <2>1. CASE g = Lis /\ l = 0
    BY <2>1
  <2>2. CASE g # Lis \/ l # 0
    BY <2>2, <1>7 DEF Frame, Placed
  <2> QED BY <2>1, <2>2
<1>12. AllOnTheirWay => AllOnTheirWay'
  <2> SUFFICES ASSUME AllOnTheirWay, NEW d \in Known PROVE OnItsWay(d)'
    BY <1>9 DEF AllOnTheirWay
  <2>1. OnItsWay(d) /\ d \in Conns /\ loop_[d] \in Loops
    BY <1>4 DEF AllOnTheirWay
  <2>2. \A m \in Loops : \A g \in {Est(d), Rem(d), Des(d)} :
          /\ Holds(quene'[m], g) <=> Holds(quene[m], g)
          /\ Once(quene[m], g) => Once(quene'[m], g)
    BY <1>7, FunctorsTyped
  <2> QED BY <1>2, <1>4, <2>1, <2>2, OthersStay
<1> QED BY <1>2, <1>8, <1>9, <1>10, <1>11, <1>12 DEF Frame, FailedByUser

(* A connection comes: it gets a number, a loop and, in another loop than  *)
(* the base loop, a connectEstablished.                                    *)
LEMMA AcceptStep ==
    ASSUME Inv, Accept
    PROVE  Inv'
<1> USE DEF Inv
<1> DEFINE c == nextConnId_
           l == GetNextLoop.loop
<1>1. /\ 0 \in Loops /\ l \in Loops /\ c \in Conns /\ c \notin Known
      /\ \A d \in Known : d \in Conns /\ loop_[d] \in Loops
  BY Bounds DEF Accept, Readable
<1>2. listenning_ = TRUE /\ started_ = 1 /\ poolStarted_ = TRUE /\ loops_ = numThreads_
  BY DEF Accept, Readable, Frame, Started
<1>3. /\ failed' = failed
      /\ nextConnId_' = c + 1 /\ connections_' = connections_ \cup {c}
      /\ loop_' = [loop_ EXCEPT ![c] = l]
      /\ state_' = [state_ EXCEPT ![c] = IF l = 0 THEN "kConnected" ELSE "kConnecting"]
      /\ quene' = IF l = 0 THEN quene ELSE Quened(quene, l, "connectEstablished", c)
      /\ asked' = asked
  BY <1>2 DEF Accept, NewConnection
<1>4. Known' = Known \cup {c}
  BY <1>3 DEF Frame, Counted, Known
<1>5. /\ quene \in Queues /\ state_ \in [Conns -> States] /\ loop_ \in [Conns -> Loops]
      /\ connections_ \subseteq Known /\ asked \subseteq Known
      /\ \A d \in Conns : d \in Known <=> state_[d] # "none"
  BY DEF Frame, ConnsTyped
<1>6. /\ Est(c) \in Functors /\ Functor("connectEstablished", c) = Est(c)
      /\ Rem(c) \in Functors /\ Des(c) \in Functors
  BY <1>1, FunctorsTyped DEF Est
<1>7. /\ quene' \in Queues
      /\ \A m \in Loops : \A g : g # Est(c) => (Holds(quene'[m], g) <=> Holds(quene[m], g))
      /\ \A m \in Loops : \A g : g # Est(c) => (Once(quene[m], g) => Once(quene'[m], g))
      /\ \A m \in Loops : Holds(quene'[m], Est(c)) => Holds(quene[m], Est(c)) \/ (m = l /\ l # 0)
      /\ l # 0 => Added(quene, quene', l, Est(c))
  <2>1. CASE l = 0
    BY <2>1, <1>3, <1>5
  <2>2. CASE l # 0
    <3>1. Added(quene, quene', l, Est(c))
      BY <2>2, <1>1, <1>3, <1>5, <1>6, QuenedAdds
    <3> QED BY <2>2, <3>1 DEF Added
  <2> QED BY <2>1, <2>2
<1>8. \A m \in Loops : \A g \in {Est(c), Rem(c), Des(c)} : ~Holds(quene[m], g)
  <2> SUFFICES ASSUME NEW m \in Loops, NEW g \in {Est(c), Rem(c), Des(c)}, Holds(quene[m], g)
               PROVE  FALSE
    OBVIOUS
  <2>1. g # Lis /\ \A d \in Known : g \notin {Rem(d), Est(d), Des(d)}
    BY <1>1, FunctorsTyped
  <2> QED BY <1>6, <2>1 DEF Frame, Placed
<1>9. /\ state_'[c] = IF l = 0 THEN "kConnected" ELSE "kConnecting"
      /\ loop_'[c] = l
      /\ \A d \in Conns : d # c => state_'[d] = state_[d] /\ loop_'[d] = loop_[d]
      /\ state_' \in [Conns -> States] /\ loop_' \in [Conns -> Loops]
  BY <1>1, <1>3, <1>5 DEF States
<1> HIDE DEF c, l
<1>10. ConnsTyped'
  <2>1. \A d \in Conns : d \in Known' <=> state_'[d] # "none"
    BY <1>1, <1>4, <1>5, <1>9
  <2> QED BY <1>3, <1>4, <1>5, <1>7, <1>9, <2>1 DEF ConnsTyped
<1>11. Placed'
  <2> SUFFICES ASSUME NEW m \in Loops, NEW g \in Functors, Holds(quene'[m], g)
               PROVE  \/ g = Lis /\ m = 0
                      \/ \E d \in Known' : \/ g = Rem(d) /\ m = 0
                                           \/ g \in {Est(d), Des(d)} /\ m = loop_'[d]
    BY DEF Placed
  <2>1. CASE g = Est(c)
    <3>1. m = l
      BY <2>1, <1>7, <1>8
    <3> QED BY <2>1, <3>1, <1>4, <1>9
  <2>2. CASE g # Est(c)
    <3>1. Holds(quene[m], g)
      BY <2>2, <1>7
    <3>2. CASE g = Lis /\ m = 0
      BY <3>2
    <3>3. ASSUME NEW d \in Known, (g = Rem(d) /\ m = 0) \/ (g \in {Est(d), Des(d)} /\ m = loop_[d])
          PROVE  \/ g = Rem(d) /\ m = 0
                 \/ g \in {Est(d), Des(d)} /\ m = loop_'[d]
      BY <3>3, <1>1, <1>9
    <3> QED BY <3>1, <3>2, <3>3, <1>4 DEF Frame, Placed
  <2> QED BY <2>1, <2>2
<1>12. Counted' /\ NextInPool'
  <2>1. /\ backlog > 0 /\ backlog' = backlog - 1 /\ next_' = GetNextLoop.next
        /\ UNCHANGED <<clients, numThreads_, loops_>>
    BY DEF Accept, Readable, NewConnection
  <2>2. Counted'
    BY <2>1, <1>3, TcpServerAssumption DEF Frame, Counted, c
  <2>3. NextInPool'
    BY <2>1 DEF Frame, NextInPool, GetNextLoop
  <2> QED BY <2>2, <2>3
<1>13. Started'
  <2>1. UNCHANGED <<startPc, started_, poolStarted_, listenning_, loops_, numThreads_>>
    BY DEF Accept
  <2>2. Holds(quene'[0], Lis) <=> Holds(quene[0], Lis)
    BY <1>1, <1>7, FunctorsTyped
  <2> QED BY <1>2, <2>1, <2>2 DEF Frame, Started
<1>14. AllOnTheirWay => AllOnTheirWay'
  <2> SUFFICES ASSUME AllOnTheirWay, NEW d \in Known' PROVE OnItsWay(d)'
    BY DEF AllOnTheirWay
  <2>1. CASE d = c
    <3>1. c \in connections_' /\ c \notin asked'
      BY <1>1, <1>3, <1>5
    <3>2. /\ ~Holds(quene'[0], Rem(c)) /\ ~Holds(quene'[l], Des(c))
      BY <1>1, <1>7, <1>8, FunctorsTyped
    <3>3. CASE l = 0
      <4>1. ~Holds(quene'[l], Est(c))
        BY <3>3, <1>1, <1>7, <1>8
      <4> QED BY <2>1, <3>1, <3>2, <3>3, <4>1, <1>9 DEF OnItsWay, Up, Open
    <3>4. CASE l # 0
      <4>1. Holds(quene'[l], Est(c)) /\ Once(quene'[l], Est(c))
        BY <3>4, <1>1, <1>7, <1>8, NoneIsOnce DEF Added
      <4> QED BY <2>1, <3>1, <3>2, <3>4, <4>1, <1>9 DEF OnItsWay, Connecting
    <3> QED BY <3>3, <3>4
  <2>2. CASE d # c
    <3>1. d \in Known /\ d \in Conns /\ OnItsWay(d) /\ loop_[d] \in Loops
      BY <2>2, <1>1, <1>4 DEF AllOnTheirWay
    <3>2. \A m \in Loops : \A g \in {Est(d), Rem(d), Des(d)} :
            /\ Holds(quene'[m], g) <=> Holds(quene[m], g)
            /\ Once(quene[m], g) => Once(quene'[m], g)
      BY <2>2, <1>7, FunctorsTyped
    <3> QED BY <2>2, <3>1, <3>2, <1>1, <1>3, <1>9, OthersStay
  <2> QED BY <2>1, <2>2
<1>15. FailedByUser'
  <2>1. \A d \in asked : state_'[d] = state_[d]
    BY <1>1, <1>5, <1>9
  <2> QED BY <1>3, <2>1 DEF FailedByUser
<1> QED BY <1>3, <1>10, <1>11, <1>12, <1>13, <1>14, <1>15 DEF Frame

(* What stays of the frame when a functor of a known connection is queued  *)
(* where it belongs, or one is taken away.                                 *)
LEMMA FrameStays ==
    ASSUME Frame, quene' \in Queues,
           \A m \in Loops : \A g \in Functors : Holds(quene'[m], g) =>
              \/ Holds(quene[m], g)
              \/ \E d \in Known : \/ g = Rem(d) /\ m = 0
                                  \/ g = Des(d) /\ m = loop_[d],
           UNCHANGED <<nextConnId_, loop_, started_, poolStarted_, numThreads_, loops_, next_,
                       startPc, backlog, clients>>,
           connections_' \subseteq connections_, asked' \subseteq Known,
           state_' \in [Conns -> States],
           \A d \in Conns : d \in Known <=> state_'[d] # "none",
           listenning_' = listenning_ \/ (listenning_' = TRUE /\ Holds(quene[0], Lis))
    PROVE  Frame' /\ Known' = Known
<1>1. Counted' /\ NextInPool' /\ Known' = Known
  BY DEF Frame, Counted, NextInPool, Known
<1>2. ConnsTyped'
  BY <1>1 DEF Frame, ConnsTyped
<1>3. Placed'
  <2> SUFFICES ASSUME NEW m \in Loops, NEW g \in Functors, Holds(quene'[m], g)
               PROVE  \/ g = Lis /\ m = 0
                      \/ \E d \in Known : \/ g = Rem(d) /\ m = 0
                                          \/ g \in {Est(d), Des(d)} /\ m = loop_[d]
    BY <1>1 DEF Placed
  <2> QED BY DEF Frame, Placed
<1>4. Started'
  <2>1. Holds(quene'[0], Lis) => Holds(quene[0], Lis)
    BY Bounds, FunctorsTyped
  <2> QED BY <2>1 DEF Frame, Started
<1> QED BY <1>1, <1>2, <1>3, <1>4 DEF Frame

(* handleClose of a connection, or user code that removes it: in the base  *)
(* loop it leaves the map at once and is on its way to connectDestroyed,   *)
(* in another loop the removal is on its way to the base loop.             *)
LEMMA RemoveStep ==
    ASSUME Inv, NEW c \in Conns, HandleClose(c) \/ UserRemoves(c)
    PROVE  Inv'
<1> USE DEF Inv
<1>1. /\ failed = "none" /\ state_[c] \notin {"none", "kConnecting"}
      /\ UNCHANGED <<nextConnId_, loop_, started_, poolStarted_, numThreads_, loops_, next_,
                     startPc, backlog, clients, listenning_>>
      /\ RemoveConnection(c)
  BY DEF HandleClose, UserRemoves, Running, pool, Open
<1>2. \/ /\ state_' = [state_ EXCEPT ![c] = "kDisconnected"] /\ asked' = asked
         /\ state_[c] \in Open
      \/ state_' = state_ /\ asked' = asked \cup {c} /\ c \notin asked
  BY DEF HandleClose, UserRemoves
<1>3. /\ quene \in Queues /\ state_ \in [Conns -> States] /\ loop_ \in [Conns -> Loops]
      /\ connections_ \subseteq Known /\ asked \subseteq Known
      /\ \A d \in Conns : d \in Known <=> state_[d] # "none"
  BY DEF Frame, ConnsTyped
<1>4. /\ c \in Known /\ 0 \in Loops /\ loop_[c] \in Loops
      /\ \A d \in Known : d \in Conns /\ loop_[d] \in Loops
  BY <1>1, <1>3, Bounds
<1>5. Up(c) \/ (Asked(c) /\ asked' = asked) \/ ((Closed(c) \/ Destroyed(c)) /\ c \in asked')
  <2>1. OnItsWay(c)
    BY <1>1, <1>4 DEF AllOnTheirWay
  <2> QED BY <1>1, <1>2, <2>1 DEF OnItsWay, Connecting, Closed, Destroyed, Asked, Open
<1>6. /\ state_' \in [Conns -> States]
      /\ \A d \in Conns : d # c => state_'[d] = state_[d]
      /\ \/ state_'[c] = "kDisconnected" /\ asked' = asked
         \/ state_'[c] = state_[c] /\ c \in asked'
      /\ state_'[c] \in Open \cup {"kDisconnected", "destroyed"}
      /\ asked \subseteq asked' /\ asked' \subseteq asked \cup {c}
  <2>1. CASE state_' = [state_ EXCEPT ![c] = "kDisconnected"] /\ asked' = asked
    <3>1. /\ state_' \in [Conns -> States] /\ state_'[c] = "kDisconnected"
          /\ \A d \in Conns : d # c => state_'[d] = state_[d]
      BY <2>1, <1>3 DEF States
    <3>2. asked' = asked
      BY <2>1
    <3>3. state_'[c] = "kDisconnected"
      BY <3>1
    <3> QED BY <3>1, <3>2, <3>3
  <2>2. CASE state_' = state_ /\ asked' = asked \cup {c}
    BY <2>2, <1>1, <1>3 DEF States, Open
  <2> QED BY <1>2, <2>1, <2>2
<1>7. \A d \in Conns : d \in Known <=> state_'[d] # "none"
  BY <1>3, <1>4, <1>6 DEF Open
<1>8. /\ Rem(c) \in Functors /\ Functor("removeConnectionInLoop", c) = Rem(c)
      /\ Des(c) \in Functors /\ Functor("connectDestroyed", c) = Des(c)
  BY FunctorsTyped DEF Rem, Des
<1>9. CASE loop_[c] = 0
  <2>1. /\ failed' = IF c \in connections_ THEN failed ELSE "removeConnectionInLoop:n==1"
        /\ connections_' = connections_ \ {c}
        /\ quene' = Quened(quene, 0, "connectDestroyed", c)
    BY <1>1, <1>9 DEF RemoveConnection, RemoveConnectionInLoop
  <2>2. Added(quene, quene', 0, Des(c))
    BY <2>1, <1>3, <1>4, <1>8, QuenedAdds
  <2>3. Frame' /\ Known' = Known
    <3>1. \A m \in Loops : \A g \in Functors : Holds(quene'[m], g) =>
              \/ Holds(quene[m], g)
              \/ \E d \in Known : \/ g = Rem(d) /\ m = 0
                                  \/ g = Des(d) /\ m = loop_[d]
      BY <2>2, <1>4, <1>9 DEF Added
    <3>2. quene' \in Queues /\ connections_' \subseteq connections_ /\ asked' \subseteq Known
      BY <2>1, <2>2, <1>3, <1>4, <1>6 DEF Added
    <3> QED BY <3>1, <3>2, <1>1, <1>6, <1>7, FrameStays
  <2>4. FailedByUser'
    BY <2>1, <1>1, <1>5, <1>6 DEF FailedByUser, Up, Asked
  <2>5. ASSUME failed' = "none", NEW d \in Known PROVE OnItsWay(d)'
    <3>1. CASE d # c
      <4>1. d \in Conns /\ OnItsWay(d) /\ loop_[d] \in Loops
        BY <1>1, <1>4 DEF AllOnTheirWay
      <4>2. \A m \in Loops : \A g \in {Est(d), Rem(d), Des(d)} :
              /\ Holds(quene'[m], g) <=> Holds(quene[m], g)
              /\ Once(quene[m], g) => Once(quene'[m], g)
        BY <2>2, <3>1, FunctorsTyped DEF Added
      <4>3. /\ state_'[d] = state_[d] /\ loop_'[d] = loop_[d]
            /\ d \in asked' <=> d \in asked
            /\ d \in connections_' <=> d \in connections_
        BY <2>1, <3>1, <4>1, <1>1, <1>6
      <4> QED BY <4>1, <4>2, <4>3, <1>4, OthersStay
    <3>2. CASE d = c
      <4>1. c \in connections_ /\ c \notin connections_' /\ loop_'[c] = 0
        BY <2>1, <2>5, <1>1, <1>9
      <4>2. /\ ~Holds(quene[0], Est(c)) /\ ~Holds(quene[0], Des(c))
            /\ Up(c) => ~Holds(quene[0], Rem(c))
        BY <4>1, <1>5, <1>9 DEF Up, Asked, Closed, Destroyed
      <4>3. /\ ~Holds(quene'[0], Est(c)) /\ Holds(quene'[0], Des(c)) /\ Once(quene'[0], Des(c))
            /\ Up(c) => ~Holds(quene'[0], Rem(c))
        BY <2>2, <4>2, <1>4, NoneIsOnce, FunctorsTyped DEF Added
      <4>4. CASE c \in asked'
        BY <3>2, <4>1, <4>3, <4>4, <1>6 DEF OnItsWay, Asked
      <4>5. CASE c \notin asked'
        <5>1. Up(c) /\ state_'[c] = "kDisconnected"
          BY <4>5, <1>5, <1>6 DEF Asked
        <5> QED BY <3>2, <4>1, <4>3, <4>5, <5>1 DEF OnItsWay, Closed
      <4> QED BY <4>4, <4>5
    <3> QED BY <3>1, <3>2
  <2> QED BY <2>3, <2>4, <2>5 DEF AllOnTheirWay
<1>10. CASE loop_[c] # 0
  <2>1. /\ UNCHANGED <<connections_, failed>>
        /\ quene' = Quened(quene, 0, "removeConnectionInLoop", c)
    BY <1>1, <1>10 DEF RemoveConnection
  <2>2. Added(quene, quene', 0, Rem(c))
    BY <2>1, <1>3, <1>4, <1>8, QuenedAdds
  <2>3. Frame' /\ Known' = Known
    <3>1. \A m \in Loops : \A g \in Functors : Holds(quene'[m], g) =>
              \/ Holds(quene[m], g)
              \/ \E d \in Known : \/ g = Rem(d) /\ m = 0
                                  \/ g = Des(d) /\ m = loop_[d]
      BY <2>2, <1>4 DEF Added
    <3>2. quene' \in Queues /\ connections_' \subseteq connections_ /\ asked' \subseteq Known
      BY <2>1, <2>2, <1>3, <1>4, <1>6 DEF Added
    <3> QED BY <3>1, <3>2, <1>1, <1>6, <1>7, FrameStays
  <2>4. FailedByUser'
    BY <2>1, <1>1 DEF FailedByUser
  <2>5. ASSUME NEW d \in Known PROVE OnItsWay(d)'
    <3>1. CASE d # c
      <4>1. d \in Conns /\ OnItsWay(d) /\ loop_[d] \in Loops
        BY <1>1, <1>4 DEF AllOnTheirWay
      <4>2. \A m \in Loops : \A g \in {Est(d), Rem(d), Des(d)} :
              /\ Holds(quene'[m], g) <=> Holds(quene[m], g)
              /\ Once(quene[m], g) => Once(quene'[m], g)
        BY <2>2, <3>1, FunctorsTyped DEF Added
      <4>3. /\ state_'[d] = state_[d] /\ loop_'[d] = loop_[d]
            /\ d \in asked' <=> d \in asked
            /\ d \in connections_' <=> d \in connections_
        BY <2>1, <3>1, <4>1, <1>1, <1>6
      <4> QED BY <4>1, <4>2, <4>3, <1>4, OthersStay
    <3>2. CASE d = c
      <4>1. /\ \A m \in Loops : Holds(quene'[m], Est(c)) <=> Holds(quene[m], Est(c))
            /\ \A m \in Loops : Holds(quene'[m], Des(c)) <=> Holds(quene[m], Des(c))
            /\ Holds(quene'[0], Rem(c))
        BY <2>2, <1>4, FunctorsTyped DEF Added
      <4>2. CASE Asked(c)
        <5>1. state_[c] \in Open \/ state_'[c] = state_[c]
          BY <1>2
        <5> QED BY <3>2, <4>1, <4>2, <5>1, <2>1, <1>1, <1>4, <1>6 DEF OnItsWay, Asked, Open
      <4>3. CASE Up(c) /\ c \in asked'
        BY <3>2, <4>1, <4>3, <2>1, <1>1, <1>4, <1>6 DEF OnItsWay, Up, Asked, Open
      <4>4. CASE Up(c) /\ c \notin asked'
        <5>1. Once(quene'[0], Rem(c))
          BY <4>4, <2>2, <1>4, NoneIsOnce DEF Added, Up
        <5>2. state_'[c] = "kDisconnected" /\ c \in connections_' /\ loop_'[c] = loop_[c]
          BY <4>4, <2>1, <1>1, <1>6 DEF Up
        <5> QED BY <3>2, <4>1, <4>4, <5>1, <5>2, <1>4 DEF OnItsWay, Up, Closed
      <4>5. CASE (Closed(c) \/ Destroyed(c)) /\ c \in asked'
        <5>1. state_'[c] = state_[c]
          BY <4>5, <1>6 DEF Closed, Destroyed
        <5>2. /\ connections_' = connections_ /\ loop_'[c] = loop_[c]
              /\ state_[c] \in {"kDisconnected", "destroyed"}
          BY <4>5, <2>1, <1>1 DEF Closed, Destroyed
        <5> QED BY <3>2, <4>1, <4>5, <5>1, <5>2, <1>4 DEF OnItsWay, Asked, Closed, Destroyed
      <4> QED BY <4>2, <4>3, <4>4, <4>5, <1>5
    <3> QED BY <3>1, <3>2
  <2> QED BY <2>3, <2>4, <2>5 DEF AllOnTheirWay
<1> QED BY <1>9, <1>10

(* shutdown of a connection that is up, or that user code asked to remove. *)
LEMMA ShutdownStep ==
    ASSUME Inv, NEW c \in Conns, Shutdown(c)
    PROVE  Inv'
<1> USE DEF Inv
<1>1. /\ failed = "none" /\ state_[c] = "kConnected"
      /\ state_' = [state_ EXCEPT ![c] = "kDisconnecting"]
      /\ UNCHANGED <<nextConnId_, connections_, loop_, asked, quene, started_, poolStarted_,
                     numThreads_, loops_, next_, startPc, backlog, clients, listenning_, failed>>
  BY DEF Shutdown, Running, pool
<1>2. /\ quene \in Queues /\ state_ \in [Conns -> States]
      /\ connections_ \subseteq Known /\ asked \subseteq Known
      /\ \A d \in Conns : d \in Known <=> state_[d] # "none"
  BY DEF Frame, ConnsTyped
<1>3. /\ state_' \in [Conns -> States] /\ state_'[c] = "kDisconnecting"
      /\ \A d \in Conns : d # c => state_'[d] = state_[d]
  BY <1>1, <1>2 DEF States
<1>4. Frame' /\ Known' = Known
  <2>1. \A d \in Conns : d \in Known <=> state_'[d] # "none"
    BY <1>1, <1>2, <1>3
  <2> QED BY <1>1, <1>2, <1>3, <2>1, FrameStays
<1>5. ASSUME NEW d \in Known PROVE OnItsWay(d)'
  <2>1. d \in Conns /\ loop_[d] \in Loops /\ 0 \in Loops /\ OnItsWay(d)
    BY <1>1, Bounds DEF AllOnTheirWay
  <2>2. CASE d # c
    BY <1>1, <1>3, <2>1, <2>2, OthersStay
  <2>3. CASE d = c
    <3>1. Up(c) \/ Asked(c)
      BY <1>1, <2>1, <2>3 DEF OnItsWay, Connecting, Closed, Destroyed
    <3> QED BY <1>1, <1>3, <2>3, <3>1 DEF OnItsWay, Up, Asked, Open
  <2> QED BY <2>2, <2>3
<1> QED BY <1>1, <1>4, <1>5 DEF AllOnTheirWay, FailedByUser

(* A loop runs its next functor. *)
LEMMA FunctorStep ==
    ASSUME Inv, NEW l \in Loops, RunFunctor(l)
    PROVE  Inv'
<1> USE DEF Inv
<1> DEFINE g == Head(quene[l])
           rest == [quene EXCEPT ![l] = Tail(@)]
<1>1. /\ failed = "none" /\ quene[l] # <<>>
      /\ UNCHANGED <<nextConnId_, loop_, asked, started_, poolStarted_, numThreads_, loops_, next_,
                     startPc, backlog, clients>>
  BY DEF RunFunctor, Running, pool
<1>2. /\ quene \in Queues /\ state_ \in [Conns -> States] /\ loop_ \in [Conns -> Loops]
      /\ connections_ \subseteq Known /\ asked \subseteq Known
      /\ \A d \in Conns : d \in Known <=> state_[d] # "none"
  BY DEF Frame, ConnsTyped
<1>3. Taken(quene, rest, l, g)
  BY <1>1, <1>2, TailTakes
<1>4. 0 \in Loops /\ \A d \in Known : d \in Conns /\ loop_[d] \in Loops
  BY Bounds
<1>5. \A d \in Known : OnItsWay(d)
  BY <1>1 DEF AllOnTheirWay
<1>6. /\ g.f = "listen" => /\ listenning_' = TRUE /\ UNCHANGED <<state_, connections_, failed>>
                           /\ quene' = rest
      /\ g.f = "connectEstablished" => /\ listenning_' = listenning_ /\ ConnectEstablished(g.c)
                                       /\ quene' = rest
      /\ g.f = "connectDestroyed" => /\ listenning_' = listenning_ /\ ConnectDestroyed(g.c)
                                     /\ quene' = rest
      /\ g.f = "removeConnectionInLoop" => /\ listenning_' = listenning_ /\ state_' = state_
                                           /\ RemoveConnectionInLoop(g.c, rest)
  BY DEF RunFunctor, Listen
<1> HIDE DEF g, rest
<1>7. \/ g = Lis /\ l = 0
      \/ \E c \in Known : \/ g = Rem(c) /\ l = 0
                          \/ g \in {Est(c), Des(c)} /\ l = loop_[c]
  BY <1>3 DEF Frame, Placed, Taken
<1>8. CASE g = Lis /\ l = 0
  <2>1. listenning_' = TRUE /\ UNCHANGED <<state_, connections_, failed>> /\ quene' = rest
    BY <1>6, <1>8, FunctorFields DEF Lis
  <2>2. Frame' /\ Known' = Known
    <3>1. /\ quene' \in Queues /\ Holds(quene[0], Lis)
          /\ \A m \in Loops : \A h : Holds(quene'[m], h) => Holds(quene[m], h)
      BY <2>1, <1>3, <1>8 DEF Taken
    <3> QED BY <2>1, <3>1, <1>1, <1>2, FrameStays
  <2>3. ASSUME NEW d \in Known PROVE OnItsWay(d)'
    <3>1. \A m \in Loops : \A h \in {Est(d), Rem(d), Des(d)} :
            /\ Holds(quene'[m], h) <=> Holds(quene[m], h)
            /\ Once(quene[m], h) => Once(quene'[m], h)
      BY <2>1, <1>3, <1>8, FunctorsTyped DEF Taken
    <3> QED BY <2>1, <3>1, <1>1, <1>4, <1>5, OthersStay
  <2> QED BY <2>1, <2>2, <2>3, <1>1 DEF AllOnTheirWay, FailedByUser
<1>9. ASSUME NEW c \in Known, g = Est(c), l = loop_[c] PROVE Inv'
  <2>1. Connecting(c)
    BY <1>3, <1>5, <1>9 DEF Taken, OnItsWay, Connecting, Up, Closed, Destroyed, Asked
  <2>2. /\ listenning_' = listenning_ /\ quene' = rest /\ failed' = failed
        /\ state_' = [state_ EXCEPT ![c] = "kConnected"] /\ connections_' = connections_
    BY <2>1, <1>6, <1>9, FunctorFields DEF Est, ConnectEstablished, Connecting
  <2>3. /\ c \in Conns /\ state_' \in [Conns -> States] /\ state_'[c] = "kConnected"
        /\ \A d \in Conns : d # c => state_'[d] = state_[d]
    BY <2>2, <1>2, <1>4 DEF States
  <2>4. Frame' /\ Known' = Known
    <3>1. /\ quene' \in Queues
          /\ \A m \in Loops : \A h : Holds(quene'[m], h) => Holds(quene[m], h)
      BY <2>2, <1>3 DEF Taken
    <3>2. \A d \in Conns : d \in Known <=> state_'[d] # "none"
      BY <2>3, <1>2
    <3> QED BY <2>2, <2>3, <3>1, <3>2, <1>1, <1>2, FrameStays
  <2>5. ASSUME NEW d \in Known PROVE OnItsWay(d)'
    <3>1. CASE d # c
      <4>1. \A m \in Loops : \A h \in {Est(d), Rem(d), Des(d)} :
              /\ Holds(quene'[m], h) <=> Holds(quene[m], h)
              /\ Once(quene[m], h) => Once(quene'[m], h)
        BY <2>2, <3>1, <1>3, <1>9, FunctorsTyped DEF Taken
      <4> QED BY <2>2, <2>3, <3>1, <4>1, <1>1, <1>4, <1>5, OthersStay
    <3>2. CASE d = c
      <4>1. /\ ~Holds(quene'[l], Est(c)) /\ ~Holds(quene'[0], Rem(c))
            /\ ~Holds(quene'[l], Des(c))
        BY <2>1, <2>2, <1>3, <1>4, <1>9 DEF Taken, Connecting
      <4> QED BY <2>1, <2>2, <2>3, <3>2, <4>1, <1>1, <1>9 DEF OnItsWay, Connecting, Up, Open
    <3> QED BY <3>1, <3>2
  <2> QED BY <2>2, <2>4, <2>5, <1>1 DEF AllOnTheirWay, FailedByUser
<1>10. ASSUME NEW c \in Known, g = Des(c), l = loop_[c], state_[c] # "kDisconnecting" PROVE Inv'
  <2>1. /\ listenning_' = listenning_ /\ quene' = rest /\ failed' = failed
        /\ state_' = [state_ EXCEPT ![c] = "destroyed"] /\ connections_' = connections_
    BY <1>6, <1>10, FunctorFields DEF Des, ConnectDestroyed
  <2>2. /\ c \in Conns /\ state_' \in [Conns -> States] /\ state_'[c] = "destroyed"
        /\ \A d \in Conns : d # c => state_'[d] = state_[d]
    BY <2>1, <1>2, <1>4 DEF States
  <2>3. Frame' /\ Known' = Known
    <3>1. /\ quene' \in Queues
          /\ \A m \in Loops : \A h : Holds(quene'[m], h) => Holds(quene[m], h)
      BY <2>1, <1>3 DEF Taken
    <3>2. \A d \in Conns : d \in Known <=> state_'[d] # "none"
      BY <2>2, <1>2
    <3> QED BY <2>1, <2>2, <3>1, <3>2, <1>1, <1>2, FrameStays
  <2>4. ASSUME NEW d \in Known PROVE OnItsWay(d)'
    <3>1. CASE d # c
      <4>1. \A m \in Loops : \A h \in {Est(d), Rem(d), Des(d)} :
              /\ Holds(quene'[m], h) <=> Holds(quene[m], h)
              /\ Once(quene[m], h) => Once(quene'[m], h)
        BY <2>1, <3>1, <1>3, <1>10, FunctorsTyped DEF Taken
      <4> QED BY <2>1, <2>2, <3>1, <4>1, <1>1, <1>4, <1>5, OthersStay
    <3>2. CASE d = c
      <4>1. c \notin connections_ /\ (Closed(c) \/ Asked(c))
        BY <1>3, <1>5, <1>10 DEF Taken, OnItsWay, Connecting, Up, Closed, Destroyed, Asked
      <4>2. ~Holds(quene'[l], Est(c))
        BY <2>1, <4>1, <1>3, <1>4, <1>10 DEF Taken, Closed, Asked
      <4>3. CASE Closed(c)
        <5>1. ~Holds(quene'[0], Rem(c)) /\ ~Holds(quene'[l], Des(c))
          BY <2>1, <4>1, <4>3, <1>3, <1>4, <1>10 DEF Taken, Closed
        <5> QED BY <2>1, <2>2, <3>2, <4>1, <4>2, <4>3, <5>1, <1>1, <1>10
                DEF OnItsWay, Closed, Destroyed
      <4>4. CASE Asked(c)
        BY <2>1, <2>2, <3>2, <4>1, <4>2, <4>4, <1>1, <1>10 DEF OnItsWay, Asked
      <4> QED BY <4>1, <4>3, <4>4
    <3> QED BY <3>1, <3>2
  <2> QED BY <2>1, <2>3, <2>4, <1>1 DEF AllOnTheirWay, FailedByUser
<1>11. ASSUME NEW c \in Known, g = Rem(c), l = 0 PROVE Inv'
  <2>1. /\ listenning_' = listenning_ /\ state_' = state_
        /\ failed' = IF c \in connections_ THEN failed ELSE "removeConnectionInLoop:n==1"
        /\ connections_' = connections_ \ {c}
        /\ quene' = Quened(rest, loop_[c], "connectDestroyed", c)
    BY <1>6, <1>11, FunctorFields DEF Rem, RemoveConnectionInLoop
  <2>2. Added(rest, quene', loop_[c], Des(c))
    <3>1. Functor("connectDestroyed", c) = Des(c) /\ Des(c) \in Functors
      BY <1>4, FunctorsTyped DEF Des
    <3>2. rest \in Queues
      BY <1>3 DEF Taken
    <3> QED BY <2>1, <3>1, <3>2, <1>4, QuenedAdds
  <2>3. Closed(c) \/ Asked(c)
    BY <1>3, <1>5, <1>11 DEF Taken, OnItsWay, Connecting, Up, Destroyed
  <2>4. Frame' /\ Known' = Known
    <3>1. \A m \in Loops : \A h \in Functors : Holds(quene'[m], h) =>
              \/ Holds(quene[m], h)
              \/ \E d \in Known : \/ h = Rem(d) /\ m = 0
                                  \/ h = Des(d) /\ m = loop_[d]
      BY <2>2, <1>3, <1>4 DEF Added, Taken
    <3>2. quene' \in Queues /\ connections_' \subseteq connections_
      BY <2>1, <2>2 DEF Added
    <3> QED BY <2>1, <3>1, <3>2, <1>1, <1>2, FrameStays
  <2>5. FailedByUser'
    <3>1. c \in connections_ \/ c \in asked
      BY <2>3, <1>3, <1>11 DEF Closed, Asked, Taken
    <3> QED BY <2>1, <3>1, <1>1 DEF FailedByUser
  <2>6. ASSUME failed' = "none", NEW d \in Known PROVE OnItsWay(d)'
    <3>1. CASE d # c
      <4>1. \A m \in Loops : \A h \in {Est(d), Rem(d), Des(d)} :
              /\ Holds(quene'[m], h) <=> Holds(quene[m], h)
              /\ Once(quene[m], h) => Once(quene'[m], h)
        BY <2>2, <3>1, <1>3, <1>11, FunctorsTyped DEF Added, Taken
      <4> QED BY <2>1, <3>1, <4>1, <1>1, <1>4, <1>5, OthersStay
    <3>2. CASE d = c
      <4>1. c \in connections_ /\ c \notin connections_'
        BY <2>1, <2>6
      <4>2. ~Holds(quene[loop_[c]], Est(c)) /\ ~Holds(quene[loop_[c]], Des(c))
        BY <2>3, <4>1 DEF Closed, Asked
      <4>3. /\ ~Holds(quene'[loop_[c]], Est(c))
            /\ Holds(quene'[loop_[c]], Des(c)) /\ Once(quene'[loop_[c]], Des(c))
        BY <2>2, <4>2, <1>3, <1>4, NoneIsOnce, FunctorsTyped DEF Added, Taken
      <4>4. CASE Closed(c)
        <5>1. ~Holds(quene'[0], Rem(c))
          BY <2>2, <4>1, <4>4, <1>3, <1>4, <1>11, FunctorsTyped DEF Added, Taken, Closed
        <5> QED BY <2>1, <3>2, <4>1, <4>3, <4>4, <5>1, <1>1 DEF OnItsWay, Closed
      <4>5. CASE Asked(c)
        BY <2>1, <3>2, <4>1, <4>3, <4>5, <1>1 DEF OnItsWay, Asked
      <4> QED BY <2>3, <4>4, <4>5
    <3> QED BY <3>1, <3>2
  <2> QED BY <2>4, <2>5, <2>6 DEF AllOnTheirWay
<1>12. ASSUME NEW c \in Known, g = Des(c), l = loop_[c], state_[c] = "kDisconnecting" PROVE Inv'
  <2>1. /\ listenning_' = listenning_ /\ quene' = rest /\ failed' = "remove:isNoneEvent"
        /\ state_' = state_ /\ connections_' = connections_
    BY <1>6, <1>12, FunctorFields DEF Des, ConnectDestroyed
  <2>2. Frame'
    <3>1. /\ quene' \in Queues
          /\ \A m \in Loops : \A h : Holds(quene'[m], h) => Holds(quene[m], h)
      BY <2>1, <1>3 DEF Taken
    <3> QED BY <2>1, <3>1, <1>1, <1>2, FrameStays
  <2>3. c \in asked
    BY <1>3, <1>5, <1>12 DEF Taken, OnItsWay, Connecting, Up, Closed, Destroyed, Asked
  <2>4. FailedByUser'
    BY <2>1, <2>3, <1>1, <1>12 DEF FailedByUser
  <2> QED BY <2>1, <2>2, <2>4
<1> QED BY <1>7, <1>8, <1>9, <1>10, <1>11, <1>12

(* Inv holds, however the threads that start the server, the loops, the    *)
(* clients and the user code are timed.                                    *)
THEOREM Invariance == Spec => []Inv
<1>1. Init => Inv
  <2> SUFFICES ASSUME Init PROVE Inv
    OBVIOUS
  <2> USE DEF Init, AcceptorInit, PoolInit
  <2>1. Known = {} /\ 0 \in Loops
    BY TcpServerAssumption DEF Known, Loops
  <2>2. Counted
    BY TcpServerAssumption DEF Counted
  <2>3. \A l \in Loops : quene[l] = <<>>
    OBVIOUS
  <2>4. \A l \in Loops : \A g : ~Holds(quene[l], g)
    BY <2>3 DEF Holds
  <2>5. quene \in Queues
    <3>1. <<>> \in Seq(Functors)
      OBVIOUS
    <3> QED BY <3>1 DEF Queues
  <2>6. Started
    <3>1. started_ = 0 /\ loops_ = 0 /\ nextConnId_ = 1
      OBVIOUS
    <3>2. listenning_ = FALSE /\ poolStarted_ = FALSE
      OBVIOUS
    <3>3. /\ startPc \in [Starters -> {"idle", "pool", "done"}]
          /\ \A t \in Starters : startPc[t] = "idle"
      OBVIOUS
    <3>4. ~Holds(quene[0], Lis)
      BY <2>1, <2>4
    <3> HIDE DEF Init, AcceptorInit, PoolInit
    <3>5. started_ # 1 /\ ~(nextConnId_ > 1)
      BY <3>1
    <3>6. /\ started_ \in {0, 1} /\ listenning_ \in BOOLEAN
          /\ poolStarted_ \in BOOLEAN /\ (poolStarted_ <=> started_ = 1)
      BY <3>1, <3>2, <3>5
    <3>7. \A t \in Starters : startPc[t] # "pool"
      BY <3>3
    <3> QED BY <3>1, <3>2, <3>3, <3>4, <3>5, <3>6, <3>7 DEF Started
  <2>7. NextInPool
    BY <2>1 DEF NextInPool
  <2>8. ConnsTyped
    BY <2>1, <2>5 DEF ConnsTyped, States
  <2>9. Placed
    BY <2>4 DEF Placed
  <2> QED BY <2>1, <2>2, <2>6, <2>7, <2>8, <2>9 DEF Inv, Frame, FailedByUser, AllOnTheirWay
<1>2. Inv /\ [Next]_vars => Inv'
  <2> SUFFICES ASSUME Inv, [Next]_vars PROVE Inv'
    OBVIOUS
  <2>1. ASSUME NEW n \in Loops, SetThreadNum(n) PROVE Inv'
    BY <2>1, QuietStep DEF SetThreadNum
  <2>2. ASSUME NEW t \in Starters, Start(t) \/ StartThread(t) PROVE Inv'
    BY <2>2, QuietStep DEF Start, StartThread
  <2>3. CASE Emfile \/ EmfileStep
    BY <2>3, QuietStep DEF Emfile, EmfileStep, EmfileAccept, EmfileClose, EmfileOpen, InEmfile
  <2>4. CASE ClientConnects \/ ClientLeaves \/ OthersOpen \/ OthersClose
    BY <2>4, QuietStep DEF ClientConnects, ClientLeaves, OthersOpen, OthersClose
  <2>5. CASE UNCHANGED vars
    BY <2>5, QuietStep DEF vars
  <2> QED
    BY <2>1, <2>2, <2>3, <2>4, <2>5, StartListenStep, AcceptStep, ShutdownStep, RemoveStep,
       FunctorStep
       DEF Next
<1> QED BY <1>1, <1>2, PTL DEF Spec
-----------------------------------------------------------------------------
(* The functors that hold a connection are those that Inv speaks of. *)
LEMMA HeldBy ==
    ASSUME Frame, NEW c \in Known
    PROVE  /\ \A l \in Loops : \A g \in {Est(c), Rem(c), Des(c)} :
                 Holds(quene[l], g) => Held(c) # {}
           /\ \A p \in Held(c) : \E l \in Loops : \E i \in DOMAIN quene[l] :
                 /\ p = <<l, i>>
                 /\ \/ quene[l][i] = Rem(c) /\ l = 0
                    \/ quene[l][i] \in {Est(c), Des(c)} /\ l = loop_[c]
<1>1. ASSUME NEW l \in Loops, NEW g \in {Est(c), Rem(c), Des(c)}, Holds(quene[l], g)
      PROVE  Held(c) # {}
  <2>1. g.c = c
    BY FunctorFields DEF Est, Rem, Des
  <2>2. PICK i \in DOMAIN quene[l] : quene[l][i] = g
    BY <1>1 DEF Holds
  <2>3. <<l, i>> \in Held(c)
    BY <2>1, <2>2 DEF Held
  <2> QED BY <2>3
<1>2. ASSUME NEW p \in Held(c)
      PROVE  \E l \in Loops : \E i \in DOMAIN quene[l] :
                 /\ p = <<l, i>>
                 /\ \/ quene[l][i] = Rem(c) /\ l = 0
                    \/ quene[l][i] \in {Est(c), Des(c)} /\ l = loop_[c]
  <2>1. PICK l \in Loops : \E i \in DOMAIN quene[l] : p = <<l, i>> /\ quene[l][i].c = c
    BY DEF Held
  <2>2. PICK i \in DOMAIN quene[l] : p = <<l, i>> /\ quene[l][i].c = c
    BY <2>1
  <2>3. quene[l] \in Seq(Functors)
    BY DEF Frame, ConnsTyped, Queues
  <2>4. quene[l][i] \in Functors
    BY <2>3
  <2>5. Holds(quene[l], quene[l][i])
    BY DEF Holds
  <2>6. Lis.c = 0 /\ 0 \notin Known
    BY FunctorFields DEF Lis, Known
  <2>7. \A d : Est(d).c = d /\ Rem(d).c = d /\ Des(d).c = d
    BY FunctorFields DEF Est, Rem, Des
  <2>8. \/ quene[l][i] = Rem(c) /\ l = 0
        \/ quene[l][i] \in {Est(c), Des(c)} /\ l = loop_[c]
    BY <2>2, <2>4, <2>5, <2>6, <2>7 DEF Frame, Placed
  <2> QED BY <2>2, <2>8
<1> QED BY <1>1, <1>2

(* A closed connection is in one functor. *)
LEMMA HeldOnce ==
    ASSUME Frame, NEW c \in Known, Closed(c)
    PROVE  Cardinality(Held(c)) = 1
<1>1. PICK l \in Loops, g \in {Rem(c), Des(c)} :
        /\ Holds(quene[l], g) /\ Once(quene[l], g)
        /\ \A m \in Loops : \A i \in DOMAIN quene[m] :
             (quene[m][i] = Rem(c) /\ m = 0) \/ (quene[m][i] \in {Est(c), Des(c)} /\ m = loop_[c])
               => m = l /\ quene[m][i] = g
  <2>1. 0 \in Loops /\ loop_[c] \in Loops
    BY Bounds
  <2>2. \A m \in Loops : \A i \in DOMAIN quene[m] : Holds(quene[m], quene[m][i])
    BY DEF Holds
  <2>3. CASE Holds(quene[0], Rem(c))
    BY <2>1, <2>2, <2>3 DEF Closed
  <2>4. CASE ~Holds(quene[0], Rem(c))
    BY <2>1, <2>2, <2>4 DEF Closed
  <2> QED BY <2>3, <2>4
<1>2. PICK i \in DOMAIN quene[l] : quene[l][i] = g
  BY <1>1 DEF Holds
<1>3. g.c = c
  BY FunctorFields DEF Rem, Des
<1>4. <<l, i>> \in Held(c)
  BY <1>2, <1>3 DEF Held
<1>5. ASSUME NEW p \in Held(c) PROVE p = <<l, i>>
  <2>1. PICK m \in Loops : \E j \in DOMAIN quene[m] :
          /\ p = <<m, j>>
          /\ \/ quene[m][j] = Rem(c) /\ m = 0
             \/ quene[m][j] \in {Est(c), Des(c)} /\ m = loop_[c]
    BY HeldBy
  <2>2. PICK j \in DOMAIN quene[m] :
          /\ p = <<m, j>>
          /\ \/ quene[m][j] = Rem(c) /\ m = 0
             \/ quene[m][j] \in {Est(c), Des(c)} /\ m = loop_[c]
    BY <2>1
  <2>3. m = l /\ quene[m][j] = g
    BY <1>1, <2>2
  <2>4. i = j
    BY <1>1, <1>2, <2>3 DEF Once
  <2> QED BY <2>2, <2>3, <2>4
<1>6. Held(c) = {<<l, i>>}
  BY <1>4, <1>5
<1> QED BY <1>6, FS_Singleton

(* A TcpConnection is held by the map or by a functor until                *)
(* connectDestroyed has run, a closed one by exactly one functor, and      *)
(* asserts fail only by removeConnection calls of user code: for a         *)
(* connection that closes as well, or that was shut down.                  *)
THEOREM OwnedUntilTheEnd == Spec => []OwnedUntilDestroyed
<1>1. Inv => OwnedUntilDestroyed
  <2> SUFFICES ASSUME Inv PROVE OwnedUntilDestroyed
    OBVIOUS
  <2> USE DEF Inv
  <2>1. \/ failed = "none"
        \/ failed = "removeConnectionInLoop:n==1" /\ asked # {}
        \/ failed = "remove:isNoneEvent" /\ \E c \in asked : state_[c] = "kDisconnecting"
    BY DEF FailedByUser
  <2>2. ASSUME failed = "none", NEW c \in Known
        PROVE  /\ state_[c] # "destroyed" => c \in connections_ \/ Held(c) # {}
               /\ state_[c] = "destroyed" => c \notin connections_ /\ (Held(c) = {} \/ c \in asked)
               /\ state_[c] = "kDisconnected" /\ c \notin asked => Cardinality(Held(c)) = 1
    <3>1. OnItsWay(c) /\ 0 \in Loops /\ loop_[c] \in Loops
      BY <2>2, Bounds DEF AllOnTheirWay
    <3>2. state_[c] # "destroyed" => c \in connections_ \/ Held(c) # {}
      BY <3>1, HeldBy DEF OnItsWay, Connecting, Up, Closed, Destroyed, Asked
    <3>3. state_[c] = "destroyed" => c \notin connections_ /\ (Held(c) = {} \/ c \in asked)
      <4>1. CASE Destroyed(c)
        <5>1. Held(c) = {}
          BY <3>1, <4>1, HeldBy DEF Destroyed, Holds
        <5> QED BY <4>1, <5>1 DEF Destroyed
      <4>2. CASE ~Destroyed(c)
        BY <3>1, <4>2 DEF OnItsWay, Connecting, Up, Closed, Asked, Open
      <4> QED BY <4>1, <4>2
    <3>4. state_[c] = "kDisconnected" /\ c \notin asked => Cardinality(Held(c)) = 1
      BY <3>1, HeldOnce DEF OnItsWay, Connecting, Up, Destroyed, Asked, Open
    <3> QED BY <3>2, <3>3, <3>4
  <2> QED BY <2>1, <2>2 DEF OwnedUntilDestroyed, Running, Known
<1> QED BY <1>1, Invariance, PTL
-----------------------------------------------------------------------------
(* Dealing out the connections. *)

GivenTo(k) == {c \in Known : loop_[c] = k}

(* What getNextLoop and newConnection do to the numbers of connections.    *)
LEMMA AcceptDeals ==
    ASSUME Inv, Accept
    PROVE  \A k : Given(k)' = IF k = GetNextLoop.loop THEN Given(k) + 1 ELSE Given(k)
<1> DEFINE c == nextConnId_
           l == GetNextLoop.loop
<1>1. c \in Conns /\ c \notin Known /\ Known \subseteq Conns
  BY Bounds DEF Inv, Accept, Readable
<1>2. nextConnId_' = c + 1 /\ loop_' = [loop_ EXCEPT ![c] = l]
  BY DEF Accept, NewConnection
<1>3. Known' = Known \cup {c}
  BY <1>2 DEF Inv, Frame, Counted, Known
<1>4. loop_'[c] = l /\ \A d \in Known : loop_'[d] = loop_[d]
  BY <1>1, <1>2 DEF Inv, Frame, ConnsTyped
<1>5. \A k : Given(k) = Cardinality(GivenTo(k))
  BY DEF Given, GivenTo, Known
<1>6. \A k : Given(k)' = Cardinality({d \in Known' : loop_'[d] = k})
  BY DEF Given, Known
<1>7. ASSUME NEW k, k # l PROVE Given(k)' = Given(k)
  <2>1. {d \in Known' : loop_'[d] = k} = GivenTo(k)
    BY <1>3, <1>4, <1>7 DEF GivenTo
  <2> QED BY <2>1, <1>5, <1>6
<1>8. ASSUME NEW k, k = l PROVE Given(k)' = Given(k) + 1
  <2>1. {d \in Known' : loop_'[d] = k} = GivenTo(k) \cup {c}
    BY <1>3, <1>4, <1>8 DEF GivenTo
  <2>2. IsFiniteSet(Known)
    BY FS_Interval DEF Inv, Frame, Counted, Known
  <2>3. IsFiniteSet(GivenTo(k)) /\ c \notin GivenTo(k)
    BY <2>2, <1>1, FS_Subset DEF GivenTo
  <2>4. Cardinality(GivenTo(k) \cup {c}) = Cardinality(GivenTo(k)) + 1
    BY <2>3, FS_AddElement
  <2> QED BY <2>1, <2>4, <1>5, <1>6
<1> QED BY <1>7, <1>8

(* Dealt is kept where the threads are counted and where a connection      *)
(* comes.                                                                  *)
LEMMA DealtStep ==
    ASSUME Inv, Dealt, [Next]_vars
    PROVE  Dealt'
<1>1. CASE UNCHANGED <<numThreads_, next_, nextConnId_, loop_>>
  BY <1>1 DEF Dealt, Given, Known
<1>2. ASSUME NEW n \in Loops, SetThreadNum(n) PROVE Dealt'
  <2>1. n \in Nat /\ numThreads_' = n /\ UNCHANGED <<next_, nextConnId_, loop_>>
    BY <1>2, TcpServerAssumption DEF SetThreadNum, Loops, conns
  <2>2. started_ = 0
    BY <1>2 DEF SetThreadNum, Inv, Frame, Started
  <2>3. loops_ = 0 /\ ~(nextConnId_ > 1)
    BY <2>2 DEF Inv, Frame, Started
  <2>4. next_ = 0 /\ Known = {}
    BY <2>3 DEF Inv, Frame, NextInPool, Counted, Known
  <2>5. Known' = {} /\ next_' = 0
    BY <2>1, <2>4 DEF Known
  <2>6. \A k \in 1..n : Given(k)' = 0
    BY <2>5, FS_EmptySet DEF Given, Known
  <2>7. 0 \in Nat /\ \A k \in 1..n : ~(k <= 0)
    BY <2>1
  <2>8. \E b \in Nat : \A k \in 1..n : Given(k)' = IF k <= next_' THEN b + 1 ELSE b
    BY <2>5, <2>6, <2>7
  <2> QED BY <2>1, <2>5, <2>8 DEF Dealt
<1>3. CASE Accept
  <2> DEFINE l == GetNextLoop.loop
  <2>1. loops_ = numThreads_ /\ numThreads_' = numThreads_ /\ next_' = GetNextLoop.next
    BY <1>3 DEF Accept, Readable, NewConnection, Inv, Frame, Started
  <2>2. numThreads_ \in Nat /\ next_ \in Nat /\ (next_ = 0 \/ next_ < numThreads_)
    BY <2>1, TcpServerAssumption DEF Inv, Frame, NextInPool, Loops
  <2>3. /\ nextConnId_ \in Conns /\ nextConnId_ \notin Known /\ Known \subseteq Conns
        /\ Known' = Known \cup {nextConnId_}
    <3>1. nextConnId_' = nextConnId_ + 1
      BY <1>3 DEF Accept, NewConnection
    <3> QED BY <1>3, <3>1, Bounds DEF Accept, Readable, Known, Inv, Frame, Counted
  <2>4. loop_'[nextConnId_] = l /\ \A d \in Known : loop_'[d] = loop_[d]
    BY <1>3, <2>3 DEF Accept, NewConnection, Inv, Frame, ConnsTyped
  <2>5. CASE numThreads_ = 0
    <3>1. l = 0
      BY <2>1, <2>5 DEF GetNextLoop
    <3> QED BY <3>1, <2>1, <2>3, <2>4, <2>5 DEF Dealt
  <2>6. CASE numThreads_ # 0
    <3>1. /\ l = next_ + 1 /\ l # 0 /\ l \in 1..numThreads_
          /\ next_' = IF l >= numThreads_ THEN 0 ELSE l
      BY <2>1, <2>2, <2>6 DEF GetNextLoop
    <3>2. \A c \in Known' : loop_'[c] # 0
      BY <3>1, <2>3, <2>4, <2>6 DEF Dealt
    <3>3. PICK b \in Nat : \A k \in 1..numThreads_ : Given(k) = IF k <= next_ THEN b + 1 ELSE b
      BY <2>6 DEF Dealt
    <3>4. \A k \in 1..numThreads_ : Given(k)' = IF k <= l THEN b + 1 ELSE b
      BY <1>3, <2>2, <3>1, <3>3, AcceptDeals
    <3>5. CASE l >= numThreads_
      <4>1. \A k \in 1..numThreads_ : k <= l /\ ~(k <= 0)
        BY <2>2, <3>1, <3>5
      <4>2. next_' = 0 /\ b + 1 \in Nat
        BY <3>1, <3>5
      <4>3. \A k \in 1..numThreads_ : Given(k)' = IF k <= next_' THEN (b + 1) + 1 ELSE b + 1
        BY <3>4, <4>1, <4>2
      <4> QED BY <2>1, <2>6, <3>2, <4>2, <4>3 DEF Dealt
    <3>6. CASE ~(l >= numThreads_)
      BY <2>1, <2>6, <3>1, <3>2, <3>4, <3>6 DEF Dealt
    <3> QED BY <3>5, <3>6
  <2> QED BY <2>5, <2>6
<1>4. \/ \E t \in Starters : Start(t) \/ StartThread(t) \/ StartListen(t)
      \/ Emfile \/ EmfileStep
      \/ \E c \in Conns : Shutdown(c) \/ HandleClose(c) \/ UserRemoves(c)
      \/ \E k \in Loops : RunFunctor(k)
      \/ ClientConnects \/ ClientLeaves \/ OthersOpen \/ OthersClose \/ UNCHANGED vars
      => UNCHANGED <<numThreads_, next_, nextConnId_, loop_>>
  BY DEF Start, StartThread, StartListen, Emfile, EmfileStep, EmfileAccept, EmfileClose,
         EmfileOpen, InEmfile, Shutdown, HandleClose, UserRemoves, RunFunctor, ClientConnects,
         ClientLeaves, OthersOpen, OthersClose, vars, pool, conns
<1> QED BY <1>1, <1>2, <1>3, <1>4 DEF Next

(* The loops of the pool differ by at most one in the connections they     *)
(* were given, and the base loop gets none when there is a pool, for any   *)
(* number of I/O threads and connections, whichever thread calls start().  *)
THEOREM ConnectionsDealtEvenly == Spec => []DealtEvenly
<1>1. Init => Dealt
  <2> SUFFICES ASSUME Init PROVE Dealt
    OBVIOUS
  <2>1. Known = {} /\ numThreads_ = 0
    BY DEF Init, PoolInit, Known
  <2> QED BY <2>1 DEF Dealt
<1>2. Inv /\ Dealt /\ [Next]_vars => Dealt'
  BY DealtStep
<1>3. Inv /\ Dealt => DealtEvenly
  <2> SUFFICES ASSUME Inv, Dealt PROVE DealtEvenly
    OBVIOUS
  <2>1. \A k : Given(k) = Cardinality(GivenTo(k))
    BY DEF Given, GivenTo, Known
  <2>2. CASE numThreads_ = 0
    <3>1. \A k \in 1..MaxThreads : GivenTo(k) = {}
      BY <2>2 DEF Dealt, GivenTo
    <3> QED BY <2>1, <2>2, <3>1, FS_EmptySet DEF DealtEvenly
  <2>3. CASE numThreads_ # 0
    <3>1. GivenTo(0) = {}
      BY <2>3 DEF Dealt, GivenTo
    <3>2. Given(0) = 0
      BY <2>1, <3>1, FS_EmptySet
    <3>3. PICK b \in Nat : \A k \in 1..numThreads_ : Given(k) = IF k <= next_ THEN b + 1 ELSE b
      BY <2>3 DEF Dealt
    <3>4. \A k, m \in 1..numThreads_ : Given(k) <= Given(m) + 1
      BY <3>3
    <3> QED BY <2>3, <3>2, <3>4 DEF DealtEvenly
  <2> QED BY <2>2, <2>3
<1> QED BY <1>1, <1>2, <1>3, Invariance, PTL DEF Spec
=============================================================================
