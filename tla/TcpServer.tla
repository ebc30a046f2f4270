------------------------------ MODULE TcpServer ------------------------------
(***************************************************************************)
(* A TcpServer (net/TcpServer.cpp) with its Acceptor (net/Acceptor.cpp)    *)
(* and its EventLoopThreadPool (net/EventLoopThreadPool.cpp): connections  *)
(* are accepted in the base loop, dealt out to the I/O loops, and taken    *)
(* out of the map again when they close.                                   *)
(*                                                                         *)
(* Loop 0 is the base loop, loop k the k-th one of the pool.  Every loop   *)
(* is a thread that runs functors and handlers one at a time; of a         *)
(* connection only what the server sees of it is kept here, the rest is in *)
(* TcpConnection.  Descriptors are counted.  An assert that does not hold  *)
(* ends the program and is recorded in failed.                             *)
(***************************************************************************)
EXTENDS Naturals, Sequences, FiniteSets

CONSTANTS MaxThreads,    \* bound on setThreadNum
          Starters,      \* threads that call start(): the base loop's and others
          BaseThread,    \* the base loop's thread
          Descriptors,   \* descriptors left when the Acceptor has idleFd_
          MaxClients,    \* bound on the clients that connect
          MaxOthers,     \* bound on the descriptors other threads open
          MaxAsked       \* bound on the connections user code removes

ASSUME TcpServerAssumption ==
    /\ MaxThreads \in Nat /\ Descriptors \in Nat /\ MaxClients \in Nat
    /\ MaxOthers \in Nat /\ MaxAsked \in Nat

VARIABLES
    started_, poolStarted_, numThreads_, loops_, next_,   \* loops_ as its size
    listenning_, idleFd_,
    nextConnId_, connections_,
    state_,      \* the connections' state_, "destroyed" after connectDestroyed
    loop_,       \* the connections' ioLoop
    quene,       \* the loops' pendingFunctors_
    startPc,     \* where the Starters are
    acceptPc,    \* where Acceptor::handleRead is
    backlog,     \* connections the kernel has for accept
    clients,     \* clients so far
    free,        \* descriptors that can be opened
    others,      \* descriptors other threads have open
    stolen,      \* history: one was opened by another thread inside handleRead
    asked,       \* history: connections user code called removeConnection for
    failed       \* the assert that did not hold

pool == <<poolStarted_, numThreads_, loops_, next_>>
conns == <<nextConnId_, connections_, state_, loop_, asked>>
fds == <<idleFd_, acceptPc, free, others, stolen>>
vars == <<started_, pool, listenning_, conns, quene, startPc, backlog, clients, fds, failed>>

Loops == 0..MaxThreads
Conns == 1..MaxClients

AcceptorInit == listenning_ = FALSE /\ idleFd_ = "held" /\ acceptPc = "idle"

PoolInit == poolStarted_ = FALSE /\ numThreads_ = 0 /\ loops_ = 0 /\ next_ = 0

Init == /\ AcceptorInit /\ PoolInit
        /\ started_ = 0 /\ nextConnId_ = 1 /\ connections_ = {}
        /\ state_ = [c \in Conns |-> "none"] /\ loop_ = [c \in Conns |-> 0]
        /\ quene = [l \in Loops |-> <<>>]
        /\ startPc = [t \in Starters |-> "idle"]
        /\ backlog = 0 /\ clients = 0
        /\ free = Descriptors /\ others = 0 /\ stolen = FALSE
        /\ asked = {} /\ failed = "none"

Running == failed = "none"

\* The thread of loop l is between two functors or handlers.
Idle(l) == l = 0 => /\ acceptPc = "idle"
                    /\ BaseThread \in Starters => startPc[BaseThread] # "pool"

Functor(f, c) == [f |-> f, c |-> c]
Quened(q, l, f, c) == [q EXCEPT ![l] = Append(@, Functor(f, c))]
-----------------------------------------------------------------------------
(* Starting the server: setThreadNum, then start, in any thread. *)

SetThreadNum(n) == /\ Running
                   /\ \A t \in Starters : startPc[t] = "idle"
                   /\ numThreads_' = n
                   /\ UNCHANGED <<started_, poolStarted_, loops_, next_, listenning_, conns, quene,
                                  startPc, backlog, clients, fds, failed>>

\* start up to the loop of EventLoopThreadPool::start
Start(t) == /\ Running
            /\ startPc[t] = "idle"
            /\ started_' = 1
            /\ startPc' = [startPc EXCEPT ![t] = IF started_ = 0 THEN "pool" ELSE "done"]
            /\ failed' = IF started_ = 0 /\ poolStarted_ THEN "start:started_" ELSE failed
            /\ poolStarted_' = (poolStarted_ \/ started_ = 0)
            /\ UNCHANGED <<numThreads_, loops_, next_, listenning_, conns, quene, backlog,
                           clients, fds>>

\* One more EventLoopThread, whose loop startLoop() has returned.
StartThread(t) == /\ Running
                  /\ startPc[t] = "pool" /\ loops_ < numThreads_
                  /\ loops_' = loops_ + 1
                  /\ UNCHANGED <<started_, poolStarted_, numThreads_, next_, listenning_, conns,
                                 quene, startPc, backlog, clients, fds, failed>>

\* Acceptor::listen: the listening socket is polled from now on.
Listen == listenning_' = TRUE

\* The end of start: runInLoop(listen).
StartListen(t) ==
    /\ Running
    /\ startPc[t] = "pool" /\ loops_ = numThreads_
    /\ startPc' = [startPc EXCEPT ![t] = "done"]
    /\ failed' = IF listenning_ THEN "start:listenning" ELSE failed
    /\ IF t = BaseThread THEN Listen /\ UNCHANGED quene
                         ELSE quene' = Quened(quene, 0, "listen", 0) /\ UNCHANGED listenning_
    /\ UNCHANGED <<started_, pool, conns, backlog, clients, fds>>
-----------------------------------------------------------------------------
(* Acceptor::handleRead in the base loop. *)

MGetNextLoop == IF loops_ = 0 THEN [loop |-> 0, next |-> next_]
                ELSE [loop |-> next_ + 1, next |-> IF next_ + 2 >= loops_ THEN 0 ELSE next_ + 1]

\* getNextLoop: the loop, and next_ behind it
GetNextLoop == IF loops_ = 0 THEN [loop |-> 0, next |-> next_]
               ELSE [loop |-> next_ + 1, next |-> IF next_ + 1 >= loops_ THEN 0 ELSE next_ + 1]

\* TcpServer::newConnection; a connection is named after its number.
NewConnection ==
    LET c == nextConnId_
        l == GetNextLoop.loop
    IN /\ failed' = IF poolStarted_ THEN failed ELSE "getNextLoop:started_"
       /\ next_' = GetNextLoop.next
       /\ nextConnId_' = c + 1
       /\ connections_' = connections_ \cup {c}
       /\ loop_' = [loop_ EXCEPT ![c] = l]
       /\ state_' = [state_ EXCEPT ![c] = IF l = 0 THEN "kConnected" ELSE "kConnecting"]
       /\ quene' = IF l = 0 THEN quene ELSE Quened(quene, l, "connectEstablished", c)

\* What sockets::accept returns.  Errors other than EMFILE change nothing.
accept == IF free > 0 THEN "connfd" ELSE "EMFILE"

Readable == Running /\ Idle(0) /\ listenning_ /\ backlog > 0

Accept == /\ Readable /\ accept = "connfd"
          /\ free' = free - 1 /\ backlog' = backlog - 1
          /\ NewConnection
          /\ UNCHANGED <<started_, poolStarted_, numThreads_, loops_, listenning_, startPc, clients,
                         idleFd_, acceptPc, others, stolen, asked>>

\* What the four calls of the EMFILE branch leave alone
InEmfile(pc, next) == /\ Running /\ acceptPc = pc
                      /\ acceptPc' = next
                      /\ UNCHANGED <<started_, pool, listenning_, conns, quene, startPc, clients,
                                     others, stolen, failed>>

Emfile == /\ Readable /\ accept = "EMFILE"
          /\ InEmfile("idle", "accept")
          /\ free' = IF idleFd_ = "held" THEN free + 1 ELSE free
          /\ idleFd_' = "closed"
          /\ UNCHANGED backlog

MEmfileAccept == /\ InEmfile("accept", "close")
                 /\ idleFd_' = "none"
                 /\ UNCHANGED <<free, backlog>>

EmfileAccept == /\ InEmfile("accept", "close")
                /\ IF free > 0 /\ backlog > 0
                   THEN idleFd_' = "client" /\ free' = free - 1 /\ backlog' = backlog - 1
                   ELSE idleFd_' = "none" /\ UNCHANGED <<free, backlog>>

MEmfileClose == /\ InEmfile("close", "open")
                /\ UNCHANGED <<free, idleFd_, backlog>>

EmfileClose == /\ InEmfile("close", "open")
               /\ free' = IF idleFd_ = "client" THEN free + 1 ELSE free
               /\ idleFd_' = "closed"
               /\ UNCHANGED backlog

EmfileOpen == /\ InEmfile("open", "idle")
              /\ IF free > 0 THEN idleFd_' = "held" /\ free' = free - 1
                             ELSE idleFd_' = "none" /\ UNCHANGED free
              /\ UNCHANGED backlog

EmfileStep == EmfileAccept \/ EmfileClose \/ EmfileOpen
-----------------------------------------------------------------------------
(* Closing a connection. *)

MRemoveConnectionInLoop(c, q) ==
    /\ failed' = IF c \in connections_ THEN failed ELSE "removeConnectionInLoop:n==1"
    /\ connections_' = connections_ \ {c}
    /\ quene' = q

\* q: the functors before the call
RemoveConnectionInLoop(c, q) ==
    /\ failed' = IF c \in connections_ THEN failed ELSE "removeConnectionInLoop:n==1"
    /\ connections_' = connections_ \ {c}
    /\ quene' = Quened(q, loop_[c], "connectDestroyed", c)

\* TcpServer::removeConnection in the thread of the connection: runInLoop
RemoveConnection(c) ==
    IF loop_[c] = 0 THEN RemoveConnectionInLoop(c, quene)
                    ELSE /\ quene' = Quened(quene, 0, "removeConnectionInLoop", c)
                         /\ UNCHANGED <<connections_, failed>>

Open == {"kConnected", "kDisconnecting"}

\* TcpConnection::shutdown, in the thread of the connection; and the first
\* part of forceClose, whose functor then is a HandleClose.
Shutdown(c) ==
    /\ Running /\ state_[c] = "kConnected" /\ Idle(loop_[c])
    /\ state_' = [state_ EXCEPT ![c] = "kDisconnecting"]
    /\ UNCHANGED <<started_, pool, listenning_, nextConnId_, connections_, loop_, asked, quene,
                   startPc, backlog, clients, fds, failed>>

\* TcpConnection::handleClose, whatever its reason
HandleClose(c) ==
    /\ Running /\ state_[c] \in Open /\ Idle(loop_[c])
    /\ state_' = [state_ EXCEPT ![c] = "kDisconnected"]
    /\ RemoveConnection(c)
    /\ UNCHANGED <<started_, pool, listenning_, nextConnId_, loop_, asked, startPc, backlog,
                   clients, fds>>

\* removeConnection is public: user code that holds the connection, since its
\* connectionCallback_, calls it in the connection's loop, at any time.
UserRemoves(c) ==
    /\ Running /\ state_[c] \notin {"none", "kConnecting"} /\ Idle(loop_[c])
    /\ c \notin asked /\ Cardinality(asked) < MaxAsked
    /\ asked' = asked \cup {c}
    /\ RemoveConnection(c)
    /\ UNCHANGED <<started_, pool, listenning_, nextConnId_, state_, loop_, startPc, backlog,
                   clients, fds>>

ConnectEstablished(c) ==
    /\ failed' = IF state_[c] = "kConnecting" THEN failed ELSE "connectEstablished:state_"
    /\ state_' = [state_ EXCEPT ![c] = "kConnected"]
    /\ UNCHANGED connections_

\* Only a connection that is kConnected gets its disableAll here.  After
\* shutdown the channel still reads (stopRead is not in this model), and
\* Channel::remove asserts isNoneEvent().  The descriptor is not closed, now
\* or when the TcpConnection is destructed: ~Socket is empty.
ConnectDestroyed(c) ==
    /\ IF state_[c] = "kDisconnecting"
       THEN failed' = "remove:isNoneEvent" /\ UNCHANGED state_
       ELSE state_' = [state_ EXCEPT ![c] = "destroyed"] /\ UNCHANGED failed
    /\ UNCHANGED connections_

RunFunctor(l) ==
    /\ Running /\ Idle(l) /\ quene[l] # <<>>
    /\ LET c == Head(quene[l]).c
           f == Head(quene[l]).f
           rest == [quene EXCEPT ![l] = Tail(@)]
       IN /\ IF f = "listen" THEN Listen ELSE UNCHANGED listenning_
          /\ CASE f = "listen"                 -> UNCHANGED <<state_, connections_, failed>>
               [] f = "connectEstablished"     -> ConnectEstablished(c)
               [] f = "connectDestroyed"       -> ConnectDestroyed(c)
               [] f = "removeConnectionInLoop" -> RemoveConnectionInLoop(c, rest)
                                                  /\ UNCHANGED state_
          /\ f # "removeConnectionInLoop" => quene' = rest
    /\ UNCHANGED <<started_, pool, nextConnId_, loop_, asked, startPc, backlog, clients, fds>>
-----------------------------------------------------------------------------
(* The clients, and the other threads of the process. *)

ClientConnects == /\ Running /\ listenning_ /\ clients < MaxClients
                  /\ clients' = clients + 1 /\ backlog' = backlog + 1
                  /\ UNCHANGED <<started_, pool, listenning_, conns, quene, startPc, fds, failed>>

\* A connection is aborted before accept gets it.
ClientLeaves == /\ Running /\ backlog > 0
                /\ backlog' = backlog - 1
                /\ UNCHANGED <<started_, pool, listenning_, conns, quene, startPc, clients, fds,
                               failed>>

OthersOpen == /\ Running /\ free > 0 /\ others < MaxOthers
              /\ others' = others + 1 /\ free' = free - 1
              /\ stolen' = (stolen \/ acceptPc # "idle")
              /\ UNCHANGED <<started_, pool, listenning_, conns, quene, startPc, backlog, clients,
                             idleFd_, acceptPc, failed>>

OthersClose == /\ Running /\ others > 0
               /\ others' = others - 1 /\ free' = free + 1
               /\ UNCHANGED <<started_, pool, listenning_, conns, quene, startPc, backlog, clients,
                              idleFd_, acceptPc, stolen, failed>>
-----------------------------------------------------------------------------
Next == \/ \E n \in Loops : SetThreadNum(n)
        \/ \E t \in Starters : Start(t) \/ StartThread(t) \/ StartListen(t)
        \/ Accept \/ Emfile \/ EmfileStep
        \/ \E c \in Conns : Shutdown(c) \/ HandleClose(c) \/ UserRemoves(c)
        \/ \E l \in Loops : RunFunctor(l)
        \/ ClientConnects \/ ClientLeaves \/ OthersOpen \/ OthersClose

Spec == Init /\ [][Next]_vars

\* A loop runs its functors after the handlers of every poll; the base loop
\* polls, where a backlog stays readable; accept does not fail for ever for
\* other reasons.
FairSpec == /\ Spec
            /\ \A l \in Loops : WF_vars(RunFunctor(l))
            /\ WF_vars(Accept \/ Emfile \/ EmfileStep)
-----------------------------------------------------------------------------
\* functors that hold connection c
Held(c) == UNION {{<<l, i>> : i \in {j \in DOMAIN quene[l] : quene[l][j].c = c}} : l \in Loops}

(* A TcpConnection outlives its use: until connectDestroyed has run in its *)
(* I/O loop the map or a functor holds it, so that the destructor does not *)
(* find a channel in the poller or a state_ that is not kDisconnected; one *)
(* that has closed is on its way out in exactly one functor, so that no    *)
(* second removal fails the assert(n == 1).  Asserts fail only when user   *)
(* code calls removeConnection itself: the assert(n == 1) when the         *)
(* connection also closes, and the isNoneEvent() of Channel::remove when   *)
(* it was shut down before connectDestroyed; whoever calls start() how     *)
(* often.                                                                  *)
OwnedUntilDestroyed ==
    /\ \/ failed = "none"
       \/ failed = "removeConnectionInLoop:n==1" /\ asked # {}
       \/ failed = "remove:isNoneEvent" /\ \E c \in asked : state_[c] = "kDisconnecting"
    /\ Running => \A c \in 1..(nextConnId_ - 1) :
         /\ state_[c] # "destroyed" => c \in connections_ \/ Held(c) # {}
         /\ state_[c] = "destroyed" => c \notin connections_ /\ (Held(c) = {} \/ c \in asked)
         /\ state_[c] = "kDisconnected" /\ c \notin asked => Cardinality(Held(c)) = 1

(* Connections are dealt out evenly: the loops of the pool differ by at    *)
(* most one in the connections they were given, and when the pool has      *)
(* loops the base loop gets none, also when start() is called in another   *)
(* thread than the base loop's.                                            *)
Given(l) == Cardinality({c \in 1..(nextConnId_ - 1) : loop_[c] = l})
DealtEvenly == IF numThreads_ = 0 THEN \A l \in 1..MaxThreads : Given(l) = 0
               ELSE /\ Given(0) = 0
                    /\ \A k, l \in 1..numThreads_ : Given(k) <= Given(l) + 1

(* The EMFILE branch gets idleFd_ back, so that it works the next time     *)
(* too: outside handleRead the Acceptor holds it, also when the client     *)
(* went away in between; unless another thread opened a descriptor while   *)
(* idleFd_ was closed.                                                     *)
IdleFdBack == acceptPc = "idle" => idleFd_ = "held" \/ stolen

(* Whoever connects is taken from the listen queue, by a connection or, when *)
(* descriptors ran out (they do: those of closed connections are not       *)
(* closed), by the EMFILE branch; the readable listening socket does not   *)
(* keep the base loop spinning.  With idleFd_ stolen it may.               *)
BacklogDrains == backlog > 0 ~> (backlog = 0 \/ stolen \/ ~Running)
=============================================================================
