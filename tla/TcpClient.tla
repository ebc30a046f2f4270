------------------------------ MODULE TcpClient ------------------------------
(***************************************************************************)
(* A TcpClient (net/TcpClient.cpp) with its Connector and its connection,  *)
(* which share the functors of one loop: who is called by whom after who   *)
(* was destructed.  The Connector's steps are those of module Connector;   *)
(* of the connection the part is kept that the client sees.                *)
(*                                                                         *)
(* connect(), disconnect(), stop() and the destructor ("not 100% safe, if  *)
(* we are in different thread") are called in the loop thread, connect()   *)
(* once.  A failing assert, or a call of something that was destructed,    *)
(* ends the program and is recorded in died (module TcpClientEnd).         *)
(***************************************************************************)
EXTENDS TcpClientEnd, Integers, Sequences, SequencesExt

CONSTANTS kInitRetryDelayMs, kMaxRetryDelayMs,
          MaxQueue   \* bound on the functors waiting when user code calls

\* of the Connector
VARIABLES connect_, state_, retryDelayMs_, channel_, sockets, revents, queue, timers, fresh,
          userPc, established, starts, twice, gaveUp, failed

VARIABLES
    client,        \* "alive" or "dead"
    connection_,   \* the client's TcpConnectionPtr is set
    conn,          \* the TcpConnection, see Connections
    userRef,       \* user code holds a TcpConnectionPtr
    removeTimer    \* the timer of the destructor that holds the Connector

connector == <<connect_, state_, retryDelayMs_, channel_, sockets, revents, queue, timers, fresh,
               userPc, established, starts, twice, gaveUp, failed>>
mine == <<client, connection_, conn, userRef, removeTimer, unsafe, shared, died>>
vars == <<connector, mine>>

C == INSTANCE Connector WITH LoopOps <- {"start", "stop"}, UserOps <- {}, MaxStarts <- 1

\* added: the channel is in the loop; close: what closeCallback_ is bound to
Connections == [state : {"none", "kConnected", "kDisconnecting", "kDisconnected"},
                added : BOOLEAN, close : {"client", "sockets"}]
Open == {"kConnected", "kDisconnecting"}

Init == /\ C!Init
        /\ client = "alive" /\ connection_ = FALSE /\ userRef = FALSE /\ removeTimer = FALSE
        /\ conn = [state |-> "none", added |-> FALSE, close |-> "client"]
        /\ unsafe = FALSE /\ shared = FALSE /\ died = "none"

Running == died = "none" /\ failed = "none"

\* functors that hold the connection, and those bound to the Connector's this
Holding == {"forceCloseInLoop", "connectDestroyed"}
RawPending == ToSet(queue) \cap C!Functors # {}

ConnectorAlive == client # "dead" \/ removeTimer \/ timers > 0

\* What destructors find when a step lets go of the last pointer: the
\* Connector's that there is no channel_, the connection's that it is closed
\* and its channel out of the loop.
Destructed ==
    IF ConnectorAlive /\ ~ConnectorAlive' /\ channel_' # "none" THEN "~Connector:channel_"
    ELSE IF conn'.state = "none" \/ connection_' \/ userRef' \/ ToSet(queue') \cap Holding # {}
    THEN "none"
    ELSE IF conn'.state # "kDisconnected" THEN "~TcpConnection:state_"
    ELSE IF conn'.added THEN "~Channel:addedToLoop_"
    ELSE "none"
-----------------------------------------------------------------------------
(* The connection. *)

\* TcpClient::removeConnection drops the pointer and does nothing else.
removeConnection(functors) == connection_' = FALSE /\ queue' = functors

\* sockets::removeConnection
removeConnectionLater(functors) == /\ queue' = Append(functors, "connectDestroyed")
                                   /\ UNCHANGED connection_

\* TcpConnection::handleClose up to the end of closeCallback_.  functors:
\* those behind the call
handleClose(functors) ==
    /\ conn' = [conn EXCEPT !.state = "kDisconnected"]
    /\ IF conn.close = "client" THEN removeConnection(functors) ELSE removeConnectionLater(functors)

Closed == IF conn.close = "client" /\ client = "dead" THEN "removeConnection-of-dead-client"
          ELSE IF conn.close = "client" /\ ~connection_ THEN "removeConnection:connection_"
          ELSE Destructed

\* The peer closes, or shutdown() has shut down the side that reads.
ConnectionEnds ==
    /\ Running /\ conn.state \in Open
    /\ handleClose(queue)
    /\ UNCHANGED <<connect_, state_, retryDelayMs_, channel_, sockets, revents, timers, fresh,
                   userPc, established, starts, twice, gaveUp, failed, client, userRef,
                   removeTimer, unsafe, shared>>
    /\ died' = Closed

RunConnectionFunctor ==
    /\ Running /\ queue # <<>> /\ revents = "none" /\ Head(queue) \in Holding
    /\ LET closes == Head(queue) = "forceCloseInLoop" /\ conn.state \in Open
       IN /\ IF closes
             THEN handleClose(Tail(queue))
             ELSE /\ conn' = IF Head(queue) = "connectDestroyed"
                             THEN [conn EXCEPT !.state = "kDisconnected", !.added = FALSE] ELSE conn
                  /\ queue' = Tail(queue)
                  /\ UNCHANGED connection_
          /\ UNCHANGED <<connect_, state_, retryDelayMs_, channel_, sockets, revents, timers, fresh,
                         userPc, established, starts, twice, gaveUp, failed, client, userRef,
                         removeTimer, unsafe, shared>>
          /\ died' = IF closes THEN Closed ELSE Destructed

GetRef == /\ Running /\ connection_ /\ client = "alive"
          /\ userRef' = TRUE
          /\ UNCHANGED <<connector, client, connection_, conn, removeTimer, unsafe, shared, died>>

DropRef == /\ Running /\ userRef
           /\ userRef' = FALSE
           /\ UNCHANGED <<connector, client, connection_, conn, removeTimer, unsafe, shared>>
           /\ died' = Destructed
-----------------------------------------------------------------------------
(* The Connector, in the loop. *)

\* newConnection
NewConnection == /\ conn' = [state |-> "kConnected", added |-> TRUE, close |-> "client"]
                 /\ connection_' = TRUE
                 /\ died' = IF client = "dead" THEN "newConnection-of-dead-client" ELSE died

ConnectorEvent ==
    /\ Running
    /\ C!HandleEvent
    /\ IF established' > established THEN NewConnection ELSE UNCHANGED <<conn, connection_, died>>
    /\ UNCHANGED <<client, userRef, removeTimer, unsafe, shared>>

ConnectorFunctor ==
    /\ Running /\ queue # <<>> /\ Head(queue) \in C!Functors
    /\ C!RunFunctor
    /\ UNCHANGED <<client, connection_, conn, userRef, removeTimer, unsafe, shared>>
    /\ died' = IF ConnectorAlive THEN Destructed ELSE "functor-of-dead-connector"

ConnectorTimer == /\ Running
                  /\ C!TimerFires
                  /\ UNCHANGED <<client, connection_, conn, userRef, removeTimer, unsafe, shared>>
                  /\ died' = Destructed

ConnectorPoll(outcome) == Running /\ C!Poll(outcome) /\ UNCHANGED mine

MRemoveConnector == /\ Running /\ removeTimer /\ ~RawPending
                    /\ UNCHANGED vars

\* The timer that the destructor set fires after a second.  That is taken to
\* be longer than the loop needs to come to stopInLoop and then resetChannel.
RemoveConnector == /\ Running /\ removeTimer /\ ~RawPending
                   /\ removeTimer' = FALSE
                   /\ UNCHANGED <<connector, client, connection_, conn, userRef, unsafe, shared>>
                   /\ died' = Destructed
-----------------------------------------------------------------------------
(* The calls of the client. *)

Connect == /\ Running /\ client = "alive"
           /\ C!LoopCall("start")
           /\ UNCHANGED mine

Stop == /\ Running /\ client = "alive"
        /\ C!LoopCall("stop")
        /\ UNCHANGED mine

Disconnect == /\ Running /\ client = "alive" /\ connection_ /\ conn.state = "kConnected"
              /\ conn' = [conn EXCEPT !.state = "kDisconnecting"]
              /\ UNCHANGED <<connector, client, connection_, userRef, removeTimer, unsafe, shared,
                             died>>

\* unique: the client's is the only pointer to the connection
Unique == ~userRef /\ ToSet(queue) \cap Holding = {}
ForceClosed(c) == [c EXCEPT !.state = IF @ \in Open THEN "kDisconnecting" ELSE @]

\* The destructor: with a connection it hands it over to
\* sockets::removeConnection and, if nobody else has it, closes it; without
\* one it stops the Connector and holds it for a second.
MCloseConnection ==
    /\ conn' = IF Unique THEN ForceClosed(conn) ELSE conn
    /\ queue' = IF Unique /\ conn.state \in Open THEN Append(queue, "forceCloseInLoop") ELSE queue
    /\ UNCHANGED <<connect_, removeTimer>>

CloseConnection ==
    /\ conn' = [(IF Unique THEN ForceClosed(conn) ELSE conn) EXCEPT !.close = "sockets"]
    /\ queue' = IF Unique /\ conn.state \in Open THEN Append(queue, "forceCloseInLoop") ELSE queue
    /\ UNCHANGED <<connect_, removeTimer>>

StopConnector == /\ connect_' = FALSE /\ queue' = Append(queue, "stopInLoop")
                 /\ removeTimer' = TRUE
                 /\ UNCHANGED conn

Destroy ==
    /\ Running /\ client = "alive"
    /\ IF connection_ THEN CloseConnection ELSE StopConnector
    /\ client' = "dead" /\ connection_' = FALSE
    /\ unsafe' = (connection_ /\ RawPending) /\ shared' = (connection_ /\ ~Unique)
    /\ UNCHANGED <<state_, retryDelayMs_, channel_, sockets, revents, timers, fresh, userPc,
                   established, starts, twice, gaveUp, failed, userRef>>
    /\ died' = Destructed
-----------------------------------------------------------------------------
LoopStep == ConnectorEvent \/ ConnectorFunctor \/ RunConnectionFunctor

Next == \/ LoopStep \/ ConnectorTimer \/ RemoveConnector
        \/ \E outcome \in C!Outcomes : ConnectorPoll(outcome)
        \/ ConnectionEnds \/ GetRef \/ DropRef
        \/ Connect \/ Stop \/ Disconnect \/ Destroy

Spec == Init /\ [][Next]_vars

\* The loop keeps running: functors run, timers fire and events are handled.
\* Nothing is assumed of the network or of the user.
FairSpec == Spec /\ WF_vars(LoopStep) /\ WF_vars(ConnectorTimer) /\ WF_vars(RemoveConnector)
-----------------------------------------------------------------------------
(* What a client that was destructed leaves behind goes away by itself:    *)
(* the connection, unless user code holds it too, is closed and out of the *)
(* loop; the Connector has no attempt, socket or timer left and is gone.   *)
(* Not so in the cases that NothingCallsTheDead excepts, nor when the      *)
(* connection had closed before: see ChannelRemovedFirst.                  *)
DestructedLeavesNothing ==
    client = "dead" /\ Running
      ~> \/ /\ ~ConnectorAlive /\ channel_ = "none" /\ sockets = 0
            /\ userRef \/ conn.state = "none" \/ (conn.state = "kDisconnected" /\ ~conn.added)
         \/ unsafe \/ shared
         \/ died = "~Channel:addedToLoop_" /\ conn.close = "client"

(* The assert in ~Channel: the channel of a connection was removed from    *)
(* the loop before the last pointer to the connection goes.                *)
ChannelRemovedFirst == died # "~Channel:addedToLoop_"
=============================================================================
