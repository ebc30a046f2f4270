---------------------------- MODULE TcpConnection ----------------------------
(***************************************************************************)
(* One connection of a TcpServer from newConnection to connectDestroyed:   *)
(* net/TcpConnection.cpp with its Channel (net/Channel.cpp), the part of   *)
(* the epoll set that is about this channel (net/Epoller.cpp), and the     *)
(* server's side of opening and removing it (net/TcpServer.cpp).           *)
(*                                                                         *)
(* Three threads take part.  The base loop accepts the connection and      *)
(* takes it out of the server's map.  The I/O loop handles its events and  *)
(* the functors queued for it.  A user thread that holds a TcpConnectionPtr*)
(* calls its methods.  An assert of the code that does not hold stops the  *)
(* program and is recorded in failed.                                      *)
(***************************************************************************)
EXTENDS Naturals, Sequences, FiniteSets

CONSTANTS LoopOps,    \* what user code in the I/O loop calls
          UserOps,    \* what the user thread calls
          MaxOut,     \* bound on the bytes waiting in outputBuffer_
          MaxQueue,   \* bound on the functors waiting when user code adds one
          MaxDowns    \* bound on the closes after which user code still calls

\* send: send(string) and send(Buffer*); sendBytes: send(const void*, int)
Ops == {"send", "sendBytes", "shutdown", "forceClose", "startRead", "stopRead"}
ASSUME ConstantsAssumption == /\ LoopOps \subseteq Ops /\ UserOps \subseteq Ops
                              /\ MaxOut \in Nat \ {0} /\ MaxQueue \in Nat /\ MaxDowns \in Nat

VARIABLES
    state_, reading_,
    channel_,       \* [events, index, added, mapped], see Channel
    out,            \* outputBuffer_.readableBytes()
    sock,           \* the kernel's side of the socket, see Socket
    revents,        \* events of the channel that are still to be handled
    ioQueue,        \* the I/O loop's pendingFunctors_ that are about this connection
    baseQueue,      \* removeConnectionInLoop functors queued in the base loop
    connections_,   \* the server's map holds the connection
    userRef,        \* the user thread holds a TcpConnectionPtr
    userPc, userOp, \* its place in a call
    downs,          \* history: calls of connectionCallback_ for a closed connection
    racy,           \* history: a call was made that the connection is not safe against
    unqueued,       \* history: sendBytes was called outside the loop
    failed          \* the assert that did not hold

conn == <<state_, reading_, channel_, out>>
user == <<userRef, userPc, userOp, racy, unqueued>>
vars == <<conn, sock, revents, ioQueue, baseQueue, connections_, user, downs, failed>>

States == {"kConnecting", "kConnected", "kDisconnecting", "kDisconnected"}
Open == {"kConnected", "kDisconnecting"}

\* added: addedToLoop_; mapped: the Epoller's channels_ holds it.  The kernel
\* watches the descriptor, for events, exactly when index is KAdded.
Channel == [events : SUBSET {"read", "write"}, index : {"KNew", "KAdded", "KDeleted"},
            added : BOOLEAN, mapped : BOOLEAN]

\* data: unread input; eof: the peer has closed; shut: read side shut down
\* here; reset: the peer has reset; err: with an error not yet read.
Socket == [data : BOOLEAN, eof : BOOLEAN, shut : BOOLEAN, reset : BOOLEAN, err : BOOLEAN]

\* functors bound to a TcpConnectionPtr, and to this
StrongFunctors == {"connectEstablished", "forceCloseInLoop", "connectDestroyed"}
RawFunctors == {"sendInLoop", "shutdownInLoop", "startReadInLoop", "stopReadInLoop"}

Init == /\ state_ = "none" /\ reading_ = TRUE
        /\ channel_ = [events |-> {}, index |-> "KNew", added |-> FALSE, mapped |-> FALSE]
        /\ out = 0
        /\ sock = [data |-> FALSE, eof |-> FALSE, shut |-> FALSE, reset |-> FALSE, err |-> FALSE]
        /\ revents = {} /\ ioQueue = <<>> /\ baseQueue = 0
        /\ connections_ = FALSE
        /\ userRef = FALSE /\ userPc = "idle" /\ userOp = "none"
        /\ downs = 0 /\ racy = FALSE /\ unqueued = FALSE
        /\ failed = "none"

Running == failed = "none"

\* A TcpConnectionPtr exists: in the map, in a functor, in the user thread or
\* in handleEvent, which locks the tie.
Alive == \/ connections_ \/ baseQueue > 0 \/ userRef \/ revents # {}
         \/ \E i \in DOMAIN ioQueue : ioQueue[i] \in StrongFunctors
-----------------------------------------------------------------------------
(* Channel and Epoller. *)

MUpdateChannel(c) == IF c.index = "KAdded"
                     THEN c
                     ELSE [c EXCEPT !.index = "KAdded", !.mapped = TRUE]

\* Epoller::updateChannel
UpdateChannel(c) == IF c.index = "KAdded"
                    THEN IF c.events = {} THEN [c EXCEPT !.index = "KDeleted"] ELSE c
                    ELSE [c EXCEPT !.index = "KAdded", !.mapped = TRUE]

\* enableReading and the like, then Channel::update
SetEvents(c, ev) == UpdateChannel([c EXCEPT !.events = ev, !.added = TRUE])

\* Channel::remove and Epoller::removeChannel; Removable is what they assert
Removable(c) == c.events = {} /\ c.mapped
Removed(c) == [c EXCEPT !.added = FALSE, !.mapped = FALSE, !.index = "KNew"]

isWriting == "write" \in channel_.events
isReading == "read" \in channel_.events
-----------------------------------------------------------------------------
(* The methods of TcpConnection that run in the I/O loop, as what they     *)
(* make of conn, sock, baseQueue, downs and failed.                        *)

\* The base loop is another thread: closeCallback_ queues removeConnectionInLoop.
HandleClose ==
    /\ failed' = IF state_ \in Open THEN failed ELSE "handleClose:state_"
    /\ state_' = "kDisconnected"
    /\ channel_' = SetEvents(channel_, {})
    /\ downs' = downs + 1
    /\ baseQueue' = baseQueue + 1
    /\ UNCHANGED <<reading_, out, sock>>

UnchangedIo == UNCHANGED <<conn, sock, baseQueue, downs, failed>>

MForceCloseInLoop == HandleClose

ForceCloseInLoop == IF state_ \in Open THEN HandleClose ELSE UnchangedIo

\* what sendInLoop tests before it appends; a write to a reset connection fails
Sendable == state_ # "kDisconnected" /\ ~isWriting /\ out = 0 /\ ~sock.reset

MSendInLoop ==
    /\ out' = IF Sendable THEN MaxOut ELSE out
    /\ UNCHANGED <<state_, reading_, channel_, sock, baseQueue, downs, failed>>

\* sendInLoop: whatever the socket takes, all of the message is appended and
\* watched for; a message that finds output waiting is dropped.
SendInLoop ==
    /\ IF Sendable
       THEN /\ out' = MaxOut
            /\ channel_' = SetEvents(channel_, channel_.events \cup {"write"})
       ELSE UNCHANGED <<out, channel_>>
    /\ UNCHANGED <<state_, reading_, sock, baseQueue, downs, failed>>

MShutdownInLoop == sock' = [sock EXCEPT !.shut = TRUE]

\* sockets::shutdownWrite shuts down the side that reads.
ShutdownInLoop == sock' = [sock EXCEPT !.shut = @ \/ ~isWriting]

StartReadInLoop ==
    /\ reading_' = TRUE
    /\ channel_' = IF ~reading_ \/ ~isReading
                   THEN SetEvents(channel_, channel_.events \cup {"read"}) ELSE channel_
    /\ UNCHANGED <<state_, out, sock, baseQueue, downs, failed>>

StopReadInLoop ==
    /\ reading_' = FALSE
    /\ channel_' = IF reading_ \/ isReading
                   THEN SetEvents(channel_, channel_.events \ {"read"}) ELSE channel_
    /\ UNCHANGED <<state_, out, sock, baseQueue, downs, failed>>

ConnectEstablished ==
    /\ failed' = IF state_ = "kConnecting" THEN failed ELSE "connectEstablished:state_"
    /\ state_' = "kConnected"
    /\ channel_' = SetEvents(channel_, channel_.events \cup {"read"})
    /\ UNCHANGED <<reading_, out, sock, baseQueue, downs>>

ConnectDestroyed ==
    LET c == IF state_ = "kConnected" THEN SetEvents(channel_, {}) ELSE channel_
    IN /\ state_' = IF state_ = "kConnected" THEN "kDisconnected" ELSE state_
       /\ downs' = IF state_ = "kConnected" THEN downs + 1 ELSE downs
       /\ failed' = IF Removable(c) THEN failed ELSE "remove:isNoneEvent"
       /\ channel_' = Removed(c)
       /\ UNCHANGED <<reading_, out, sock, baseQueue>>

-----------------------------------------------------------------------------
(* The base loop. *)

NewConnection == /\ Running
                 /\ state_ = "none"
                 /\ state_' = "kConnecting"
                 /\ connections_' = TRUE
                 /\ ioQueue' = Append(ioQueue, "connectEstablished")
                 /\ UNCHANGED <<reading_, channel_, out, sock, revents, baseQueue, user,
                                downs, failed>>

MRemoveConnectionInLoop == /\ Running
                           /\ baseQueue > 0
                           /\ baseQueue' = baseQueue - 1
                           /\ connections_' = FALSE
                           /\ UNCHANGED <<conn, sock, revents, ioQueue, user, downs, failed>>

RemoveConnectionInLoop ==
    /\ Running
    /\ baseQueue > 0
    /\ baseQueue' = baseQueue - 1
    /\ failed' = IF connections_ THEN failed ELSE "removeConnectionInLoop:n==1"
    /\ connections_' = FALSE
    /\ ioQueue' = Append(ioQueue, "connectDestroyed")
    /\ UNCHANGED <<conn, sock, revents, user, downs>>
-----------------------------------------------------------------------------
(* The I/O loop handles an event of the channel: handleEventWithGuard      *)
(* looks at HUP, ERR, IN and OUT in this order, and user code may run in   *)
(* the callbacks between.                                                  *)

Readable == sock.data \/ sock.eof \/ sock.shut \/ sock.reset

\* epoll reports HUP and ERR whatever the events are.
Reported(writable) == {e \in {"HUP", "ERR", "IN", "OUT"} :
                         CASE e = "HUP" -> sock.reset
                           [] e = "ERR" -> sock.err
                           [] e = "IN"  -> isReading /\ Readable
                           [] e = "OUT" -> isWriting /\ writable}

Poll(writable) == /\ Running
                  /\ revents = {}
                  /\ channel_.index = "KAdded"
                  /\ Reported(writable) # {}
                  /\ revents' = Reported(writable)
                  /\ UNCHANGED <<conn, sock, ioQueue, baseQueue, connections_, user, downs, failed>>

HandleHup == /\ Running
             /\ "HUP" \in revents
             /\ revents' = revents \ {"HUP"}
             /\ IF "IN" \in revents THEN UnchangedIo ELSE HandleClose
             /\ UNCHANGED <<ioQueue, connections_, user>>

\* handleError reads, and so clears, the socket's error.
HandleError == /\ Running
               /\ "ERR" \in revents /\ "HUP" \notin revents
               /\ revents' = revents \ {"ERR"}
               /\ sock' = [sock EXCEPT !.err = FALSE]
               /\ UNCHANGED <<conn, ioQueue, baseQueue, connections_, user, downs, failed>>

\* handleRead: messageCallback_ for data, handleClose at the end of the
\* input, handleError for an error.
HandleRead == /\ Running
              /\ "IN" \in revents /\ revents \cap {"HUP", "ERR"} = {}
              /\ revents' = revents \ {"IN"}
              /\ IF sock.err \/ sock.data
                 THEN /\ sock' = IF sock.err THEN [sock EXCEPT !.err = FALSE]
                                             ELSE [sock EXCEPT !.data = FALSE]
                      /\ UNCHANGED <<conn, baseQueue, downs, failed>>
                 ELSE HandleClose
              /\ UNCHANGED <<ioQueue, connections_, user>>

\* handleWrite: the socket takes some of the output, all of it, or none.
HandleWrite ==
    /\ Running
    /\ revents = {"OUT"}
    /\ revents' = {}
    /\ \/ ~isWriting /\ UnchangedIo
       \/ isWriting /\ UnchangedIo
       \/ /\ isWriting
          /\ \E left \in 0..(out - 1) :
               /\ out' = left
               /\ channel_' = IF left = 0 THEN SetEvents(channel_, channel_.events \ {"write"})
                                          ELSE channel_
               /\ sock' = IF left = 0 /\ state_ = "kDisconnecting"
                          THEN [sock EXCEPT !.shut = TRUE] ELSE sock
          /\ UNCHANGED <<state_, reading_, baseQueue, downs, failed>>
    /\ UNCHANGED <<ioQueue, connections_, user>>

HandleEvent == HandleHup \/ HandleError \/ HandleRead \/ HandleWrite
-----------------------------------------------------------------------------
(* The I/O loop runs the functors queued for the connection. *)

RunFunctor(f) ==
    /\ Running
    /\ revents = {}
    /\ ioQueue # <<>> /\ f = Head(ioQueue)
    /\ ioQueue' = Tail(ioQueue)
    /\ IF f \in RawFunctors /\ ~Alive
       THEN failed' = "use-after-destruction" /\ UNCHANGED <<conn, sock, baseQueue, downs>>
       ELSE CASE f = "connectEstablished" -> ConnectEstablished
              [] f = "connectDestroyed"   -> ConnectDestroyed
              [] f = "forceCloseInLoop"   -> ForceCloseInLoop
              [] f = "sendInLoop"         -> SendInLoop
              [] f = "startReadInLoop"    -> StartReadInLoop
              [] f = "stopReadInLoop"     -> StopReadInLoop
              [] f = "shutdownInLoop"     -> ShutdownInLoop /\ UNCHANGED <<conn, baseQueue, downs,
                                                                           failed>>
    /\ UNCHANGED <<revents, connections_, user>>

(* User code in the I/O loop, in a callback of this connection or of       *)
(* another, which holds a TcpConnectionPtr: runInLoop calls at once.       *)
(* sendBytes does not test state_ first.                                   *)
LoopCall(op) ==
    /\ Running
    /\ connections_ \/ userRef
    /\ state_ # "kConnecting"
    /\ Len(ioQueue) < MaxQueue /\ downs < MaxDowns
    /\ racy' = (racy \/ op \in {"startRead", "stopRead"})
    /\ CASE op = "send" -> (IF state_ = "kConnected" THEN SendInLoop ELSE UnchangedIo)
                           /\ UNCHANGED ioQueue
         [] op = "sendBytes" -> SendInLoop /\ UNCHANGED ioQueue
         [] op = "shutdown" -> /\ state_ = "kConnected"
                               /\ state_' = "kDisconnecting"
                               /\ ShutdownInLoop
                               /\ UNCHANGED <<reading_, channel_, out, ioQueue, baseQueue, downs,
                                              failed>>
         [] op = "forceClose" -> /\ state_ \in Open
                                 /\ state_' = "kDisconnecting"
                                 /\ ioQueue' = Append(ioQueue, "forceCloseInLoop")
                                 /\ UNCHANGED <<reading_, channel_, out, sock, baseQueue, downs,
                                                failed>>
         [] op = "startRead" -> StartReadInLoop /\ UNCHANGED ioQueue
         [] op = "stopRead" -> StopReadInLoop /\ UNCHANGED ioQueue
    /\ UNCHANGED <<revents, connections_, userRef, userPc, userOp, unqueued>>
-----------------------------------------------------------------------------
(* The user thread.  It gets a TcpConnectionPtr when connectionCallback_   *)
(* reports the connection up, and may let go of it between calls.  send,   *)
(* shutdown and forceClose test state_ in one step and act on it in later  *)
(* ones.  sendBytes queues nothing: sendInLoop runs in the user thread,    *)
(* beside the loop's handlers, for assertInLoopThread only logs.           *)

GetRef == /\ Running
          /\ state_ = "kConnected" /\ ~userRef /\ connections_
          /\ userRef' = TRUE
          /\ UNCHANGED <<conn, sock, revents, ioQueue, baseQueue, connections_, userPc,
                         userOp, racy, unqueued, downs, failed>>

DropRef == /\ Running
           /\ userRef /\ userPc = "idle"
           /\ userRef' = FALSE
           /\ UNCHANGED <<conn, sock, revents, ioQueue, baseQueue, connections_, userPc,
                          userOp, racy, unqueued, downs, failed>>

UserCall(op) == /\ Running
                /\ userRef /\ userPc = "idle"
                /\ Len(ioQueue) < MaxQueue /\ downs < MaxDowns
                /\ op \in {"send", "shutdown"} => state_ = "kConnected"
                /\ op = "forceClose" => state_ \in Open
                /\ op = "sendBytes" => Sendable
                /\ userOp' = op
                /\ racy' = (racy \/ op # "send")
                /\ unqueued' = (unqueued \/ op = "sendBytes")
                /\ userPc' = CASE op \in {"shutdown", "forceClose"} -> "setState"
                               [] op = "sendBytes" -> "append"
                               [] OTHER -> "queue"
                /\ UNCHANGED <<conn, sock, revents, ioQueue, baseQueue, connections_, userRef,
                               downs, failed>>

UserSetState == /\ Running
                /\ userPc = "setState"
                /\ state_' = "kDisconnecting"
                /\ userPc' = "queue"
                /\ UNCHANGED <<reading_, channel_, out, sock, revents, ioQueue, baseQueue,
                               connections_, userRef, userOp, racy, unqueued, downs, failed>>

UserQueue == /\ Running
             /\ userPc = "queue"
             /\ ioQueue' = Append(ioQueue, [send |-> "sendInLoop", shutdown |-> "shutdownInLoop",
                                            forceClose |-> "forceCloseInLoop",
                                            startRead |-> "startReadInLoop",
                                            stopRead |-> "stopReadInLoop"][userOp])
             /\ userPc' = "idle" /\ userOp' = "none"
             /\ UNCHANGED <<conn, sock, revents, baseQueue, connections_, userRef, racy, unqueued,
                            downs, failed>>

\* sendInLoop in the user thread, its append: a handler that works on
\* outputBuffer_ at the same moment may undo it.
UserAppend == /\ Running
              /\ userPc = "append"
              /\ out' \in {out, MaxOut}
              /\ userPc' = "enable"
              /\ UNCHANGED <<state_, reading_, channel_, sock, revents, ioQueue, baseQueue,
                             connections_, userRef, userOp, racy, unqueued, downs, failed>>

\* Its enableWriting: events_ may get the bit in a value that the loop has
\* changed since it was read, or the loop may overwrite it.
UserEnable ==
    /\ Running
    /\ userPc = "enable"
    /\ \/ isWriting /\ UNCHANGED channel_
       \/ /\ ~isWriting
          /\ \E ev \in {channel_.events, {"write"}, {"read", "write"}} :
               channel_' = SetEvents(channel_, ev)
    /\ userPc' = "idle" /\ userOp' = "none"
    /\ UNCHANGED <<state_, reading_, out, sock, revents, ioQueue, baseQueue, connections_,
                   userRef, racy, unqueued, downs, failed>>
-----------------------------------------------------------------------------
(* The peer. *)

Peer(s) == /\ Running
           /\ state_ # "none" /\ ~sock.reset
           /\ sock' = s
           /\ UNCHANGED <<conn, revents, ioQueue, baseQueue, connections_, user, downs, failed>>

PeerSends == ~sock.eof /\ ~sock.data /\ Peer([sock EXCEPT !.data = TRUE])
PeerCloses == ~sock.eof /\ Peer([sock EXCEPT !.eof = TRUE])
PeerResets == Peer([sock EXCEPT !.reset = TRUE, !.err = TRUE, !.data = FALSE])
-----------------------------------------------------------------------------
IoStep == \/ HandleEvent
          \/ \E f \in StrongFunctors \cup RawFunctors : RunFunctor(f)

Next == \/ NewConnection \/ RemoveConnectionInLoop
        \/ IoStep
        \/ \E writable \in BOOLEAN : Poll(writable)
        \/ \E op \in LoopOps : LoopCall(op)
        \/ GetRef \/ DropRef \/ UserSetState \/ UserQueue \/ UserAppend \/ UserEnable
        \/ \E op \in UserOps : UserCall(op)
        \/ PeerSends \/ PeerCloses \/ PeerResets

Spec == Init /\ [][Next]_vars

\* Both loops keep running: they handle events, run functors and poll again.
FairSpec == /\ Spec
            /\ WF_vars(IoStep)
            /\ WF_vars(\E writable \in BOOLEAN : Poll(writable))
            /\ WF_vars(RemoveConnectionInLoop)
-----------------------------------------------------------------------------
TypeOK == /\ state_ \in States \cup {"none"}
          /\ reading_ \in BOOLEAN
          /\ channel_ \in Channel /\ (channel_.mapped <=> channel_.index # "KNew")
          /\ out \in 0..MaxOut
          /\ sock \in Socket
          /\ revents \in SUBSET {"HUP", "ERR", "IN", "OUT"}
          /\ ioQueue \in Seq(StrongFunctors \cup RawFunctors)
          /\ baseQueue \in Nat
          /\ connections_ \in BOOLEAN
          /\ userRef \in BOOLEAN
          /\ userPc \in {"idle", "setState", "queue", "append", "enable"}
          /\ userOp \in Ops \cup {"none"}
          /\ downs \in Nat
          /\ racy \in BOOLEAN /\ unqueued \in BOOLEAN

UseAfterDestruction == failed = "use-after-destruction"

(* No assert of the connection, its channel, the poller or the server      *)
(* fails, whatever the order of the peer's actions, of the removal and of  *)
(* the calls, as long as the user keeps, in other threads, to the sends    *)
(* that test state_ and queue, those of a string and of a Buffer, and in   *)
(* the loop to any send, shutdown and forceClose.                          *)
AssertsHold == racy \/ failed = "none" \/ UseAfterDestruction

(* Then, too, when the last TcpConnectionPtr goes, the destructors of      *)
(* TcpConnection and Channel find what they assert: the state is           *)
(* kDisconnected, and neither the loop nor the epoll set refers to the     *)
(* channel any more.                                                       *)
DestroyedClean ==
    state_ # "none" /\ ~Alive /\ failed = "none"
        => racy \/ /\ state_ = "kDisconnected"
                   /\ ~channel_.added /\ ~channel_.mapped /\ channel_.index = "KNew"

(* Then, too, the user hears once that the connection is down, and the     *)
(* server is asked once to remove it.                                      *)
DownOnce == racy \/ (downs <= 1 /\ baseQueue <= downs)

(* Output that waits is watched: until it is closed, an open connection    *)
(* with bytes in outputBuffer_ is registered for writing, so that          *)
(* handleWrite will come, and one without is not, so that the loop is not  *)
(* woken for nothing.  So it is whatever the user calls in any thread,     *)
(* except send(const void*, int) outside the loop.                         *)
OutputWatched ==
    state_ \in Open /\ downs = 0 /\ ~unqueued
        => (out > 0 <=> isWriting /\ channel_.index = "KAdded")

(* shutdown waits for the output: an open connection is not shut down      *)
(* under bytes that a send before the shutdown left in outputBuffer_,      *)
(* unless send(const void*, int) was called outside the loop: that appends *)
(* before it enables writing, and shutdownInLoop may come between.         *)
ShutdownAfterOutput ==
    [][sock'.shut /\ ~sock.shut /\ downs = 0 /\ ~unqueued => out' = 0]_vars

(* A connection that its peer closes is closed here, taken out of the      *)
(* server's map and out of the poller.                                     *)
PeerCloseRemoves ==
    sock.eof ~> \/ state_ = "kDisconnected" /\ ~connections_ /\ ~channel_.mapped
                \/ racy \/ failed # "none"

(* The assert at the head of handleClose.                                  *)
CloseAssertHolds == failed # "handleClose:state_"

(* The assert in removeConnectionInLoop that the map held the connection.  *)
RemoveAssertHolds == failed # "removeConnectionInLoop:n==1"
=============================================================================
