------------------------------ MODULE Connector ------------------------------
(***************************************************************************)
(* net/Connector.cpp: one attempt after another to connect to a server,    *)
(* driven by the loop (events of the channel, functors, retry timers) and  *)
(* by the calls start and stop, "can be called in any thread", and         *)
(* restart, "must be called in loop thread".                               *)
(*                                                                         *)
(* An assert that does not hold stops the program and is recorded in       *)
(* failed.  In a step connect_ is read once: connect() and retry() of one  *)
(* startInLoop see the same value.                                         *)
(***************************************************************************)
EXTENDS Integers, Sequences

CONSTANTS LoopOps,            \* what user code in the loop calls
          UserOps,            \* what a user thread calls
          kInitRetryDelayMs, kMaxRetryDelayMs,
          MaxStarts,          \* bound on the calls of start and restart
          MaxQueue            \* bound on the functors waiting when user code calls

Ops == {"start", "stop", "restart"}
ASSUME ConnectorAssumption ==
    /\ LoopOps \subseteq Ops /\ UserOps \subseteq Ops \ {"restart"}
    /\ kInitRetryDelayMs \in Nat \ {0} /\ kMaxRetryDelayMs \in Nat
    /\ kInitRetryDelayMs <= kMaxRetryDelayMs
    /\ MaxStarts \in Nat /\ MaxQueue \in Nat

VARIABLES
    connect_, state_, retryDelayMs_,
    channel_,       \* "none", "added" to the loop, or "removed" and to be reset
    sockets,        \* sockets that connect() opened and nobody closed or took over
    revents,        \* what poll found of the socket: "none" or an outcome
    queue,          \* the loop's pendingFunctors_ that are about this connector
    timers,         \* retry timers that have not fired
    fresh,          \* those of them that were set since the channel was removed
    userPc,         \* what the user thread is about to queue
    established,    \* calls of newConnectionCallback_
    starts,         \* history: calls of start and restart
    twice,          \* history: such a call came without a stop before it
    gaveUp,         \* history: the last connect() ended in an error not retried
    failed          \* the assert that did not hold

attempt == <<state_, retryDelayMs_, channel_, sockets, gaveUp, failed>>
vars == <<connect_, attempt, revents, queue, timers, fresh, userPc, established, starts, twice>>

Outcomes == {"connected", "self", "error"}
Functors == {"startInLoop", "stopInLoop", "resetChannel"}

Init == /\ connect_ = FALSE /\ state_ = "kDisconnected"
        /\ retryDelayMs_ = kInitRetryDelayMs
        /\ channel_ = "none" /\ sockets = 0 /\ revents = "none"
        /\ queue = <<>> /\ timers = 0 /\ fresh = 0 /\ userPc = "none"
        /\ established = 0 /\ starts = 0 /\ twice = FALSE /\ gaveUp = FALSE
        /\ failed = "none"

Running == failed = "none"
-----------------------------------------------------------------------------
(* The methods, given the values that connect_, retryDelayMs_, state_,     *)
(* timers and queue have when they are called.                             *)

BackedOff(delay) == IF delay * 2 < kMaxRetryDelayMs THEN delay * 2 ELSE kMaxRetryDelayMs

MretryNoTimer(connectNow, delay, pending) == /\ state_' = "kDisconnected"
                                             /\ timers' = pending
                                             /\ retryDelayMs_' = delay

MretryKeepsState(connectNow, delay, pending) ==
    /\ state_' = state_
    /\ timers' = IF connectNow THEN pending + 1 ELSE pending
    /\ retryDelayMs_' = IF connectNow THEN BackedOff(delay) ELSE delay

\* retry, after it closed the socket
retry(connectNow, delay, pending) ==
    /\ state_' = "kDisconnected"
    /\ timers' = IF connectNow THEN pending + 1 ELSE pending
    /\ retryDelayMs_' = IF connectNow THEN BackedOff(delay) ELSE delay

connecting == /\ state_' = "kConnecting"
              /\ IF channel_ = "none"
                 THEN channel_' = "added" /\ sockets' = sockets + 1 /\ UNCHANGED failed
                 ELSE failed' = "connecting:!channel_" /\ UNCHANGED <<channel_, sockets>>

\* connect: the connection is in progress, it is refused at once and the
\* socket closed, or there is an error for which the socket is closed and
\* nothing else done.
connect(state, delay, pending) ==
    \/ connecting /\ gaveUp' = FALSE /\ timers' = pending /\ retryDelayMs_' = delay
    \/ retry(TRUE, delay, pending) /\ gaveUp' = FALSE /\ UNCHANGED <<channel_, sockets, failed>>
    \/ /\ gaveUp' = TRUE /\ timers' = pending /\ retryDelayMs_' = delay /\ state_' = state
       /\ UNCHANGED <<channel_, sockets, failed>>

startInLoop(connectNow, pending) ==
    IF connectNow THEN connect(state_, retryDelayMs_, pending)
                  ELSE timers' = pending /\ UNCHANGED attempt

removeAndResetChannel(functors) == /\ channel_' = "removed"
                                   /\ queue' = Append(functors, "resetChannel")

MstopInLoopIdle(functors) == queue' = functors /\ timers' = timers /\ UNCHANGED attempt

MstopInLoopLeaks(functors) ==
    IF state_ = "kConnecting"
    THEN /\ removeAndResetChannel(functors)
         /\ retry(connect_, retryDelayMs_, timers)
         /\ UNCHANGED <<sockets, gaveUp, failed>>
    ELSE queue' = functors /\ timers' = timers /\ UNCHANGED attempt

stopInLoop(functors) ==
    IF state_ = "kConnecting"
    THEN /\ removeAndResetChannel(functors)
         /\ retry(connect_, retryDelayMs_, timers)
         /\ sockets' = sockets - 1
         /\ UNCHANGED <<gaveUp, failed>>
    ELSE queue' = functors /\ timers' = timers /\ UNCHANGED attempt

resetChannel == /\ channel_' = "none"
                /\ failed' = IF channel_ = "added" THEN "~Channel:addedToLoop_" ELSE failed
                /\ UNCHANGED <<state_, retryDelayMs_, sockets, gaveUp, timers>>
-----------------------------------------------------------------------------
(* The loop. *)

\* Functors run when the channels that poll found have been handled.
RunFunctor ==
    /\ Running /\ queue # <<>> /\ revents = "none"
    /\ CASE Head(queue) = "startInLoop" -> startInLoop(connect_, timers) /\ queue' = Tail(queue)
         [] Head(queue) = "stopInLoop" -> stopInLoop(Tail(queue))
         [] Head(queue) = "resetChannel" -> resetChannel /\ queue' = Tail(queue)
    /\ fresh' = CASE Head(queue) = "stopInLoop" -> fresh + (timers' - timers)
                   [] Head(queue) = "resetChannel" -> 0
                   [] OTHER -> fresh
    /\ UNCHANGED <<connect_, revents, userPc, established, starts, twice>>

\* A retry timer calls startInLoop.  Its delay, kInitRetryDelayMs or more, is
\* taken to be longer than the loop needs to come to the functors that are
\* queued when it is set: resetChannel runs first.
TimerFires == /\ Running /\ timers > fresh
              /\ startInLoop(connect_, timers - 1)
              /\ UNCHANGED <<connect_, revents, queue, fresh, userPc, established, starts, twice>>

Poll(outcome) == /\ Running /\ channel_ = "added" /\ revents = "none"
                 /\ revents' = outcome
                 /\ UNCHANGED <<connect_, attempt, queue, timers, fresh, userPc, established,
                                starts, twice>>

\* handleError then handleWrite for an error, handleWrite for the others.
HandleEvent ==
    /\ Running /\ revents # "none"
    /\ revents' = "none"
    /\ IF state_ = "kConnecting"
       THEN /\ removeAndResetChannel(queue)
            /\ sockets' = sockets - 1
            /\ IF revents = "connected"
               THEN /\ state_' = "kConnected"
                    /\ established' = IF connect_ THEN established + 1 ELSE established
                    /\ UNCHANGED <<timers, retryDelayMs_>>
               ELSE retry(connect_, retryDelayMs_, timers) /\ UNCHANGED established
            /\ UNCHANGED <<gaveUp, failed>>
       ELSE /\ failed' = IF state_ = "kDisconnected" THEN failed ELSE "handleWrite:state_"
            /\ UNCHANGED <<state_, retryDelayMs_, channel_, sockets, gaveUp, queue, timers,
                           established>>
    /\ fresh' = fresh + (timers' - timers)
    /\ UNCHANGED <<connect_, userPc, starts, twice>>
-----------------------------------------------------------------------------
(* The calls. *)

\* start, stop and restart in the loop thread: stop queues its functor also
\* there.
LoopCall(op) ==
    /\ Running /\ Len(queue) < MaxQueue
    /\ connect_' = (op # "stop")
    /\ op # "stop" => starts < MaxStarts
    /\ starts' = IF op = "stop" THEN starts ELSE starts + 1
    /\ twice' = (twice \/ (op # "stop" /\ connect_))
    /\ CASE op = "start"   -> startInLoop(TRUE, timers) /\ UNCHANGED queue
         [] op = "stop"    -> /\ queue' = Append(queue, "stopInLoop")
                              /\ UNCHANGED <<attempt, timers>>
         [] op = "restart" -> /\ connect("kDisconnected", kInitRetryDelayMs, timers)
                              /\ UNCHANGED queue
    /\ UNCHANGED <<revents, fresh, userPc, established>>

\* start and stop in another thread set connect_, then queue their functor.
UserCall(op) == /\ Running /\ Len(queue) < MaxQueue
                /\ userPc = "none"
                /\ op = "start" => starts < MaxStarts
                /\ starts' = IF op = "start" THEN starts + 1 ELSE starts
                /\ twice' = (twice \/ (op = "start" /\ connect_))
                /\ connect_' = (op = "start")
                /\ userPc' = IF op = "start" THEN "startInLoop" ELSE "stopInLoop"
                /\ UNCHANGED <<attempt, revents, queue, timers, fresh, established>>

UserQueues == /\ Running /\ userPc # "none"
              /\ queue' = Append(queue, userPc)
              /\ userPc' = "none"
              /\ UNCHANGED <<connect_, attempt, revents, timers, fresh, established, starts, twice>>
-----------------------------------------------------------------------------
Next == \/ RunFunctor \/ TimerFires \/ HandleEvent
        \/ \E outcome \in Outcomes : Poll(outcome)
        \/ \E op \in LoopOps : LoopCall(op)
        \/ \E op \in UserOps : UserCall(op)
        \/ UserQueues

Spec == Init /\ [][Next]_vars

\* The loop keeps running: functors run, timers fire and events are handled;
\* and a thread in a call finishes it.  Nothing is assumed of the network.
FairSpec == /\ Spec
            /\ WF_vars(RunFunctor) /\ WF_vars(TimerFires) /\ WF_vars(HandleEvent)
            /\ WF_vars(UserQueues)
-----------------------------------------------------------------------------
TypeOK == /\ connect_ \in BOOLEAN
          /\ state_ \in {"kDisconnected", "kConnecting", "kConnected"}
          /\ retryDelayMs_ \in kInitRetryDelayMs..kMaxRetryDelayMs
          /\ channel_ \in {"none", "added", "removed"}
          /\ sockets \in Nat
          /\ revents \in Outcomes \cup {"none"}
          /\ queue \in Seq(Functors)
          /\ timers \in Nat /\ fresh \in 0..timers
          /\ userPc \in {"none", "startInLoop", "stopInLoop"}
          /\ established \in Nat
          /\ starts \in Nat
          /\ twice \in BOOLEAN
          /\ gaveUp \in BOOLEAN

(* A connector that is started once and stopped at any time, from any      *)
(* thread, never fails an assert, and it is connecting exactly while it    *)
(* has a channel in the loop: no attempt overlaps another, and no channel  *)
(* is left behind that nobody would handle.                                *)
OneAttempt == starts <= 1 => Running /\ (channel_ = "added" <=> state_ = "kConnecting")

(* Every socket is accounted for: connect() opens one per attempt, and it  *)
(* is closed or handed to newConnectionCallback_ exactly when its channel  *)
(* leaves the loop, on every path of error, retry, success and stop.       *)
SocketsAccounted == Running => sockets = IF channel_ = "added" THEN 1 ELSE 0

(* A connector that is to connect does not fall asleep: while connect_ is  *)
(* set and it is disconnected, a start is queued or a retry timer is set,  *)
(* unless the last error was one that is not retried; whatever order       *)
(* start, stop, errors and timers come in.                                 *)
AttemptComing ==
    Running /\ connect_ /\ state_ = "kDisconnected" =>
        \/ timers > 0
        \/ "startInLoop" \in {queue[i] : i \in DOMAIN queue} \cup {userPc}
        \/ gaveUp

(* A connector that was stopped comes to rest unless it is started again:  *)
(* no attempt under way, no channel, no socket and no timer, whatever the  *)
(* network does, and though stop cancels no timer.                         *)
StopSettles ==
    (starts = 1 /\ ~connect_) ~> \/ channel_ = "none" /\ timers = 0 /\ sockets = 0
                                 \/ starts > 1

(* The assert in connecting() that there is no channel, for a connector    *)
(* that is always stopped before it is started again.                      *)
ConnectingAssertHolds == failed = "connecting:!channel_" => twice
=============================================================================
