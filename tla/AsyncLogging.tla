----------------------------- MODULE AsyncLogging -----------------------------
(***************************************************************************)
(* src/AsyncLogging.h and src/AsyncLogging.cpp: threads append lines to a  *)
(* buffer in memory, a thread of its own writes the buffers to a LogFile.  *)
(* Two buffers wait with the front end (currentBuffer_, nextBuffer_), two  *)
(* with the back end (newBuffer1, newBuffer2); more are made on demand.    *)
(*                                                                         *)
(* append holds mutex_ throughout, so who calls it does not matter.  An    *)
(* assert that does not hold, or the back() of an empty vector, ends the   *)
(* program and is recorded in failed.                                      *)
(***************************************************************************)
EXTENDS LogFile, SequencesExt

CONSTANTS Lengths,      \* the lengths of the lines
          BufferSize,   \* SIZE of the FixedBuffers, KLargeBuffer
          MaxBatch,     \* 25: a batch of more buffers is cut down to two
          DropLength,   \* 20: the length given with "drop log!"
          MaxLines,     \* bound on the lines that are logged
          MaxTime       \* bound on the clock

ASSUME AsyncLoggingAssumption ==
    /\ Lengths \subseteq Nat /\ BufferSize \in Nat \ {0} /\ DropLength \in Nat
    /\ MaxBatch \in Nat /\ MaxBatch >= 2
    /\ MaxLines \in Nat /\ MaxTime \in Nat \ {0}

VARIABLES
    running_, currentBuffer_, nextBuffer_, buffers_,
    newBuffer1, newBuffer2, bufferToWrite,   \* the locals of threadFunc
    output,                                  \* its LogFile
    written,        \* how many buffers of the batch are written
    threadPc,       \* where the back end is
    ownerPc,        \* what the owner did: start, stop, join
    given,          \* the lengths that append was called with
    now,            \* time(NULL)
    failed          \* the assert that did not hold

front == <<currentBuffer_, nextBuffer_, buffers_, given>>
back == <<newBuffer1, newBuffer2, bufferToWrite, output, written>>
vars == <<running_, front, back, threadPc, ownerPc, now, failed>>

\* A FixedBuffer with its lines and length(); a unique_ptr may be NULL.
EmptyBuffer == [lines |-> <<>>, length |-> 0]
NULL == [lines |-> <<>>, length |-> -1]

DropLog == [id |-> 0, len |-> DropLength]

Init == /\ running_ = FALSE
        /\ currentBuffer_ = EmptyBuffer /\ nextBuffer_ = EmptyBuffer /\ buffers_ = <<>>
        /\ newBuffer1 = EmptyBuffer /\ newBuffer2 = EmptyBuffer /\ bufferToWrite = <<>>
        /\ output = Opened(1) /\ written = 0
        /\ threadPc = "none" /\ ownerPc = "new"
        /\ given = <<>> /\ now = 1 /\ failed = "none"

Running == failed = "none"
-----------------------------------------------------------------------------
(* The front end. *)

avail(b) == BufferSize - b.length

\* FixedBuffer::append: a line that does not fit is left out.
Appended(b, line) ==
    IF avail(b) > line.len
    THEN [lines |-> Append(b.lines, line), length |-> b.length + line.len]
    ELSE b

MAppendLine(len) ==
    LET line == [id |-> Len(given) + 1, len |-> len]
    IN /\ Running /\ Len(given) < MaxLines
       /\ given' = Append(given, len)
       /\ IF avail(currentBuffer_) > len
          THEN /\ currentBuffer_' = Appended(currentBuffer_, line)
               /\ UNCHANGED <<nextBuffer_, buffers_>>
          ELSE /\ buffers_' = Append(buffers_, currentBuffer_)
               /\ currentBuffer_' = IF nextBuffer_ # NULL THEN nextBuffer_ ELSE EmptyBuffer
               /\ nextBuffer_' = NULL
       /\ UNCHANGED <<running_, back, threadPc, ownerPc, now, failed>>

\* append
AppendLine(len) ==
    LET line == [id |-> Len(given) + 1, len |-> len]
    IN /\ Running /\ Len(given) < MaxLines
       /\ given' = Append(given, len)
       /\ IF avail(currentBuffer_) > len
          THEN /\ currentBuffer_' = Appended(currentBuffer_, line)
               /\ UNCHANGED <<nextBuffer_, buffers_>>
          ELSE /\ buffers_' = Append(buffers_, currentBuffer_)
               /\ currentBuffer_' =
                    Appended(IF nextBuffer_ # NULL THEN nextBuffer_ ELSE EmptyBuffer, line)
               /\ nextBuffer_' = NULL
       /\ UNCHANGED <<running_, back, threadPc, ownerPc, now, failed>>
-----------------------------------------------------------------------------
(* The owner: start, then stop, which the destructor calls too. *)

\* start goes on when pthread_create fails.
Start == /\ Running /\ ownerPc = "new"
         /\ running_' = TRUE
         /\ ownerPc' = "started"
         /\ threadPc' \in {"begin", "none"}
         /\ UNCHANGED <<front, back, now, failed>>

Stop == /\ Running /\ ownerPc = "started"
        /\ running_' = FALSE
        /\ ownerPc' = "stopping"
        /\ UNCHANGED <<front, back, threadPc, now, failed>>

\* thread::join
Join == /\ Running /\ ownerPc = "stopping"
        /\ \/ /\ threadPc = "none"
              /\ failed' = "join:started_" /\ UNCHANGED ownerPc
           \/ /\ threadPc = "done"
              /\ ownerPc' = "stopped" /\ UNCHANGED failed
        /\ UNCHANGED <<running_, front, back, threadPc, now>>
-----------------------------------------------------------------------------
(* The back end, threadFunc. *)

Begin == /\ Running /\ threadPc = "begin"
         /\ IF running_
            THEN threadPc' = "while" /\ output' = Opened(now) /\ UNCHANGED failed
            ELSE failed' = "threadFunc:running_" /\ UNCHANGED <<threadPc, output>>
         /\ UNCHANGED <<running_, front, newBuffer1, newBuffer2, bufferToWrite, written, ownerPc,
                        now>>

\* The test of running_ with the asserts behind it, or the last flush.
While == /\ Running /\ threadPc = "while"
         /\ IF ~running_
            THEN threadPc' = "done" /\ output' = flush(output) /\ UNCHANGED failed
            ELSE /\ IF newBuffer1.length = 0 /\ newBuffer2.length = 0 /\ bufferToWrite = <<>>
                    THEN threadPc' = "swap" /\ UNCHANGED failed
                    ELSE failed' = "threadFunc:newBuffer" /\ UNCHANGED threadPc
                 /\ UNCHANGED output
         /\ UNCHANGED <<running_, front, newBuffer1, newBuffer2, bufferToWrite, written, ownerPc,
                        now>>

MSwapAlways ==
    /\ Running /\ threadPc = "swap"
    /\ bufferToWrite' = Append(buffers_, currentBuffer_)
    /\ buffers_' = <<>>
    /\ currentBuffer_' = newBuffer1 /\ newBuffer1' = NULL
    /\ nextBuffer_' = newBuffer2 /\ newBuffer2' = NULL
    /\ threadPc' = "drop"
    /\ UNCHANGED <<running_, given, output, written, ownerPc, now, failed>>

MSwapFull ==
    /\ Running /\ threadPc = "swap" /\ buffers_ # <<>>
    /\ bufferToWrite' = Append(buffers_, currentBuffer_)
    /\ buffers_' = <<>>
    /\ currentBuffer_' = newBuffer1 /\ newBuffer1' = NULL
    /\ IF nextBuffer_ = NULL THEN nextBuffer_' = newBuffer2 /\ newBuffer2' = NULL
                             ELSE UNCHANGED <<nextBuffer_, newBuffer2>>
    /\ threadPc' = "drop"
    /\ UNCHANGED <<running_, given, output, written, ownerPc, now, failed>>

\* The critical section.  waitForSeconds asks for a time near the epoch and
\* returns at once, having let go of the mutex or not (its tv_nsec is not
\* set, and EINVAL leaves the mutex alone): for the front end that is as if
\* the back end came to the mutex a little later.
Swap ==
    /\ Running /\ threadPc = "swap"
    /\ bufferToWrite' = Append(buffers_, currentBuffer_)
    /\ buffers_' = <<>>
    /\ currentBuffer_' = newBuffer1 /\ newBuffer1' = NULL
    /\ IF nextBuffer_ = NULL THEN nextBuffer_' = newBuffer2 /\ newBuffer2' = NULL
                             ELSE UNCHANGED <<nextBuffer_, newBuffer2>>
    /\ threadPc' = "drop"
    /\ UNCHANGED <<running_, given, output, written, ownerPc, now, failed>>

Drop == /\ Running /\ threadPc = "drop"
        /\ IF Len(bufferToWrite) > MaxBatch
           THEN /\ output' \in append(output, <<DropLog>>, DropLength, now)
                /\ bufferToWrite' = SubSeq(bufferToWrite, 1, 2)
           ELSE UNCHANGED <<output, bufferToWrite>>
        /\ threadPc' = "write"
        /\ UNCHANGED <<running_, front, newBuffer1, newBuffer2, written, ownerPc, now, failed>>

WriteBuffer ==
    /\ Running /\ threadPc = "write" /\ written < Len(bufferToWrite)
    /\ LET buffer == bufferToWrite[written + 1]
       IN output' \in append(output, buffer.lines, buffer.length, now)
    /\ written' = written + 1
    /\ UNCHANGED <<running_, front, newBuffer1, newBuffer2, bufferToWrite, threadPc, ownerPc, now,
                   failed>>

MRecycle ==
    LET spare == IF Len(bufferToWrite) > 2 THEN 2 ELSE Len(bufferToWrite)
        wanted == Cardinality({i \in {1, 2} : <<newBuffer1, newBuffer2>>[i] = NULL})
    IN /\ Running /\ threadPc = "write" /\ written = Len(bufferToWrite)
       /\ IF wanted <= spare
          THEN newBuffer1' = EmptyBuffer /\ newBuffer2' = EmptyBuffer /\ UNCHANGED failed
          ELSE failed' = "threadFunc:back()" /\ UNCHANGED <<newBuffer1, newBuffer2>>
       /\ bufferToWrite' = <<>> /\ written' = 0
       /\ threadPc' = "while"
       /\ UNCHANGED <<running_, front, output, ownerPc, now>>

\* Of the batch at most two buffers are kept, and from their end those of
\* newBuffer1 and newBuffer2 that were given away are taken, and reset.
Recycle ==
    LET spare == IF Len(bufferToWrite) > 2 THEN 2 ELSE Len(bufferToWrite)
        wanted == Cardinality({i \in {1, 2} : <<newBuffer1, newBuffer2>>[i] = NULL})
    IN /\ Running /\ threadPc = "write" /\ written = Len(bufferToWrite)
       /\ IF wanted <= spare
          THEN newBuffer1' = EmptyBuffer /\ newBuffer2' = EmptyBuffer /\ UNCHANGED failed
          ELSE failed' = "threadFunc:back()" /\ UNCHANGED <<newBuffer1, newBuffer2>>
       /\ bufferToWrite' = <<>> /\ written' = 0
       /\ output' = flush(output)
       /\ threadPc' = "while"
       /\ UNCHANGED <<running_, front, ownerPc, now>>

Tick == /\ Running /\ now < MaxTime
        /\ now' = now + 1
        /\ UNCHANGED <<running_, front, back, threadPc, ownerPc, failed>>
-----------------------------------------------------------------------------
BackEnd == Begin \/ While \/ Swap \/ Drop \/ WriteBuffer \/ Recycle

Next == \/ \E len \in Lengths : AppendLine(len)
        \/ Start \/ Stop \/ Join
        \/ BackEnd
        \/ Tick

Spec == Init /\ [][Next]_vars

\* The back end keeps running; pthread_join returns when the thread has ended.
FairSpec == Spec /\ WF_vars(BackEnd) /\ WF_vars(Join)
-----------------------------------------------------------------------------
\* The lines that were given and are still to be written, in their order.
Lines(buffers) == FlattenSeq([i \in DOMAIN buffers |-> buffers[i].lines])
Pending == Lines(SubSeq(bufferToWrite, written + 1, Len(bufferToWrite)))
             \o Lines(buffers_) \o currentBuffer_.lines

(* Lines are given to LogFile::append in the order in which append was     *)
(* called, each once, whatever buffers are filled, swapped, replaced and   *)
(* recycled meanwhile.  None is lost on the way to that call unless it is  *)
(* as long as a buffer, or belongs to the end of a batch of more than      *)
(* MaxBatch buffers, and then an entry says so.  What LogFile does with    *)
(* its lines is not part of it: a roll, and the end of the program, may    *)
(* lose those that are not flushed.                                        *)
LS == INSTANCE LogStream WITH Size <- BufferSize, Gap <- DropLog,
                              pending <- Pending, out <- output.appended

StreamInOrder == LS!Spec

(* The back end never runs out of spare buffers: when it needs newBuffer1  *)
(* and newBuffer2 they are there and empty, because it gives newBuffer2    *)
(* away only after a batch of two buffers or more, from which it gets both *)
(* back; neither its asserts nor back() of an empty vector end the         *)
(* program, however the front end is timed.                                *)
SparesAtHand ==
    /\ failed \notin {"threadFunc:newBuffer", "threadFunc:back()"}
    /\ threadPc = "write" /\ written = Len(bufferToWrite) /\ newBuffer2 = NULL
         => Len(bufferToWrite) >= 2

(* Between two batches, and when the back end has ended, everything that   *)
(* was written is on disk, if the log is still in its first file.  (After  *)
(* a roll it need not be: see rollFile.)                                   *)
FlushedIsOnDisk ==
    threadPc \in {"while", "swap", "done"} /\ output.files = 1 => output.disk = output.appended

(* A line does not wait for more lines to come: while the back end runs,   *)
(* every line comes out of memory, also the last one of a quiet program    *)
(* and those logged before start().                                        *)
LineComesOut ==
    \A id \in 1..MaxLines :
        (threadPc # "none" /\ id \in {line.id : line \in ToSet(Pending)})
          ~> (id \notin {line.id : line \in ToSet(Pending)} \/ ~running_ \/ ~Running)

(* The assert at the head of threadFunc: the thread starts while running_  *)
(* is set.                                                                 *)
RunningAtStart == failed # "threadFunc:running_"
=============================================================================
