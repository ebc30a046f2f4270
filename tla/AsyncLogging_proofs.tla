------------------------ MODULE AsyncLogging_proofs ------------------------
(***************************************************************************)
(* Proofs about AsyncLogging and its LogFile, for any sizes of buffers,    *)
(* batches and files: the back end does not run out of spare buffers, what *)
(* it flushed is on disk as long as the log is in its first file, and the  *)
(* lines come out in their order (AsyncLogging implements LogStream).      *)
(***************************************************************************)
EXTENDS AsyncLogging, SequenceTheorems, FiniteSetTheorems, WellFoundedInduction, TLAPS

Entries == [id : Nat, len : Nat]
Buffers == [lines : Seq(Entries), length : Int]
LogFiles == [lastRoll_ : Int, lastFlush_ : Int, startTime_ : Int, count_ : Int,
             writtenBytes_ : Int, buffered : Seq(Entries), disk : Seq(Entries),
             appended : Seq(Entries), files : Int]

(* The log as long as it was not rolled: what append was given is on disk  *)
(* or in stdio's buffer behind it.                                         *)
Whole(f) == /\ f \in LogFiles
            /\ f.files >= 1
            /\ f.files = 1 => f.appended = f.disk \o f.buffered
-----------------------------------------------------------------------------
(* The methods of LogFile. *)

(* A sequence cut in two, as fwrite does with what it writes. *)
LEMMA CutInTwo ==
    ASSUME NEW S, NEW s \in Seq(S), NEW n \in 0..Len(s)
    PROVE  /\ SubSeq(s, 1, n) \in Seq(S) /\ SubSeq(s, n + 1, Len(s)) \in Seq(S)
           /\ SubSeq(s, 1, n) \o SubSeq(s, n + 1, Len(s)) = s
<1>1. Len(s) \in Nat /\ n \in 0..Len(s)
  OBVIOUS
<1>2. SubSeq(s, 1, n) \in Seq(S) /\ SubSeq(s, n + 1, Len(s)) \in Seq(S)
  BY <1>1
<1>3. SubSeq(s, 1, n) \o SubSeq(s, n + 1, Len(s)) = SubSeq(s, 1, Len(s))
  <2>1. 1 \in 1..(Len(s) + 1) /\ n \in (1 - 1)..Len(s) /\ Len(s) \in n..Len(s)
    BY <1>1
  <2> QED BY <2>1, ConcatAdjacentSubSeq
<1> QED BY <1>2, <1>3, SubSeqFull

(* Sequences of entries put together in either order. *)
LEMMA Regroup ==
    \A s, t, u \in Seq(Entries) : (s \o t) \o u = s \o (t \o u)
BY ConcatAssociative

(* A LogFile is opened with one, empty file: the first second of the epoch *)
(* is over.                                                                *)
LEMMA OpenedWhole ==
    ASSUME NEW n \in Nat \ {0}
    PROVE  Whole(Opened(n)) /\ Opened(n).buffered = <<>> /\ Opened(n).appended = <<>>
<1>1. Period(n) \in Int /\ n \in Int
  BY LogFileAssumption DEF Period
<1>2. <<>> \in Seq(Entries)
  OBVIOUS
<1> DEFINE closed == [lastRoll_ |-> 0, lastFlush_ |-> 0, startTime_ |-> 0, count_ |-> 0,
                      writtenBytes_ |-> 0, buffered |-> <<>>, disk |-> <<>>,
                      appended |-> <<>>, files |-> 0]
           named == [closed EXCEPT !.lastRoll_ = n, !.lastFlush_ = n, !.startTime_ = Period(n)]
<1>3. closed \in LogFiles
  BY <1>2 DEF LogFiles
<1>4. closed.lastRoll_ = 0 /\ closed.files = 0 /\ closed.disk = <<>> /\ closed.appended = <<>>
  OBVIOUS
<1>5. Opened(n) = IF n > closed.lastRoll_ THEN AppendFile(named) ELSE closed
  BY DEF Opened, rollFile
<1> HIDE DEF closed
<1>6. named \in LogFiles
  BY <1>1, <1>3 DEF LogFiles
<1>7. named.files = 0 /\ named.disk = <<>> /\ named.appended = <<>>
  BY <1>3, <1>4 DEF LogFiles
<1>8. Opened(n) = AppendFile(named)
  BY <1>4, <1>5
<1> HIDE DEF named
<1>9. AppendFile(named) = [named EXCEPT !.writtenBytes_ = 0, !.buffered = <<>>, !.files = 1]
  BY <1>7 DEF AppendFile
<1>10. AppendFile(named) \in LogFiles
  <2>1. 0 \in Int /\ 1 \in Int
    OBVIOUS
  <2> QED BY <2>1, <1>2, <1>6, <1>9 DEF LogFiles
<1>11. /\ AppendFile(named).files = 1 /\ AppendFile(named).disk = <<>>
       /\ AppendFile(named).appended = <<>> /\ AppendFile(named).buffered = <<>>
  BY <1>6, <1>7, <1>9 DEF LogFiles
<1>12. <<>> = <<>> \o <<>>
  OBVIOUS
<1> QED BY <1>8, <1>10, <1>11, <1>12 DEF Whole

(* A roll begins another file, or does nothing within a second.  It is not *)
(* an append.                                                              *)
LEMMA RollWhole ==
    ASSUME NEW f, Whole(f), NEW n \in Nat
    PROVE  Whole(rollFile(f, n)) /\ rollFile(f, n).appended = f.appended
<1>1. Period(n) \in Int /\ n \in Int
  BY LogFileAssumption DEF Period
<1>2. <<>> \in Seq(Entries)
  OBVIOUS
<1>3. f \in LogFiles /\ f.files \in Int /\ f.files >= 1
  BY DEF Whole, LogFiles
<1> DEFINE named == [f EXCEPT !.lastRoll_ = n, !.lastFlush_ = n, !.startTime_ = Period(n)]
<1>4. CASE n > f.lastRoll_
  <2>1. named \in LogFiles
    BY <1>1, <1>3 DEF LogFiles
  <2>2. named.files = f.files /\ named.appended = f.appended
    BY <1>3 DEF LogFiles
  <2>3. rollFile(f, n) = AppendFile(named)
    BY <1>4 DEF rollFile
  <2> HIDE DEF named
  <2>4. AppendFile(named) = [named EXCEPT !.writtenBytes_ = 0, !.buffered = <<>>,
                                          !.files = f.files + 1]
    BY <2>2 DEF AppendFile
  <2>5. f.files + 1 \in Int /\ 0 \in Int
    BY <1>3
  <2>6. AppendFile(named) \in LogFiles
    BY <1>2, <2>1, <2>4, <2>5 DEF LogFiles
  <2>7. AppendFile(named).files = f.files + 1 /\ AppendFile(named).appended = f.appended
    BY <2>1, <2>2, <2>4 DEF LogFiles
  <2>8. f.files + 1 >= 1 /\ f.files + 1 # 1
    BY <1>3
  <2> HIDE DEF named
  <2> QED BY <2>3, <2>6, <2>7, <2>8 DEF Whole
<1>5. CASE ~(n > f.lastRoll_)
  BY <1>5 DEF rollFile
<1> QED BY <1>4, <1>5

(* A flush moves stdio's buffer to the disk. *)
LEMMA FlushWhole ==
    ASSUME NEW f, Whole(f)
    PROVE  Whole(flush(f)) /\ flush(f).buffered = <<>> /\ flush(f).appended = f.appended
<1>1. /\ f.disk \o f.buffered \in Seq(Entries) /\ <<>> \in Seq(Entries)
      /\ (f.disk \o f.buffered) \o <<>> = f.disk \o f.buffered
  BY DEF Whole, LogFiles
<1> QED BY <1>1 DEF flush, Whole, LogFiles

(* What append leaves behind: wherever fwrite cuts what is buffered, and   *)
(* whether or not the file is rolled or flushed.                           *)
LEMMA AppendWhole ==
    ASSUME NEW f, Whole(f), NEW entries \in Seq(Entries), NEW len \in Int, NEW n \in Nat,
           NEW g \in append(f, entries, len, n)
    PROVE  Whole(g) /\ g.appended = f.appended \o entries
<1>1. PICK b \in Seq(Entries), d \in Seq(Entries), a \in Seq(Entries) :
        b = f.buffered /\ d = f.disk /\ a = f.appended
  BY DEF Whole, LogFiles
<1>2. f \in LogFiles /\ f.writtenBytes_ + len \in Int
  BY DEF Whole, LogFiles
<1>3. f.files \in Int /\ f.files >= 1 /\ (f.files = 1 => a = d \o b)
  BY <1>1 DEF Whole, LogFiles
<1>4. PICK h \in AppendFileAppend(f, entries, len) : g = Checked(h, n)
  BY DEF append
<1> DEFINE all == b \o entries
<1>5. PICK k \in 0..Len(all) :
        h = [f EXCEPT !.writtenBytes_ = f.writtenBytes_ + len,
                      !.appended = a \o entries,
                      !.disk = d \o SubSeq(all, 1, k),
                      !.buffered = SubSeq(all, k + 1, Len(all))]
  BY <1>1, <1>4 DEF AppendFileAppend
<1>6. all \in Seq(Entries)
  OBVIOUS
<1> HIDE DEF all
<1>7. PICK first \in Seq(Entries), rest \in Seq(Entries) :
        first = SubSeq(all, 1, k) /\ rest = SubSeq(all, k + 1, Len(all)) /\ first \o rest = all
  <2>1. all \in Seq(Entries) /\ k \in 0..Len(all)
    BY <1>6
  <2>2. /\ SubSeq(all, 1, k) \in Seq(Entries) /\ SubSeq(all, k + 1, Len(all)) \in Seq(Entries)
        /\ SubSeq(all, 1, k) \o SubSeq(all, k + 1, Len(all)) = all
    BY <2>1, CutInTwo
  <2> QED BY <2>2
<1> DEFINE appended == a \o entries
           disk == d \o first
<1>8. appended \in Seq(Entries) /\ disk \in Seq(Entries)
  OBVIOUS
<1>9. disk \o rest = (d \o b) \o entries
  <2>1. \A t, u \in Seq(Entries) : (d \o t) \o u = d \o (t \o u)
    BY Regroup
  <2>2. (d \o first) \o rest = d \o (first \o rest)
    BY <2>1
  <2>3. (d \o b) \o entries = d \o (b \o entries)
    BY <2>1
  <2> QED BY <1>7, <2>2, <2>3 DEF all
<1> HIDE DEF appended, disk
<1>10. h = [f EXCEPT !.writtenBytes_ = f.writtenBytes_ + len, !.appended = appended,
                     !.disk = disk, !.buffered = rest]
  BY <1>5, <1>7 DEF appended, disk
<1>11. h \in LogFiles
  BY <1>2, <1>8, <1>10 DEF LogFiles
<1>12. h.files = f.files /\ h.appended = appended /\ h.disk = disk /\ h.buffered = rest
  BY <1>2, <1>10 DEF LogFiles
<1>13. Whole(h)
  BY <1>3, <1>9, <1>11, <1>12 DEF Whole, appended
<1> DEFINE counted == [h EXCEPT !.count_ = h.count_ + 1]
           checked == [h EXCEPT !.count_ = 0]
           late == [checked EXCEPT !.lastFlush_ = n]
<1>14. /\ Whole(counted) /\ Whole(checked)
       /\ counted.appended = h.appended /\ checked.appended = h.appended
  <2>1. h.count_ + 1 \in Int /\ 0 \in Int
    BY <1>11 DEF LogFiles
  <2>2. counted \in LogFiles /\ checked \in LogFiles
    BY <1>11, <2>1 DEF LogFiles
  <2>3. /\ counted.files = h.files /\ counted.appended = h.appended
        /\ counted.disk = h.disk /\ counted.buffered = h.buffered
    BY <1>11 DEF LogFiles
  <2>4. /\ checked.files = h.files /\ checked.appended = h.appended
        /\ checked.disk = h.disk /\ checked.buffered = h.buffered
    BY <1>11 DEF LogFiles
  <2> HIDE DEF counted, checked
  <2> QED BY <1>13, <2>2, <2>3, <2>4 DEF Whole
<1>15. Whole(late) /\ late.appended = h.appended
  <2> HIDE DEF checked
  <2>1. checked \in LogFiles /\ n \in Int
    BY <1>14 DEF Whole
  <2>2. late \in LogFiles
    BY <2>1 DEF LogFiles
  <2>3. /\ late.files = checked.files /\ late.appended = checked.appended
        /\ late.disk = checked.disk /\ late.buffered = checked.buffered
    BY <2>1 DEF LogFiles
  <2> HIDE DEF late
  <2> QED BY <1>14, <2>2, <2>3 DEF Whole
<1>16. g \in {rollFile(h, n), counted, rollFile(checked, n), flush(late), checked}
  BY <1>4 DEF Checked
<1> HIDE DEF counted, checked, late
<1>17. Whole(g) /\ g.appended = h.appended
  BY <1>13, <1>14, <1>15, <1>16, RollWhole, FlushWhole
<1> QED BY <1>1, <1>12, <1>17 DEF appended
-----------------------------------------------------------------------------
(* The inductive invariant. *)

FrontTyped == /\ currentBuffer_ \in Buffers /\ buffers_ \in Seq(Buffers)
              /\ nextBuffer_ \in {EmptyBuffer, NULL}
              /\ given \in Seq(Nat)

BackTyped == /\ bufferToWrite \in Seq(Buffers) /\ written \in 0..Len(bufferToWrite)
             /\ newBuffer1 \in {EmptyBuffer, NULL} /\ newBuffer2 \in {EmptyBuffer, NULL}
             /\ now \in Nat \ {0}

(* The front end has used up nextBuffer_ only with a buffer behind it in   *)
(* buffers_, so that the batch the back end takes it for has two.          *)
NextUsedUp == nextBuffer_ = NULL => buffers_ # <<>>

InBatch == threadPc \in {"drop", "write"}

(* Outside a batch the back end has both its buffers; within one it has    *)
(* given newBuffer1 away, and newBuffer2 only for a batch of two or more.  *)
SparesHeld ==
    /\ ~InBatch => newBuffer1 = EmptyBuffer /\ newBuffer2 = EmptyBuffer /\ bufferToWrite = <<>>
    /\ threadPc # "write" => written = 0
    /\ InBatch => /\ newBuffer1 = NULL /\ Len(bufferToWrite) >= 1
                  /\ newBuffer2 = NULL => Len(bufferToWrite) >= 2
    /\ ownerPc = "new" => threadPc = "none"
    /\ failed \notin {"threadFunc:newBuffer", "threadFunc:back()"}

(* Nothing is in stdio's buffer outside a batch.                           *)
LogInv == Whole(output) /\ (~InBatch => output.buffered = <<>>)

Inv == FrontTyped /\ BackTyped /\ NextUsedUp /\ SparesHeld /\ LogInv

(* A buffer is not NULL. *)
LEMMA EmptyBufferTyped ==
    EmptyBuffer \in Buffers /\ EmptyBuffer # NULL /\ EmptyBuffer.length = 0
BY DEF EmptyBuffer, NULL, Buffers

(* FixedBuffer::append gives a buffer. *)
LEMMA AppendedTyped ==
    ASSUME NEW b \in Buffers, NEW line \in Entries
    PROVE  Appended(b, line) \in Buffers
<1>1. Append(b.lines, line) \in Seq(Entries) /\ b.length \in Int /\ line.len \in Int
  BY DEF Buffers, Entries
<1>2. b.length + line.len \in Int
  BY <1>1
<1> QED BY <1>1, <1>2 DEF Appended, Buffers

(* How many buffers the back end takes from the batch to have its own      *)
(* back.                                                                   *)
LEMMA WantedBuffers ==
    /\ Cardinality({i \in {1, 2} : <<NULL, NULL>>[i] = NULL}) = 2
    /\ Cardinality({i \in {1, 2} : <<NULL, EmptyBuffer>>[i] = NULL}) = 1
<1>1. {i \in {1, 2} : <<NULL, NULL>>[i] = NULL} = {1} \cup {2}
  OBVIOUS
<1>2. {i \in {1, 2} : <<NULL, EmptyBuffer>>[i] = NULL} = {1}
  BY EmptyBufferTyped
<1>3. IsFiniteSet({1}) /\ Cardinality({1}) = 1
  BY FS_Singleton
<1>4. 2 \notin {1}
  OBVIOUS
<1>5. Cardinality({1} \cup {2}) = 1 + 1
  BY <1>3, <1>4, FS_AddElement
<1> QED BY <1>1, <1>2, <1>3, <1>5

(* Inv holds at the start, and every step of the front end, of the owner   *)
(* and of the back end keeps it.                                           *)
THEOREM Invariance == Spec => []Inv
<1> USE DEF InBatch
<1>1. Init => Inv
  <2> SUFFICES ASSUME Init PROVE Inv
    OBVIOUS
  <2>1. <<>> \in Seq(Buffers) /\ <<>> \in Seq(Nat) /\ Len(<<>>) = 0
    OBVIOUS
  <2>2. FrontTyped /\ BackTyped
    BY <2>1, EmptyBufferTyped DEF Init, FrontTyped, BackTyped
  <2>3. NextUsedUp /\ SparesHeld
    BY EmptyBufferTyped DEF Init, NextUsedUp, SparesHeld
  <2>4. LogInv
    BY OpenedWhole DEF Init, LogInv
  <2> QED BY <2>2, <2>3, <2>4 DEF Inv
<1>2. Inv /\ [Next]_vars => Inv'
  <2> SUFFICES ASSUME Inv, [Next]_vars PROVE Inv'
    OBVIOUS
  <2> USE DEF Inv
  <2>1. ASSUME NEW len \in Lengths, AppendLine(len) PROVE Inv'
    <3> DEFINE line == [id |-> Len(given) + 1, len |-> len]
               fresh == IF nextBuffer_ # NULL THEN nextBuffer_ ELSE EmptyBuffer
    <3>1. line \in Entries /\ len \in Nat
      BY AsyncLoggingAssumption DEF Entries, FrontTyped
    <3>2. fresh \in Buffers
      BY EmptyBufferTyped DEF FrontTyped
    <3>3. Appended(currentBuffer_, line) \in Buffers /\ Appended(fresh, line) \in Buffers
      BY <3>1, <3>2, AppendedTyped DEF FrontTyped
    <3>4. given' \in Seq(Nat)
      BY <2>1, <3>1 DEF AppendLine, FrontTyped
    <3>5. \/ currentBuffer_' = Appended(currentBuffer_, line) /\ UNCHANGED <<nextBuffer_, buffers_>>
          \/ /\ buffers_' = Append(buffers_, currentBuffer_)
             /\ currentBuffer_' = Appended(fresh, line)
             /\ nextBuffer_' = NULL
      BY <2>1 DEF AppendLine
    <3> HIDE DEF line, fresh
    <3>6. FrontTyped'
      <4>1. Append(buffers_, currentBuffer_) \in Seq(Buffers)
        BY DEF FrontTyped
      <4>2. currentBuffer_' \in Buffers /\ buffers_' \in Seq(Buffers)
        BY <3>3, <3>5, <4>1 DEF FrontTyped
      <4>3. nextBuffer_' \in {EmptyBuffer, NULL}
        BY <3>5 DEF FrontTyped
      <4> QED BY <3>4, <4>2, <4>3 DEF FrontTyped
    <3>7. NextUsedUp'
      BY <3>5 DEF FrontTyped, NextUsedUp
    <3>8. BackTyped' /\ SparesHeld' /\ LogInv'
      BY <2>1 DEF AppendLine, back, BackTyped, SparesHeld, LogInv
    <3> QED BY <3>6, <3>7, <3>8
  <2>2. CASE Start
    BY <2>2 DEF Start, front, back, FrontTyped, BackTyped, NextUsedUp, SparesHeld, LogInv
  <2>3. CASE Stop
    BY <2>3 DEF Stop, front, back, FrontTyped, BackTyped, NextUsedUp, SparesHeld, LogInv
  <2>4. CASE Join
    BY <2>4 DEF Join, front, back, FrontTyped, BackTyped, NextUsedUp, SparesHeld, LogInv
  <2>5. CASE Begin
    BY <2>5, OpenedWhole DEF Begin, front, FrontTyped, BackTyped, NextUsedUp, SparesHeld, LogInv
  <2>6. CASE While
    <3>1. newBuffer1.length = 0 /\ newBuffer2.length = 0 /\ bufferToWrite = <<>>
      BY <2>6, EmptyBufferTyped DEF While, SparesHeld
    <3>2. /\ threadPc' \in {"done", "swap"} /\ failed' = failed
          /\ output' = output \/ output' = flush(output)
      BY <2>6, <3>1 DEF While
    <3>3. LogInv'
      BY <2>6, <3>2, FlushWhole DEF While, LogInv
    <3> QED BY <2>6, <3>2, <3>3 DEF While, front, FrontTyped, BackTyped, NextUsedUp, SparesHeld
  <2>7. CASE Swap
    <3>1. /\ newBuffer1 = EmptyBuffer /\ newBuffer2 = EmptyBuffer /\ bufferToWrite = <<>>
      BY <2>7 DEF Swap, SparesHeld
    <3>2. /\ bufferToWrite' \in Seq(Buffers) /\ Len(bufferToWrite') = Len(buffers_) + 1
          /\ Len(buffers_) \in Nat
      BY <2>7 DEF Swap, FrontTyped
    <3>3. FrontTyped' /\ NextUsedUp'
      BY <2>7, <3>1, EmptyBufferTyped DEF Swap, FrontTyped, NextUsedUp
    <3>4. written = 0 /\ written' = 0
      BY <2>7, <3>1 DEF Swap, BackTyped
    <3>5. BackTyped'
      BY <2>7, <3>2, <3>4 DEF Swap, BackTyped
    <3>6. nextBuffer_ = NULL => Len(buffers_) >= 1
      BY <3>2 DEF NextUsedUp, FrontTyped
    <3>7. newBuffer2' = NULL => nextBuffer_ = NULL
      BY <2>7, <3>1, EmptyBufferTyped DEF Swap
    <3>8. SparesHeld'
      BY <2>7, <3>2, <3>6, <3>7 DEF Swap, SparesHeld
    <3> QED BY <2>7, <3>3, <3>5, <3>8 DEF Swap, LogInv
  <2>8. CASE Drop
    <3>1. Whole(output')
      <4>1. <<DropLog>> \in Seq(Entries) /\ DropLength \in Int /\ now \in Nat
        BY AsyncLoggingAssumption DEF DropLog, Entries, BackTyped
      <4> QED BY <2>8, <4>1, AppendWhole DEF Drop, LogInv
    <3>2. /\ bufferToWrite' \in Seq(Buffers)
          /\ Len(bufferToWrite') = Len(bufferToWrite) \/ Len(bufferToWrite') >= 2
      <4>1. CASE Len(bufferToWrite) > MaxBatch
        <5>1. Len(bufferToWrite) >= 2 /\ Len(bufferToWrite) \in Nat
          BY <4>1, AsyncLoggingAssumption DEF BackTyped
        <5>2. bufferToWrite' = SubSeq(bufferToWrite, 1, 2)
          BY <2>8, <4>1 DEF Drop
        <5>3. bufferToWrite \in Seq(Buffers)
          BY DEF BackTyped
        <5>4. SubSeq(bufferToWrite, 1, 2) \in Seq(Buffers) /\ Len(SubSeq(bufferToWrite, 1, 2)) = 2
          BY <5>1, <5>3
        <5> QED BY <5>2, <5>4
      <4>2. CASE ~(Len(bufferToWrite) > MaxBatch)
        BY <2>8, <4>2 DEF Drop, BackTyped
      <4> QED BY <4>1, <4>2
    <3>3. written = 0 /\ Len(bufferToWrite') \in Nat
      BY <2>8, <3>2 DEF Drop, SparesHeld
    <3>4. BackTyped'
      BY <2>8, <3>2, <3>3 DEF Drop, BackTyped
    <3> QED BY <2>8, <3>1, <3>2, <3>4 DEF Drop, front, FrontTyped, NextUsedUp, SparesHeld, LogInv
  <2>9. CASE WriteBuffer
    <3>1. Whole(output')
      <4>1. bufferToWrite[written + 1] \in Buffers
        BY <2>9 DEF WriteBuffer, BackTyped
      <4>2. /\ bufferToWrite[written + 1].lines \in Seq(Entries)
            /\ bufferToWrite[written + 1].length \in Int /\ now \in Nat
        BY <4>1 DEF Buffers, BackTyped
      <4> QED BY <2>9, <4>2, AppendWhole DEF WriteBuffer, LogInv
    <3>2. BackTyped'
      BY <2>9 DEF WriteBuffer, BackTyped
    <3> QED BY <2>9, <3>1, <3>2 DEF WriteBuffer, front, FrontTyped, NextUsedUp, SparesHeld, LogInv
  <2>10. CASE Recycle
    <3> DEFINE spare == IF Len(bufferToWrite) > 2 THEN 2 ELSE Len(bufferToWrite)
               wanted == Cardinality({i \in {1, 2} : <<newBuffer1, newBuffer2>>[i] = NULL})
    <3>1. wanted <= spare
      <4>1. Len(bufferToWrite) \in Nat
        BY DEF BackTyped
      <4>2. CASE newBuffer2 = NULL
        BY <2>10, <4>1, <4>2, WantedBuffers DEF Recycle, SparesHeld
      <4>3. CASE newBuffer2 = EmptyBuffer
        BY <2>10, <4>1, <4>3, WantedBuffers DEF Recycle, SparesHeld
      <4> QED BY <4>2, <4>3 DEF BackTyped
    <3>2. /\ newBuffer1' = EmptyBuffer /\ newBuffer2' = EmptyBuffer /\ failed' = failed
          /\ bufferToWrite' = <<>> /\ written' = 0 /\ output' = flush(output)
          /\ threadPc' = "while" /\ UNCHANGED <<front, ownerPc, now>>
      BY <2>10, <3>1 DEF Recycle
    <3>3. <<>> \in Seq(Buffers) /\ Len(<<>>) = 0
      OBVIOUS
    <3>4. LogInv'
      BY <3>2, FlushWhole DEF LogInv
    <3>5. ownerPc = "new" => FALSE
      BY <2>10 DEF Recycle, SparesHeld
    <3> QED BY <3>2, <3>3, <3>4, <3>5 DEF front, FrontTyped, BackTyped, NextUsedUp, SparesHeld
  <2>11. CASE Tick
    BY <2>11 DEF Tick, front, back, FrontTyped, BackTyped, NextUsedUp, SparesHeld, LogInv
  <2>12. CASE UNCHANGED vars
    BY <2>12 DEF vars, front, back, FrontTyped, BackTyped, NextUsedUp, SparesHeld, LogInv
  <2> QED
    BY <2>1, <2>2, <2>3, <2>4, <2>5, <2>6, <2>7, <2>8, <2>9, <2>10, <2>11, <2>12
       DEF Next, BackEnd
<1> QED BY <1>1, <1>2, PTL DEF Spec
-----------------------------------------------------------------------------
(* The back end has its two empty buffers whenever it needs them: neither  *)
(* the asserts of threadFunc nor back() of an empty vector end the         *)
(* program.                                                                *)
THEOREM SparesNeverRunOut == Spec => []SparesAtHand
<1>1. Inv => SparesAtHand
  BY DEF Inv, SparesHeld, InBatch, SparesAtHand
<1> QED BY <1>1, Invariance, PTL

(* What was written is on disk between two batches and at the end,         *)
(* wherever fwrite cut it, as long as the log was not rolled.              *)
THEOREM FlushReachesDisk == Spec => []FlushedIsOnDisk
<1>1. Inv => FlushedIsOnDisk
  <2> SUFFICES ASSUME Inv, threadPc \in {"while", "swap", "done"}, output.files = 1
               PROVE  output.disk = output.appended
    BY DEF FlushedIsOnDisk
  <2>1. output.buffered = <<>> /\ output.appended = output.disk \o output.buffered
    BY DEF Inv, LogInv, InBatch, Whole
  <2>2. output.disk \in Seq(Entries)
    BY DEF Inv, LogInv, Whole, LogFiles
  <2> QED BY <2>1, <2>2, ConcatEmptySeq
<1> QED BY <1>1, Invariance, PTL
-----------------------------------------------------------------------------
(* Sequences put together. *)

(* Induction over the numbers, for a set instead of a predicate: one with  *)
(* 0 and the successor of each of its elements has them all, as otherwise  *)
(* there would be a least number that it lacks.                            *)
LEMMA SetInduction ==
    ASSUME NEW T, 0 \in T, \A n \in Nat : n \in T => n + 1 \in T
    PROVE  Nat \subseteq T
<1> DEFINE R == {ss \in Nat \X Nat : ss[1] < ss[2]}
           U == Nat \ T
<1>1. IsWellFoundedOn(R, Nat)
  BY NatLessThanWellFounded DEF OpToRel
<1>2. \A m, n \in Nat : m < n => <<m, n>> \in R
  OBVIOUS
<1> SUFFICES ASSUME U # {} PROVE FALSE
  OBVIOUS
<1>0. U \subseteq Nat
  OBVIOUS
<1> HIDE DEF R
<1>3. PICK w \in U : \A y \in U : ~(<<y, w>> \in R)
  <2> HIDE DEF U
  <2> QED BY <1>0, <1>1, WFMin
<1>4. w \in Nat /\ w # 0
  BY <1>3
<1>5. w - 1 \in Nat /\ w - 1 < w /\ (w - 1) + 1 = w
  BY <1>4
<1>6. w - 1 \notin U
  BY <1>2, <1>3, <1>4, <1>5
<1> QED BY <1>3, <1>5, <1>6

(* The function by which FlattenSeq is defined: what the first i sequences *)
(* come to.                                                                *)
Flat(s) == CHOOSE f : f = [i \in 1..Len(s) |-> IF i = 1 THEN s[i] ELSE f[i - 1] \o s[i]]

(* FlattenSeq is the last value of that function. *)
LEMMA FlattenIs ==
    ASSUME NEW s, Len(s) # 0 PROVE FlattenSeq(s) = Flat(s)[Len(s)]
BY DEF FlattenSeq, Flat

(* There is a function that satisfies the recursive equation. *)
LEMMA FlatExists ==
    ASSUME NEW S, NEW s \in Seq(Seq(S))
    PROVE  Flat(s) = [i \in 1..Len(s) |-> IF i = 1 THEN s[i] ELSE Flat(s)[i - 1] \o s[i]]
<1> DEFINE P(n) == \E f : f = [i \in 1..n |-> IF i = 1 THEN s[i] ELSE f[i - 1] \o s[i]]
           T == {n \in Nat : P(n)}
<1>1. P(0)
  <2> DEFINE f == [i \in 1..0 |-> s[i]]
  <2>1. f = [i \in 1..0 |-> IF i = 1 THEN s[i] ELSE f[i - 1] \o s[i]]
    OBVIOUS
  <2> QED BY <2>1
<1>2. ASSUME NEW n \in Nat, n \in T PROVE P(n + 1)
  <2>1. PICK f : f = [i \in 1..n |-> IF i = 1 THEN s[i] ELSE f[i - 1] \o s[i]]
    BY <1>2
  <2> DEFINE g == [i \in 1..(n + 1) |-> IF i = n + 1 THEN IF i = 1 THEN s[i] ELSE f[n] \o s[i]
                                                    ELSE f[i]]
  <2>2. ASSUME NEW i \in 1..(n + 1) PROVE g[i] = IF i = 1 THEN s[i] ELSE g[i - 1] \o s[i]
    <3>1. CASE i = n + 1
      BY <3>1
    <3>2. CASE i # n + 1
      <4>1. i \in 1..n /\ g[i] = f[i]
        BY <3>2
      <4>2. f[i] = IF i = 1 THEN s[i] ELSE f[i - 1] \o s[i]
        BY <2>1, <4>1
      <4>3. i # 1 => i - 1 \in 1..(n + 1) /\ i - 1 # n + 1
        BY <4>1
      <4> QED BY <4>1, <4>2, <4>3
    <3> QED BY <3>1, <3>2
  <2>3. g = [i \in 1..(n + 1) |-> IF i = 1 THEN s[i] ELSE g[i - 1] \o s[i]]
    BY <2>2
  <2> HIDE DEF g
  <2> QED BY <2>3
<1>3. 0 \in T /\ \A n \in Nat : n \in T => n + 1 \in T
  <2> HIDE DEF P
  <2> QED BY <1>1, <1>2
<1>4. Len(s) \in T
  <2> HIDE DEF T
  <2> QED BY <1>3, SetInduction
<1>5. P(Len(s))
  BY <1>4
<1> QED BY <1>5 DEF Flat

(* Its values, one after the other. *)
LEMMA FlatSteps ==
    ASSUME NEW S, NEW s \in Seq(Seq(S))
    PROVE  /\ s # <<>> => Flat(s)[1] = s[1]
           /\ \A i \in 1..Len(s) : i # 1 => Flat(s)[i] = Flat(s)[i - 1] \o s[i]
           /\ \A i \in 1..Len(s) : Flat(s)[i] \in Seq(S)
<1> DEFINE F == Flat(s)
           T == {n \in Nat : n + 1 \in 1..Len(s) => F[n + 1] \in Seq(S)}
<1>0. F = [i \in 1..Len(s) |-> IF i = 1 THEN s[i] ELSE F[i - 1] \o s[i]]
  BY FlatExists
<1> HIDE DEF F
<1>1. \A i \in 1..Len(s) : F[i] = IF i = 1 THEN s[i] ELSE F[i - 1] \o s[i]
  BY <1>0
<1>2. \A i \in 1..Len(s) : s[i] \in Seq(S)
  OBVIOUS
<1>3. 0 \in T
  BY <1>1, <1>2
<1>4. ASSUME NEW n \in Nat, n \in T PROVE n + 1 \in T
  <2> SUFFICES ASSUME (n + 1) + 1 \in 1..Len(s) PROVE F[(n + 1) + 1] \in Seq(S)
    OBVIOUS
  <2>1. n + 1 \in 1..Len(s) /\ (n + 1) + 1 # 1 /\ ((n + 1) + 1) - 1 = n + 1
    OBVIOUS
  <2>2. F[n + 1] \in Seq(S)
    BY <1>4, <2>1
  <2>3. F[(n + 1) + 1] = F[n + 1] \o s[(n + 1) + 1]
    BY <1>1, <2>1
  <2> QED BY <1>2, <2>2, <2>3
<1>5. Nat \subseteq T
  <2> HIDE DEF T
  <2> QED BY <1>3, <1>4, SetInduction
<1>6. ASSUME NEW i \in 1..Len(s) PROVE F[i] \in Seq(S)
  <2>1. i - 1 \in Nat /\ (i - 1) + 1 = i
    OBVIOUS
  <2>2. i - 1 \in T
    BY <1>5, <2>1
  <2> QED BY <2>1, <2>2
<1>7. s # <<>> => 1 \in 1..Len(s)
  OBVIOUS
<1> QED BY <1>1, <1>6, <1>7 DEF F

(* The first values depend on the first sequences only. *)
LEMMA FlatPrefix ==
    ASSUME NEW S, NEW s \in Seq(Seq(S)), NEW t \in Seq(Seq(S)), Len(s) <= Len(t),
           \A i \in 1..Len(s) : s[i] = t[i]
    PROVE  \A i \in 1..Len(s) : Flat(s)[i] = Flat(t)[i]
<1> DEFINE F == Flat(s)
           G == Flat(t)
           T == {n \in Nat : n + 1 \in 1..Len(s) => F[n + 1] = G[n + 1]}
<1>0. Len(s) \in Nat /\ Len(t) \in Nat
  OBVIOUS
<1>1. \A i \in 1..Len(s) : F[i] = IF i = 1 THEN s[i] ELSE F[i - 1] \o s[i]
  BY FlatExists
<1>2. \A i \in 1..Len(s) : G[i] = IF i = 1 THEN s[i] ELSE G[i - 1] \o s[i]
  <2>1. \A i \in 1..Len(t) : G[i] = IF i = 1 THEN t[i] ELSE G[i - 1] \o t[i]
    BY FlatExists
  <2> HIDE DEF G
  <2>2. \A i \in 1..Len(s) : i \in 1..Len(t)
    BY <1>0
  <2> QED BY <2>1, <2>2
<1> HIDE DEF F, G
<1>3. 0 \in T
  BY <1>1, <1>2
<1>4. ASSUME NEW n \in Nat, n \in T PROVE n + 1 \in T
  <2> SUFFICES ASSUME (n + 1) + 1 \in 1..Len(s) PROVE F[(n + 1) + 1] = G[(n + 1) + 1]
    OBVIOUS
  <2>1. n + 1 \in 1..Len(s) /\ (n + 1) + 1 # 1 /\ ((n + 1) + 1) - 1 = n + 1
    BY <1>0
  <2>2. F[n + 1] = G[n + 1]
    BY <1>4, <2>1
  <2> QED BY <1>1, <1>2, <2>1, <2>2
<1>5. Nat \subseteq T
  <2> HIDE DEF T
  <2> QED BY <1>3, <1>4, SetInduction
<1>6. ASSUME NEW i \in 1..Len(s) PROVE F[i] = G[i]
  <2>1. i - 1 \in Nat /\ (i - 1) + 1 = i
    OBVIOUS
  <2>2. i - 1 \in T
    BY <1>5, <2>1
  <2> QED BY <2>1, <2>2
<1> QED BY <1>6 DEF F, G

(* What FlattenSeq makes of no sequences, and of one sequence more. *)
LEMMA FlattenAppend ==
    ASSUME NEW S
    PROVE  /\ FlattenSeq(<<>>) = <<>>
           /\ \A s \in Seq(Seq(S)) : FlattenSeq(s) \in Seq(S)
           /\ \A s \in Seq(Seq(S)), x \in Seq(S) : FlattenSeq(Append(s, x)) = FlattenSeq(s) \o x
<1>1. FlattenSeq(<<>>) = <<>>
  BY DEF FlattenSeq
<1>2. ASSUME NEW s \in Seq(Seq(S)) PROVE FlattenSeq(s) \in Seq(S)
  <2>1. CASE s = <<>>
    <3>1. <<>> \in Seq(S)
      OBVIOUS
    <3> QED BY <1>1, <2>1, <3>1
  <2>2. CASE s # <<>>
    <3>1. Len(s) # 0 /\ Len(s) \in 1..Len(s)
      BY <2>2
    <3> QED BY <3>1, FlatSteps, FlattenIs
  <2> QED BY <2>1, <2>2
<1>3. ASSUME NEW s \in Seq(Seq(S)), NEW x \in Seq(S)
      PROVE  FlattenSeq(Append(s, x)) = FlattenSeq(s) \o x
  <2> DEFINE t == Append(s, x)
             n == Len(s)
  <2>1. t \in Seq(Seq(S)) /\ Len(t) = n + 1 /\ n \in Nat
    OBVIOUS
  <2>2. t[n + 1] = x /\ \A i \in 1..n : t[i] = s[i]
    OBVIOUS
  <2> HIDE DEF t
  <2>3. FlattenSeq(t) = Flat(t)[n + 1]
    BY <2>1, FlattenIs
  <2>4. CASE n = 0
    <3>1. s = <<>>
      BY <2>4
    <3>2. Flat(t)[1] = x
      <4>1. t # <<>>
        <5>1. Len(<<>>) = 0 /\ Len(t) = 1
          BY <2>1, <2>4
        <5>2. 1 # 0
          OBVIOUS
        <5> QED BY <5>1, <5>2, Zenon
      <4>2. Flat(t)[1] = t[1]
        BY <2>1, <4>1, FlatSteps
      <4> QED BY <2>2, <2>4, <4>2
    <3>3. <<>> \o x = x
      OBVIOUS
    <3> QED BY <1>1, <2>3, <2>4, <3>1, <3>2, <3>3 DEF t
  <2>5. CASE n # 0
    <3>1. n \in 1..n /\ n + 1 \in 1..(n + 1) /\ n + 1 # 1 /\ (n + 1) - 1 = n /\ n <= n + 1
      BY <2>1, <2>5
    <3>2. Flat(t)[n + 1] = Flat(t)[n] \o x
      BY <2>1, <2>2, <3>1, FlatSteps
    <3>3. Flat(s)[n] = Flat(t)[n]
      BY <2>1, <2>2, <3>1, FlatPrefix
    <3>4. FlattenSeq(s) = Flat(s)[n]
      BY <2>5, FlattenIs
    <3> QED BY <2>3, <3>2, <3>3, <3>4 DEF t
  <2> QED BY <2>4, <2>5
<1> QED BY <1>1, <1>2, <1>3

(* What FlattenSeq makes of two rows of sequences. *)
LEMMA FlattenConcat ==
    ASSUME NEW S, NEW s \in Seq(Seq(S)), NEW t \in Seq(Seq(S))
    PROVE  FlattenSeq(s \o t) = FlattenSeq(s) \o FlattenSeq(t)
<1> DEFINE Q(u) == FlattenSeq(s \o u) = FlattenSeq(s) \o FlattenSeq(u)
           T == {n \in Nat : \A u \in Seq(Seq(S)) : Len(u) = n => Q(u)}
<1>0. FlattenSeq(s) \in Seq(S) /\ \A u \in Seq(Seq(S)) : FlattenSeq(u) \in Seq(S)
  BY FlattenAppend
<1>1. ASSUME NEW u \in Seq(Seq(S)), Len(u) = 0 PROVE Q(u)
  <2>1. u = <<>> /\ s \o u = s
    BY <1>1
  <2>2. FlattenSeq(s) \o <<>> = FlattenSeq(s)
    BY <1>0
  <2> QED BY <2>1, <2>2, FlattenAppend
<1>2. ASSUME NEW n \in Nat, n \in T, NEW u \in Seq(Seq(S)), Len(u) = n + 1 PROVE Q(u)
  <2>1. PICK v \in Seq(Seq(S)), x \in Seq(S) : u = Append(v, x)
    <3>1. u # <<>>
      BY <1>2
    <3> QED BY <3>1, SequenceEmptyOrAppend
  <2>2. Len(v) = n
    BY <1>2, <2>1
  <2>3. FlattenSeq(s \o v) = FlattenSeq(s) \o FlattenSeq(v)
    BY <1>2, <2>2
  <2>4. s \o v \in Seq(Seq(S)) /\ s \o u = Append(s \o v, x)
    BY <2>1
  <2>5. FlattenSeq(s \o u) = (FlattenSeq(s) \o FlattenSeq(v)) \o x
    BY <2>3, <2>4, FlattenAppend
  <2>6. FlattenSeq(u) = FlattenSeq(v) \o x
    BY <2>1, FlattenAppend
  <2>7. (FlattenSeq(s) \o FlattenSeq(v)) \o x = FlattenSeq(s) \o (FlattenSeq(v) \o x)
    <3>2. FlattenSeq(s) \in Seq(S) /\ FlattenSeq(v) \in Seq(S)
      BY <1>0
    <3> QED BY <3>2, ConcatAssociative
  <2> QED BY <2>5, <2>6, <2>7
<1>3. 0 \in T /\ \A n \in Nat : n \in T => n + 1 \in T
  <2> HIDE DEF Q
  <2> QED BY <1>1, <1>2
<1>4. Len(t) \in T
  <2> HIDE DEF T
  <2>1. Len(t) \in Nat
    OBVIOUS
  <2> QED BY <1>3, <2>1, SetInduction
<1> QED BY <1>4
-----------------------------------------------------------------------------
(* The lines of buffers. *)

(* What Lines puts together. *)
LineSeqs(buffers) == [i \in DOMAIN buffers |-> buffers[i].lines]

(* The lines of buffers, one after the other. *)
LEMMA LinesTyped ==
    \A b \in Seq(Buffers) : LineSeqs(b) \in Seq(Seq(Entries)) /\ Lines(b) \in Seq(Entries)
<1> SUFFICES ASSUME NEW b \in Seq(Buffers)
             PROVE  LineSeqs(b) \in Seq(Seq(Entries)) /\ Lines(b) \in Seq(Entries)
  OBVIOUS
<1>1. \A i \in 1..Len(b) : b[i].lines \in Seq(Entries)
  <2>1. \A i \in 1..Len(b) : b[i] \in Buffers
    OBVIOUS
  <2>2. \A x \in Buffers : x.lines \in Seq(Entries)
    BY DEF Buffers
  <2> QED BY <2>1, <2>2
<1>2. LineSeqs(b) \in [1..Len(b) -> Seq(Entries)] /\ Len(b) \in Nat
  BY <1>1 DEF LineSeqs
<1>3. LineSeqs(b) \in Seq(Seq(Entries))
  BY <1>2, SeqDef
<1> QED BY <1>3, FlattenAppend DEF Lines, LineSeqs

(* No buffers have no lines. *)
LEMMA NoLines == Lines(<<>>) = <<>>
<1>1. LineSeqs(<<>>) = <<>>
  BY DEF LineSeqs
<1> QED BY <1>1, FlattenAppend DEF Lines, LineSeqs

(* The lines of a buffer behind others come behind theirs. *)
LEMMA LinesAppend ==
    \A b \in Seq(Buffers), x \in Buffers : Lines(Append(b, x)) = Lines(b) \o x.lines
<1> SUFFICES ASSUME NEW b \in Seq(Buffers), NEW x \in Buffers
             PROVE  Lines(Append(b, x)) = Lines(b) \o x.lines
  OBVIOUS
<1>1. x.lines \in Seq(Entries)
  BY DEF Buffers
<1>2. LineSeqs(b) \in Seq(Seq(Entries)) /\ Len(b) \in Nat
  BY LinesTyped
<1>3. LineSeqs(Append(b, x)) = Append(LineSeqs(b), x.lines)
  <2>1. LineSeqs(Append(b, x)) \in Seq(Seq(Entries))
    <3>1. Append(b, x) \in Seq(Buffers)
      OBVIOUS
    <3> QED BY <3>1, LinesTyped
  <2>2. Append(LineSeqs(b), x.lines) \in Seq(Seq(Entries))
    BY <1>1, <1>2
  <2>3. Len(LineSeqs(b)) = Len(b) /\ Len(LineSeqs(Append(b, x))) = Len(b) + 1
    BY DEF LineSeqs
  <2>4. \A i \in 1..(Len(b) + 1) : LineSeqs(Append(b, x))[i] = Append(LineSeqs(b), x.lines)[i]
    <3> TAKE i \in 1..(Len(b) + 1)
    <3>1. LineSeqs(Append(b, x))[i] = Append(b, x)[i].lines
      BY DEF LineSeqs
    <3>2. CASE i = Len(b) + 1
      BY <1>1, <1>2, <2>3, <3>1, <3>2
    <3>3. CASE i # Len(b) + 1
      <4>1. i \in 1..Len(b) /\ Append(b, x)[i] = b[i]
        BY <1>2, <3>3
      <4>2. LineSeqs(b)[i] = b[i].lines
        BY <4>1 DEF LineSeqs
      <4>3. Append(LineSeqs(b), x.lines)[i] = LineSeqs(b)[i]
        BY <1>1, <1>2, <2>3, <4>1
      <4> QED BY <3>1, <4>1, <4>2, <4>3
    <3> QED BY <3>2, <3>3
  <2>5. Len(Append(LineSeqs(b), x.lines)) = Len(b) + 1
    BY <1>1, <1>2, <2>3
  <2> QED BY <2>1, <2>2, <2>3, <2>4, <2>5, SeqEqual
<1> QED BY <1>1, <1>2, <1>3, FlattenAppend DEF Lines, LineSeqs

(* The lines of two rows of buffers. *)
LEMMA LinesConcat ==
    \A b, c \in Seq(Buffers) : Lines(b \o c) = Lines(b) \o Lines(c)
<1> SUFFICES ASSUME NEW b \in Seq(Buffers), NEW c \in Seq(Buffers)
             PROVE  Lines(b \o c) = Lines(b) \o Lines(c)
  OBVIOUS
<1>1. LineSeqs(b) \in Seq(Seq(Entries)) /\ LineSeqs(c) \in Seq(Seq(Entries))
  BY LinesTyped
<1>2. Len(b) \in Nat /\ Len(c) \in Nat /\ b \o c \in Seq(Buffers) /\ Len(b \o c) = Len(b) + Len(c)
  OBVIOUS
<1>3. LineSeqs(b \o c) = LineSeqs(b) \o LineSeqs(c)
  <2>1. LineSeqs(b \o c) \in Seq(Seq(Entries))
    BY <1>2, LinesTyped
  <2>2. LineSeqs(b) \o LineSeqs(c) \in Seq(Seq(Entries))
    BY <1>1
  <2>3. /\ Len(LineSeqs(b)) = Len(b) /\ Len(LineSeqs(c)) = Len(c)
        /\ Len(LineSeqs(b \o c)) = Len(b) + Len(c)
    BY <1>2 DEF LineSeqs
  <2>4. \A i \in 1..(Len(b) + Len(c)) : LineSeqs(b \o c)[i] = (LineSeqs(b) \o LineSeqs(c))[i]
    <3> TAKE i \in 1..(Len(b) + Len(c))
    <3>1. LineSeqs(b \o c)[i] = (b \o c)[i].lines
      BY <1>2 DEF LineSeqs
    <3>2. CASE i <= Len(b)
      <4>1. i \in 1..Len(b) /\ (b \o c)[i] = b[i]
        BY <1>2, <3>2
      <4>2. LineSeqs(b)[i] = b[i].lines
        BY <4>1 DEF LineSeqs
      <4>3. (LineSeqs(b) \o LineSeqs(c))[i] = LineSeqs(b)[i]
        BY <1>1, <2>3, <4>1
      <4> QED BY <3>1, <4>1, <4>2, <4>3
    <3>3. CASE ~(i <= Len(b))
      <4>1. i - Len(b) \in 1..Len(c) /\ (b \o c)[i] = c[i - Len(b)]
        BY <1>2, <3>3
      <4>2. LineSeqs(c)[i - Len(b)] = c[i - Len(b)].lines
        BY <4>1 DEF LineSeqs
      <4>3. (LineSeqs(b) \o LineSeqs(c))[i] = LineSeqs(c)[i - Len(b)]
        BY <1>1, <1>2, <2>3, <3>3
      <4> QED BY <3>1, <4>1, <4>2, <4>3
    <3> QED BY <3>2, <3>3
  <2>5. Len(LineSeqs(b) \o LineSeqs(c)) = Len(b) + Len(c)
    <3>1. Len(LineSeqs(b) \o LineSeqs(c)) = Len(LineSeqs(b)) + Len(LineSeqs(c))
      BY <1>1, ConcatProperties, Zenon
    <3> QED BY <2>3, <3>1, Zenon
  <2> QED BY <2>1, <2>2, <2>3, <2>4, <2>5, SeqEqual
<1> QED BY <1>1, <1>3, FlattenConcat DEF Lines, LineSeqs

(* A sequence put together of two comes apart into them. *)
LEMMA CutApart ==
    ASSUME NEW S, NEW s \in Seq(S), NEW t \in Seq(S)
    PROVE  /\ s \o t \in Seq(S) /\ Len(s \o t) = Len(s) + Len(t)
           /\ Len(s) \in Nat /\ Len(t) \in Nat
           /\ SubSeq(s \o t, 1, Len(s)) = s
           /\ SubSeq(s \o t, Len(s) + 1, Len(s \o t)) = t
<1>1. /\ s \o t \in Seq(S) /\ Len(s \o t) = Len(s) + Len(t) /\ Len(s) \in Nat /\ Len(t) \in Nat
  OBVIOUS
<1> QED BY <1>1, SubSeqOfConcat1, SubSeqOfConcat2, SubSeqFull
-----------------------------------------------------------------------------
(* AsyncLogging implements LogStream. *)

(* What the order of the lines needs besides Inv: a buffer is never        *)
(* emptier than empty, so that a line which fits would fit an empty one,   *)
(* and nothing is written before the thread opens its file.                *)
StreamInv == /\ currentBuffer_.length >= 0
             /\ threadPc \in {"none", "begin"} => output.appended = <<>>

(* The rest of the batch. *)
ToWrite == Lines(SubSeq(bufferToWrite, written + 1, Len(bufferToWrite)))

(* Lines of the batch, of the full buffers and of the current one. *)
LEMMA PendingIs ==
    ASSUME Inv
    PROVE  /\ Pending = (ToWrite \o Lines(buffers_)) \o currentBuffer_.lines
           /\ ToWrite \in Seq(Entries) /\ Lines(buffers_) \in Seq(Entries)
           /\ currentBuffer_.lines \in Seq(Entries)
           /\ Pending \in Seq(Entries)
<1>1. SubSeq(bufferToWrite, written + 1, Len(bufferToWrite)) \in Seq(Buffers)
  BY DEF Inv, BackTyped
<1>2. /\ ToWrite \in Seq(Entries) /\ Lines(buffers_) \in Seq(Entries)
      /\ currentBuffer_.lines \in Seq(Entries)
  BY <1>1, LinesTyped DEF Inv, FrontTyped, Buffers, ToWrite
<1>3. Pending = (ToWrite \o Lines(buffers_)) \o currentBuffer_.lines
  BY DEF Pending, ToWrite
<1> QED BY <1>2, <1>3

(* A line is given: it comes last, in the current buffer or in a new one,  *)
(* or is too long for either.                                              *)
LEMMA AppendLinePuts ==
    ASSUME Inv, StreamInv, NEW len \in Lengths, AppendLine(len)
    PROVE  LS!Put(len)
<1> DEFINE line == [id |-> Len(given) + 1, len |-> len]
           A == ToWrite
           B == Lines(buffers_)
           C == currentBuffer_.lines
<1>1. line \in Entries /\ len \in Nat /\ line.len = len
  BY AsyncLoggingAssumption DEF Entries, Inv, FrontTyped
<1>2. A \in Seq(Entries) /\ B \in Seq(Entries) /\ C \in Seq(Entries) /\ Pending = (A \o B) \o C
  BY PendingIs
<1>3. ToWrite' = A /\ output' = output /\ given' = Append(given, len)
  BY DEF AppendLine, back, ToWrite
<1>4. Pending' = (ToWrite' \o Lines(buffers_')) \o currentBuffer_'.lines
  BY DEF Pending, ToWrite
<1>5. /\ currentBuffer_ \in Buffers /\ currentBuffer_.length \in Nat /\ buffers_ \in Seq(Buffers)
      /\ BufferSize \in Nat \ {0}
  BY AsyncLoggingAssumption DEF Inv, FrontTyped, Buffers, StreamInv
<1>6. Pending' = IF len < BufferSize THEN Append(Pending, line) ELSE Pending
  <2>1. CASE avail(currentBuffer_) > len
    <3>1. currentBuffer_' = Appended(currentBuffer_, line) /\ buffers_' = buffers_
      BY <2>1 DEF AppendLine
    <3>2. currentBuffer_'.lines = Append(C, line)
      BY <1>1, <2>1, <3>1 DEF Appended
    <3>3. len < BufferSize
      BY <1>1, <1>5, <2>1 DEF avail
    <3> HIDE DEF line, A, B, C
    <3>4. (A \o B) \o Append(C, line) = Append((A \o B) \o C, line)
      BY <1>1, <1>2
    <3>5. Pending' = (A \o B) \o Append(C, line)
      BY <1>3, <1>4, <3>1, <3>2 DEF B
    <3> QED BY <1>2, <3>3, <3>4, <3>5
  <2>2. CASE ~(avail(currentBuffer_) > len)
    <3>1. /\ buffers_' = Append(buffers_, currentBuffer_)
          /\ currentBuffer_' = Appended(EmptyBuffer, line)
      BY <2>2, EmptyBufferTyped DEF AppendLine, Inv, FrontTyped
    <3>2. Lines(buffers_') = B \o C
      BY <1>5, <3>1, LinesAppend
    <3>3. /\ len < BufferSize => currentBuffer_'.lines = <<line>>
          /\ ~(len < BufferSize) => currentBuffer_'.lines = <<>>
      <4>1. avail(EmptyBuffer) = BufferSize /\ EmptyBuffer.lines = <<>>
        BY <1>5 DEF avail, EmptyBuffer
      <4>2. Append(<<>>, line) = <<line>>
        OBVIOUS
      <4>3. BufferSize > len <=> len < BufferSize
        BY <1>1, <1>5
      <4> QED BY <1>1, <3>1, <4>1, <4>2, <4>3 DEF Appended
    <3> HIDE DEF line, A, B, C
    <3>4. A \o (B \o C) = (A \o B) \o C
      BY <1>2, ConcatAssociative
    <3>5. Pending' = Pending \o currentBuffer_'.lines
      BY <1>2, <1>3, <1>4, <3>2, <3>4
    <3>6. Pending \in Seq(Entries)
      BY PendingIs
    <3>7. Pending \o <<line>> = Append(Pending, line) /\ Pending \o <<>> = Pending
      BY <1>1, <3>6
    <3> QED BY <3>3, <3>5, <3>7
  <2> QED BY <2>1, <2>2
<1> QED BY <1>3, <1>6 DEF LS!Put

(* The batch is taken from the front end whole. *)
LEMMA SwapKeepsOrder ==
    ASSUME Inv, Swap
    PROVE  Pending' = Pending
<1> DEFINE B == Lines(buffers_)
           C == currentBuffer_.lines
<1>1. B \in Seq(Entries) /\ C \in Seq(Entries) /\ Pending = (ToWrite \o B) \o C
  BY PendingIs
<1>2. /\ newBuffer1 = EmptyBuffer /\ bufferToWrite = <<>> /\ written = 0
  BY DEF Swap, Inv, SparesHeld, InBatch
<1>3. ToWrite = <<>>
  <2>1. SubSeq(<<>>, 0 + 1, Len(<<>>)) = <<>>
    OBVIOUS
  <2> QED BY <1>2, <2>1, NoLines DEF ToWrite
<1>4. /\ bufferToWrite' = Append(buffers_, currentBuffer_) /\ written' = 0
      /\ buffers_' = <<>> /\ currentBuffer_' = EmptyBuffer
  BY <1>2 DEF Swap
<1>5. ToWrite' = B \o C
  <2>1. buffers_ \in Seq(Buffers) /\ currentBuffer_ \in Buffers
    BY DEF Inv, FrontTyped
  <2>2. Append(buffers_, currentBuffer_) \in Seq(Buffers)
    BY <2>1
  <2>3. SubSeq(bufferToWrite', written' + 1, Len(bufferToWrite')) = Append(buffers_, currentBuffer_)
    BY <1>4, <2>2, SubSeqFull
  <2> QED BY <2>1, <2>3, LinesAppend DEF ToWrite
<1>6. Lines(buffers_') = <<>> /\ currentBuffer_'.lines = <<>>
  BY <1>4, NoLines DEF EmptyBuffer
<1>7. Pending' = (ToWrite' \o Lines(buffers_')) \o currentBuffer_'.lines
  BY DEF Pending, ToWrite
<1> HIDE DEF B, C
<1>8. ((B \o C) \o <<>>) \o <<>> = (<<>> \o B) \o C
  BY <1>1
<1> QED BY <1>1, <1>3, <1>5, <1>6, <1>7, <1>8

(* The end of the batch is thrown away: those lines and no others. *)
LEMMA DropCuts ==
    ASSUME Inv, Drop
    PROVE  \/ UNCHANGED <<given, Pending, output.appended>>
           \/ \E n, m \in 0..Len(Pending) : n <= m /\ LS!Overload(n, m)
<1>0. UNCHANGED <<given, buffers_, currentBuffer_>> /\ written = 0 /\ written' = 0
  BY DEF Drop, front, Inv, SparesHeld
<1>1. CASE ~(Len(bufferToWrite) > MaxBatch)
  BY <1>0, <1>1 DEF Drop, Pending
<1>2. CASE Len(bufferToWrite) > MaxBatch
  <2> DEFINE kept == SubSeq(bufferToWrite, 1, 2)
             rest == SubSeq(bufferToWrite, 3, Len(bufferToWrite))
             K == Lines(kept)
             R == Lines(rest)
             B == Lines(buffers_)
             C == currentBuffer_.lines
             F == B \o C
  <2>1. bufferToWrite \in Seq(Buffers) /\ Len(bufferToWrite) \in Nat /\ Len(bufferToWrite) >= 2
    BY <1>2, AsyncLoggingAssumption DEF Inv, BackTyped
  <2>2. /\ kept \in Seq(Buffers) /\ rest \in Seq(Buffers) /\ kept \o rest = bufferToWrite
    <3>1. 2 \in 0..Len(bufferToWrite)
      BY <2>1
    <3> QED BY <2>1, <3>1, CutInTwo
  <2>3. bufferToWrite' = kept /\ output' \in append(output, <<DropLog>>, DropLength, now)
    BY <1>2 DEF Drop
  <2>4. output'.appended = Append(output.appended, DropLog)
    <3>1. /\ <<DropLog>> \in Seq(Entries) /\ DropLength \in Int /\ now \in Nat
          /\ DropLog \in Entries /\ output.appended \in Seq(Entries)
      BY AsyncLoggingAssumption DEF DropLog, Entries, Inv, BackTyped, LogInv, Whole, LogFiles
    <3>2. output'.appended = output.appended \o <<DropLog>>
      BY <2>3, <3>1, AppendWhole DEF Inv, LogInv
    <3> QED BY <3>1, <3>2
  <2>5. ToWrite = K \o R /\ ToWrite' = K
    <3> HIDE DEF kept, rest
    <3>1. /\ SubSeq(bufferToWrite, 1, Len(bufferToWrite)) = bufferToWrite
          /\ SubSeq(kept, 1, Len(kept)) = kept
      BY <2>1, <2>2, SubSeqFull
    <3>2. 0 + 1 = 1
      OBVIOUS
    <3>3. ToWrite = Lines(bufferToWrite) /\ ToWrite' = Lines(kept)
      BY <1>0, <2>3, <3>1, <3>2 DEF ToWrite
    <3> QED BY <2>2, <3>3, LinesConcat
  <2>6. K \in Seq(Entries) /\ R \in Seq(Entries)
    BY <2>2, LinesTyped
  <2>7. B \in Seq(Entries) /\ C \in Seq(Entries) /\ Pending = (ToWrite \o B) \o C
    BY PendingIs
  <2>8. Pending' = (ToWrite' \o Lines(buffers_')) \o currentBuffer_'.lines
    BY DEF Pending, ToWrite
  <2>9. Lines(buffers_') = B /\ currentBuffer_'.lines = C
    BY <1>0
  <2> HIDE DEF K, R, B, C
  <2>10. Pending' = K \o F /\ F \in Seq(Entries)
    <3>1. F \in Seq(Entries)
      BY <2>7
    <3>2. (K \o B) \o C = K \o (B \o C)
      BY <2>6, <2>7, ConcatAssociative
    <3> QED BY <2>5, <2>8, <2>9, <3>1, <3>2
  <2>11. Pending = (K \o R) \o F /\ Pending = K \o (R \o F) /\ R \o F \in Seq(Entries)
    <3>1. K \o R \in Seq(Entries) /\ R \o F \in Seq(Entries)
      BY <2>6, <2>10
    <3>2. ((K \o R) \o B) \o C = (K \o R) \o (B \o C)
      <4>1. \A s \in Seq(Entries) : (s \o B) \o C = s \o (B \o C)
        BY <2>7, Regroup
      <4> QED BY <3>1, <4>1
    <3>3. (K \o R) \o F = K \o (R \o F)
      BY <2>6, <2>10, ConcatAssociative
    <3> QED BY <2>5, <2>7, <3>1, <3>2, <3>3
  <2> HIDE DEF F
  <2> DEFINE n == Len(K)
             m == Len(K \o R)
  <2>12. SubSeq(Pending, 1, n) = K
    BY <2>6, <2>11, CutApart
  <2>13. SubSeq(Pending, m + 1, Len(Pending)) = F
    <3>1. K \o R \in Seq(Entries)
      BY <2>6
    <3> QED BY <2>10, <2>11, <3>1, CutApart
  <2>14. n \in 0..Len(Pending) /\ m \in 0..Len(Pending) /\ n <= m
    <3>1. Len(K) \in Nat /\ Len(R) \in Nat /\ m = Len(K) + Len(R)
      BY <2>6, CutApart
    <3>2. Len(F) \in Nat /\ Len(Pending) = m + Len(F)
      <4>1. K \o R \in Seq(Entries)
        BY <2>6
      <4> QED BY <2>10, <2>11, <4>1, CutApart
    <3> HIDE DEF m
    <3> QED BY <3>1, <3>2
  <2> HIDE DEF n, m
  <2>15. LS!Overload(n, m)
    BY <1>0, <2>4, <2>10, <2>12, <2>13 DEF LS!Overload
  <2> QED BY <2>14, <2>15
<1> QED BY <1>1, <1>2

(* A buffer is written: its lines are the next ones. *)
LEMMA WriteEmits ==
    ASSUME Inv, WriteBuffer
    PROVE  \/ UNCHANGED <<given, Pending, output.appended>>
           \/ \E n \in 1..Len(Pending) : LS!Emit(n)
<1> DEFINE buffer == bufferToWrite[written + 1]
           rest == SubSeq(bufferToWrite, written + 2, Len(bufferToWrite))
           X == buffer.lines
           R == Lines(rest)
           B == Lines(buffers_)
           C == currentBuffer_.lines
           F == R \o (B \o C)
<1>1. UNCHANGED <<given, buffers_, currentBuffer_, bufferToWrite>> /\ written' = written + 1
  BY DEF WriteBuffer, front
<1>2. /\ bufferToWrite \in Seq(Buffers) /\ Len(bufferToWrite) \in Nat
      /\ written \in Nat /\ written + 1 \in 1..Len(bufferToWrite)
  BY DEF WriteBuffer, Inv, BackTyped
<1>3. buffer \in Buffers /\ rest \in Seq(Buffers)
  BY <1>2
<1>4. X \in Seq(Entries) /\ buffer.length \in Int
  BY <1>3 DEF Buffers
<1>5. output'.appended = output.appended \o X /\ output.appended \in Seq(Entries)
  <2>1. now \in Nat /\ output.appended \in Seq(Entries) /\ Whole(output)
    BY DEF Inv, BackTyped, LogInv, Whole, LogFiles
  <2>2. output' \in append(output, X, buffer.length, now)
    BY DEF WriteBuffer
  <2> HIDE DEF X, buffer
  <2> QED BY <1>4, <2>1, <2>2, AppendWhole
<1>6. ToWrite = X \o R /\ ToWrite' = R
  <2>1. SubSeq(bufferToWrite, written + 1, Len(bufferToWrite)) = <<buffer>> \o rest
    <3>1. /\ Len(bufferToWrite) \in (written + 1)..Len(bufferToWrite)
          /\ (written + 1) + 1 = written + 2
      BY <1>2
    <3>2. SubSeq(bufferToWrite, written + 1, Len(bufferToWrite))
            = <<bufferToWrite[written + 1]>>
                \o SubSeq(bufferToWrite, (written + 1) + 1, Len(bufferToWrite))
      BY <1>2, <3>1, SubSeqRecursiveFirst
    <3> QED BY <3>1, <3>2
  <2>2. SubSeq(bufferToWrite', written' + 1, Len(bufferToWrite')) = rest
    <3>1. (written + 1) + 1 = written + 2
      BY <1>2
    <3> QED BY <1>1, <3>1
  <2> HIDE DEF buffer, rest
  <2>3. Lines(<<buffer>>) = X
    <3>1. Append(<<>>, buffer) = <<buffer>> /\ <<>> \in Seq(Buffers) /\ <<>> \o X = X
      BY <1>3, <1>4
    <3> QED BY <1>3, <3>1, LinesAppend, NoLines
  <2>4. Lines(<<buffer>> \o rest) = X \o R
    <3>1. <<buffer>> \in Seq(Buffers)
      BY <1>3
    <3> QED BY <1>3, <2>3, <3>1, LinesConcat
  <2> QED BY <2>1, <2>2, <2>4 DEF ToWrite
<1>7. R \in Seq(Entries)
  BY <1>3, LinesTyped
<1>8. B \in Seq(Entries) /\ C \in Seq(Entries) /\ Pending = (ToWrite \o B) \o C
  BY PendingIs
<1>9. Pending' = (ToWrite' \o Lines(buffers_')) \o currentBuffer_'.lines
  BY DEF Pending, ToWrite
<1>10. Lines(buffers_') = B /\ currentBuffer_'.lines = C
  BY <1>1
<1> HIDE DEF X, R, B, C
<1>11. Pending' = F /\ F \in Seq(Entries)
  <2>1. (R \o B) \o C = R \o (B \o C)
    BY <1>7, <1>8, ConcatAssociative
  <2>2. B \o C \in Seq(Entries)
    BY <1>8
  <2> QED BY <1>6, <1>7, <1>9, <1>10, <2>1, <2>2
<1>12. Pending = X \o F
  <2>1. B \o C \in Seq(Entries) /\ X \o R \in Seq(Entries)
    BY <1>4, <1>7, <1>8
  <2>2. ((X \o R) \o B) \o C = (X \o R) \o (B \o C)
    <3>1. \A s \in Seq(Entries) : (s \o B) \o C = s \o (B \o C)
      BY <1>8, Regroup
    <3> QED BY <2>1, <3>1
  <2>3. (X \o R) \o (B \o C) = X \o (R \o (B \o C))
    BY <1>4, <1>7, <2>1, ConcatAssociative
  <2> QED BY <1>6, <1>8, <2>2, <2>3
<1> HIDE DEF F
<1>13. CASE X = <<>>
  <2>1. <<>> \o F = F /\ output.appended \o <<>> = output.appended
    BY <1>5, <1>11
  <2> QED BY <1>1, <1>5, <1>11, <1>12, <1>13, <2>1
<1>14. CASE X # <<>>
  <2> DEFINE n == Len(X)
  <2>1. /\ SubSeq(Pending, 1, n) = X /\ SubSeq(Pending, n + 1, Len(Pending)) = F
        /\ Len(X) \in Nat /\ Len(F) \in Nat /\ Len(Pending) = n + Len(F)
    BY <1>4, <1>11, <1>12, CutApart
  <2>2. n # 0
    BY <1>4, <1>14
  <2>3. n \in 1..Len(Pending)
    BY <2>1, <2>2
  <2> HIDE DEF n
  <2>4. LS!Emit(n)
    BY <1>1, <1>5, <1>11, <2>1 DEF LS!Emit
  <2> QED BY <2>3, <2>4
<1> QED BY <1>13, <1>14

(* When the batch is done, nothing of it is left to write. *)
LEMMA RecycleKeepsOrder ==
    ASSUME Inv, Recycle
    PROVE  Pending' = Pending
<1>1. /\ UNCHANGED <<buffers_, currentBuffer_>> /\ bufferToWrite' = <<>> /\ written' = 0
      /\ written = Len(bufferToWrite)
  BY DEF Recycle, front
<1>2. bufferToWrite \in Seq(Buffers) /\ Len(bufferToWrite) \in Nat
  BY DEF Inv, BackTyped
<1>3. SubSeq(bufferToWrite, written + 1, Len(bufferToWrite)) = <<>>
  BY <1>1, <1>2
<1>4. SubSeq(<<>>, 0 + 1, Len(<<>>)) = <<>>
  OBVIOUS
<1> QED BY <1>1, <1>3, <1>4 DEF Pending

(* StreamInv holds throughout. *)
THEOREM StreamInvariance == Spec => []StreamInv
<1>1. Init => StreamInv
  BY OpenedWhole DEF Init, StreamInv, EmptyBuffer
<1>2. Inv /\ StreamInv /\ [Next]_vars => StreamInv'
  <2> SUFFICES ASSUME Inv, StreamInv, [Next]_vars PROVE StreamInv'
    OBVIOUS
  <2>1. ASSUME NEW len \in Lengths, AppendLine(len) PROVE StreamInv'
    <3> DEFINE line == [id |-> Len(given) + 1, len |-> len]
    <3>1. len \in Nat /\ line.len = len
      BY AsyncLoggingAssumption
    <3>2. currentBuffer_' \in {Appended(currentBuffer_, line), Appended(EmptyBuffer, line)}
      BY <2>1, EmptyBufferTyped DEF AppendLine, Inv, FrontTyped
    <3>3. ASSUME NEW b \in Buffers, b.length >= 0 PROVE Appended(b, line).length >= 0
      <4>1. b.length + len >= 0
        BY <3>1, <3>3 DEF Buffers
      <4> QED BY <3>1, <3>3, <4>1 DEF Appended
    <3>4. EmptyBuffer.length >= 0
      BY EmptyBufferTyped
    <3> HIDE DEF line
    <3>5. currentBuffer_'.length >= 0
      BY <3>2, <3>3, <3>4, EmptyBufferTyped DEF Inv, FrontTyped, StreamInv
    <3> QED BY <2>1, <3>5 DEF AppendLine, back, StreamInv
  <2>2. CASE Start \/ Stop \/ Join \/ Tick \/ UNCHANGED vars
    BY <2>2 DEF Start, Stop, Join, Tick, vars, front, back, StreamInv, Inv, SparesHeld
  <2>3. CASE Begin \/ While
    BY <2>3 DEF Begin, While, front, StreamInv
  <2>4. CASE Swap
    <3>1. currentBuffer_' = EmptyBuffer /\ threadPc' = "drop"
      BY <2>4 DEF Swap, Inv, SparesHeld, InBatch
    <3> QED BY <3>1, EmptyBufferTyped DEF StreamInv
  <2>5. CASE Drop \/ WriteBuffer \/ Recycle
    BY <2>5 DEF Drop, WriteBuffer, Recycle, front, StreamInv
  <2> QED BY <2>1, <2>2, <2>3, <2>4, <2>5 DEF Next, BackEnd
<1> QED BY <1>1, <1>2, Invariance, PTL DEF Spec

(* AsyncLogging implements LogStream: whatever buffers are filled, swapped, *)
(* written and recycled, LogFile::append is given the lines in the order in *)
(* which append was called, each once, and only an overload or a line as    *)
(* long as a buffer loses any before that call.                             *)
THEOREM LinesComeInOrder == Spec => StreamInOrder
<1>1. Init => LS!Init
  <2> SUFFICES ASSUME Init PROVE LS!Init
    OBVIOUS
  <2>1. SubSeq(<<>>, 0 + 1, Len(<<>>)) = <<>> /\ (<<>> \o <<>>) \o <<>> = <<>>
    OBVIOUS
  <2>2. Pending = <<>>
    BY <2>1, NoLines DEF Init, Pending, EmptyBuffer
  <2>3. given = <<>> /\ output.appended = <<>>
    BY OpenedWhole DEF Init
  <2> QED BY <2>2, <2>3 DEF LS!Init
<1>2. Inv /\ StreamInv /\ [Next]_vars => [LS!Next]_<<given, Pending, output.appended>>
  <2> SUFFICES ASSUME Inv, StreamInv, [Next]_vars
               PROVE  LS!Next \/ UNCHANGED <<given, Pending, output.appended>>
    OBVIOUS
  <2>1. ASSUME NEW len \in Lengths, AppendLine(len) PROVE LS!Next
    BY <2>1, AppendLinePuts DEF LS!Next
  <2>2. CASE Start \/ Stop \/ Join \/ Tick \/ UNCHANGED vars
    BY <2>2 DEF Start, Stop, Join, Tick, vars, front, back, Pending
  <2>3. CASE Begin
    <3>1. output'.appended = output.appended
      BY <2>3, OpenedWhole DEF Begin, StreamInv, Inv, BackTyped
    <3> QED BY <2>3, <3>1 DEF Begin, front, Pending
  <2>4. CASE While
    <3>1. output'.appended = output.appended
      BY <2>4, FlushWhole DEF While, Inv, LogInv
    <3> QED BY <2>4, <3>1 DEF While, front, Pending
  <2>5. CASE Swap
    BY <2>5, SwapKeepsOrder DEF Swap
  <2>6. CASE Drop
    BY <2>6, DropCuts DEF LS!Next
  <2>7. CASE WriteBuffer
    BY <2>7, WriteEmits DEF LS!Next
  <2>8. CASE Recycle
    <3>1. output'.appended = output.appended
      BY <2>8, FlushWhole DEF Recycle, Inv, LogInv
    <3> QED BY <2>8, <3>1, RecycleKeepsOrder DEF Recycle, front
  <2> QED BY <2>1, <2>2, <2>3, <2>4, <2>5, <2>6, <2>7, <2>8 DEF Next, BackEnd
<1> QED BY <1>1, <1>2, Invariance, StreamInvariance, PTL DEF Spec, StreamInOrder, LS!Spec
=============================================================================
