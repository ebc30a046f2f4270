------------------------------- MODULE LogFile -------------------------------
(***************************************************************************)
(* src/LogFile.cpp and src/FileUtil.cpp: a log that goes on in a new file  *)
(* when the current one has rollSize_ bytes or a new day has begun.  The   *)
(* operators map the LogFile f to the one a method leaves behind; now is   *)
(* what time(NULL) returns.                                                *)
(*                                                                         *)
(* Of the files there is one sequence of entries that reached the kernel   *)
(* and one of those in stdio's buffer of the current file.  The disk takes *)
(* what it is given.                                                       *)
(***************************************************************************)
EXTENDS Integers, Sequences

CONSTANTS rollSize_, flushInterval_, checkEveryN_,
          Day,          \* the seconds of a day, kept small
          StdioBuffer   \* how many entries AppendFile's buffer_ may hold

ASSUME LogFileAssumption ==
    /\ rollSize_ \in Nat /\ flushInterval_ \in Nat
    /\ checkEveryN_ \in Nat \ {0} /\ Day \in Nat \ {0} /\ StdioBuffer \in Nat

Period(now) == (now \div Day) * Day

\* new AppendFile in place of the one before.  AppendFile has no destructor:
\* what is in the buffer of the old file is neither written nor kept.  fopen
\* succeeds here; when it fails, assert(fp_) ends the program at this point.
AppendFile(f) == [f EXCEPT !.writtenBytes_ = 0, !.buffered = <<>>, !.files = @ + 1]

\* A file is named after the second it is opened in, so that none is opened
\* in the second of the last roll.
rollFile(f, now) ==
    IF now > f.lastRoll_
    THEN AppendFile([f EXCEPT !.lastRoll_ = now, !.lastFlush_ = now, !.startTime_ = Period(now)])
    ELSE f

\* LogFile::LogFile; appended is the history of what append was given.
Opened(now) == rollFile([lastRoll_ |-> 0, lastFlush_ |-> 0, startTime_ |-> 0, count_ |-> 0,
                         writtenBytes_ |-> 0, buffered |-> <<>>, disk |-> <<>>,
                         appended |-> <<>>, files |-> 0], now)

flush(f) == [f EXCEPT !.disk = @ \o f.buffered, !.buffered = <<>>]

\* AppendFile::append: fwrite leaves at most a buffer full of entries in
\* memory, the last ones, and writes the others.
AppendFileAppend(f, entries, len) ==
    LET all == f.buffered \o entries
    IN {[f EXCEPT !.writtenBytes_ = @ + len,
                  !.appended = @ \o entries,
                  !.disk = @ \o SubSeq(all, 1, n),
                  !.buffered = SubSeq(all, n + 1, Len(all))]
          : n \in {k \in 0..Len(all) : Len(all) - k <= StdioBuffer}}

\* append_unlocked, behind the call of file_->append
Checked(f, now) ==
    LET counted == [f EXCEPT !.count_ = @ + 1]
        checked == [f EXCEPT !.count_ = 0]
    IN IF f.writtenBytes_ > rollSize_ THEN rollFile(f, now)
       ELSE IF counted.count_ < checkEveryN_ THEN counted
       ELSE IF Period(now) # f.startTime_ THEN rollFile(checked, now)
       ELSE IF now - f.lastFlush_ > flushInterval_ THEN flush([checked EXCEPT !.lastFlush_ = now])
       ELSE checked

\* The LogFiles that append may leave behind.
append(f, entries, len, now) == {Checked(g, now) : g \in AppendFileAppend(f, entries, len)}
=============================================================================
