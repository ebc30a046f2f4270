------------------------------ MODULE LogStream ------------------------------
(***************************************************************************)
(* What src/AsyncLogging.h promises to those who log: the lines come out   *)
(* in the order in which they were given, each once.  A line that is too   *)
(* long for a buffer is lost; under overload lines are dropped that follow *)
(* one another, and the stream says so.  Nothing is said of threads, of    *)
(* buffers or of files.                                                    *)
(***************************************************************************)
EXTENDS Naturals, Sequences

CONSTANTS Lengths,   \* the lengths of lines
          Size,      \* a line as long as this is too long
          Gap        \* the entry that says that lines were dropped

VARIABLES given,     \* the lengths of the lines given
          pending,   \* lines that are still to come out
          out        \* what came out

Init == given = <<>> /\ pending = <<>> /\ out = <<>>

Put(len) == /\ given' = Append(given, len)
            /\ pending' = IF len < Size THEN Append(pending, [id |-> Len(given) + 1, len |-> len])
                                        ELSE pending
            /\ UNCHANGED out

\* The next n lines come out.
Emit(n) == /\ out' = out \o SubSeq(pending, 1, n)
           /\ pending' = SubSeq(pending, n + 1, Len(pending))
           /\ UNCHANGED given

\* The lines behind the first n, up to the m-th, are dropped.
Overload(n, m) == /\ out' = Append(out, Gap)
                  /\ pending' = SubSeq(pending, 1, n) \o SubSeq(pending, m + 1, Len(pending))
                  /\ UNCHANGED given

Next == \/ \E len \in Lengths : Put(len)
        \/ \E n \in 1..Len(pending) : Emit(n)
        \/ \E n, m \in 0..Len(pending) : n <= m /\ Overload(n, m)

Spec == Init /\ [][Next]_<<given, pending, out>>
=============================================================================
