------------------------------ MODULE BufferInts ------------------------------
(***************************************************************************)
(* The integers of net/Buffer.h (appendInt64 to prependInt8) and their     *)
(* byte order (net/Endian.h), on a machine that keeps the least            *)
(* significant byte first.  n is the sizeof of the type: the functions of  *)
(* the four widths differ in nothing else, as swapping one byte leaves it. *)
(***************************************************************************)
EXTENDS Buffer, SequencesExt

CONSTANT Widths   \* the sizes of the integer types

Base == Cardinality(Byte)

ASSUME IntsAssumption ==
    IsFiniteSet(Byte) /\ Byte = 0..(Base - 1) /\ Widths \subseteq Nat \ {0}

\* the powers of Base: n bytes have pow[n] values
pow[n \in Nat] == IF n = 0 THEN 1 ELSE Base * pow[n - 1]

\* the values of a signed type, in two's complement
Ints(n) == -(pow[n] \div 2)..((pow[n] \div 2) - 1)

\* an integer in memory, and the integer that memory holds
HostBytes(x, n) == [i \in 1..n |-> ((x % pow[n]) \div pow[i - 1]) % Base]
HostInt(bytes) == CHOOSE x \in Ints(Len(bytes)) : HostBytes(x, Len(bytes)) = bytes

MhostToNetwork(bytes) == bytes
hostToNetwork(bytes) == Reverse(bytes)
networkToHost(bytes) == Reverse(bytes)

appendInt(b, x, n) == append(b, hostToNetwork(HostBytes(x, n)))
prependInt(b, x, n) == prepend(b, hostToNetwork(HostBytes(x, n)))
peekInt(b, n) == HostInt(networkToHost(SubSeq(Content(b), 1, n)))

\* the result, and the Buffer behind it
readInt(b, n) == [result |-> peekInt(b, n), after |-> retrieve(b, n)]
-----------------------------------------------------------------------------
(* Whatever was done to the buffer before, an integer that is appended to  *)
(* it comes out again behind what it held, and one that is prepended to it *)
(* before; negative ones too, and without touching the rest, though        *)
(* appending may move the contents or grow the vector.  On the wire its    *)
(* most significant byte comes first.                                      *)
IntsTravel ==
    \A n \in Widths : \A x \in Ints(n) :
      /\ LET held == readableBytes(buf)
             with == appendInt(buf, x, n)
             read == readInt(retrieve(with, held), n)
         IN /\ SubSeq(Content(with), 1, held) = Content(buf)
            /\ read.result = x /\ Content(read.after) = <<>>
            /\ \A i \in 1..n :
                 Content(with)[held + i] = ((x % pow[n]) \div pow[n - i]) % Base
      /\ n <= prependableBytes(buf) =>
           LET read == readInt(prependInt(buf, x, n), n)
           IN read.result = x /\ Content(read.after) = Content(buf)
=============================================================================
