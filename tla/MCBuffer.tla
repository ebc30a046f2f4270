------------------------------- MODULE MCBuffer -------------------------------
EXTENDS BufferInts

\* every string of at most three bytes
ShortStrings == UNION {[1..n -> Byte] : n \in 0..3}
=============================================================================
