-------------------------------- MODULE Buffer --------------------------------
(***************************************************************************)
(* net/Buffer.h and net/Buffer.cpp: bytes in a vector, of which those from *)
(* readerIndex_ up to writerIndex_ are the contents.  The bytes before     *)
(* them are free for prepend, the bytes behind them for append, and        *)
(* makeSpace moves or grows when the latter do not suffice.                *)
(*                                                                         *)
(* A call whose assert on its arguments fails is a mistake of the caller   *)
(* and not a step.  The byte at index i of the vector is buffer_[i + 1].   *)
(***************************************************************************)
EXTENDS Integers, Sequences

CONSTANTS Byte,           \* the values of a char
          Data,           \* the byte strings that users add
          kCheapPrepend, initialSize,
          ExtraBuf,       \* sizeof extrabuf in readFd
          MaxSize         \* bound on the size of the vector when it grows

ASSUME BufferAssumption ==
    /\ 0 \in Byte
    /\ Data \subseteq Seq(Byte)
    /\ kCheapPrepend \in Nat /\ initialSize \in Nat /\ ExtraBuf \in Nat /\ MaxSize \in Nat

VARIABLE buf   \* the Buffer

Buffers == [buffer_ : Seq(Byte), readerIndex_ : Nat, writerIndex_ : Nat]

size(b) == Len(b.buffer_)
readableBytes(b) == b.writerIndex_ - b.readerIndex_
writableBytes(b) == size(b) - b.writerIndex_
prependableBytes(b) == b.readerIndex_

\* The contents, from peek() to beginWrite().
Content(b) == [i \in 1..readableBytes(b) |-> b.buffer_[b.readerIndex_ + i]]

\* std::copy of data to the bytes from index p on
Copied(bytes, p, data) == [i \in 1..Len(bytes) |->
                             IF i - p \in 1..Len(data) THEN data[i - p] ELSE bytes[i]]

\* vector::resize to a larger size fills with zeros
Resized(bytes, n) == [i \in 1..n |-> IF i <= Len(bytes) THEN bytes[i] ELSE 0]

Init == buf = [buffer_ |-> [i \in 1..(kCheapPrepend + initialSize) |-> 0],
               readerIndex_ |-> kCheapPrepend, writerIndex_ |-> kCheapPrepend]
-----------------------------------------------------------------------------
(* Space for writing. *)

MmakeSpaceGrows(b, len) == [b EXCEPT !.buffer_ = Resized(@, b.writerIndex_ + len)]

MmakeSpaceShort(b, len) ==
    IF writableBytes(b) + prependableBytes(b) < len
    THEN [b EXCEPT !.buffer_ = Resized(@, b.writerIndex_ + len)]
    ELSE [buffer_ |-> Copied(b.buffer_, kCheapPrepend, Content(b)),
          readerIndex_ |-> kCheapPrepend,
          writerIndex_ |-> kCheapPrepend + readableBytes(b)]

makeSpace(b, len) ==
    IF writableBytes(b) + prependableBytes(b) < len + kCheapPrepend
    THEN [b EXCEPT !.buffer_ = Resized(@, b.writerIndex_ + len)]
    ELSE [buffer_ |-> Copied(b.buffer_, kCheapPrepend, Content(b)),
          readerIndex_ |-> kCheapPrepend,
          writerIndex_ |-> kCheapPrepend + readableBytes(b)]

ensureWritableBytes(b, len) == IF writableBytes(b) < len THEN makeSpace(b, len) ELSE b

\* data is copied to beginWrite(), followed by hasWritten
Written(b, data) == [b EXCEPT !.buffer_ = Copied(@, b.writerIndex_, data),
                              !.writerIndex_ = @ + Len(data)]

append(b, data) == Written(ensureWritableBytes(b, Len(data)), data)

MreadFd(b, data) ==
    IF Len(data) <= writableBytes(b)
    THEN Written(b, data)
    ELSE append(b, [i \in 1..(Len(data) - writableBytes(b)) |-> data[writableBytes(b) + i]])

\* readv fills the vector and then extrabuf, whose bytes are appended.
readFd(b, data) ==
    LET writable == writableBytes(b)
        first == [i \in 1..writable |-> data[i]]
        extra == [i \in 1..(Len(data) - writable) |-> data[writable + i]]
    IN IF Len(data) <= writable
       THEN Written(b, data)
       ELSE append(Written(b, first), extra)
-----------------------------------------------------------------------------
(* What is taken out or put in front. *)

\* the two indices go back to the start when nothing is left
retrieve(b, len) ==
    IF len < readableBytes(b)
    THEN [b EXCEPT !.readerIndex_ = @ + len]
    ELSE [b EXCEPT !.readerIndex_ = kCheapPrepend, !.writerIndex_ = kCheapPrepend]

unwrite(b, len) == [b EXCEPT !.writerIndex_ = @ - len]

prepend(b, data) == [b EXCEPT !.readerIndex_ = @ - Len(data),
                              !.buffer_ = Copied(@, b.readerIndex_ - Len(data), data)]
-----------------------------------------------------------------------------
(* The calls of a user. *)

EnsureWritableBytes(len) == /\ buf' = ensureWritableBytes(buf, len)
                            /\ size(buf') <= MaxSize

\* writing at beginWrite() after ensureWritableBytes
HasWritten(data) == /\ Len(data) <= writableBytes(buf)
                    /\ buf' = Written(buf, data)

AppendData(data) == /\ buf' = append(buf, data)
                    /\ size(buf') <= MaxSize

\* n > 0 bytes come from the socket; when there is room enough in the vector
\* extrabuf is not used.
ReadFd(data) == /\ data # <<>>
                /\ Len(data) <= writableBytes(buf)
                                + (IF writableBytes(buf) < ExtraBuf THEN ExtraBuf ELSE 0)
                /\ buf' = readFd(buf, data)
                /\ size(buf') <= MaxSize

Retrieve(len) == /\ len <= readableBytes(buf)
                 /\ buf' = retrieve(buf, len)

Unwrite(len) == /\ len <= readableBytes(buf)
                /\ buf' = unwrite(buf, len)

Prepend(data) == /\ Len(data) <= prependableBytes(buf)
                 /\ buf' = prepend(buf, data)

Next == \/ \E len \in 0..MaxSize : EnsureWritableBytes(len) \/ Retrieve(len) \/ Unwrite(len)
        \/ \E data \in Data : HasWritten(data) \/ AppendData(data) \/ ReadFd(data) \/ Prepend(data)

Spec == Init /\ [][Next]_buf
-----------------------------------------------------------------------------
(* The order of the indices that the comment at the head of the class      *)
(* draws, and that the vector keeps room for the indices retrieveAll goes  *)
(* back to: no sequence of calls leads out of the vector.                  *)
IndexOrder == /\ buf \in Buffers
              /\ buf.readerIndex_ <= buf.writerIndex_
              /\ buf.writerIndex_ <= size(buf)
              /\ kCheapPrepend <= size(buf)

\* s without its first, and without its last, n elements
WithoutFirst(s, n) == [i \in 1..(Len(s) - n) |-> s[n + i]]
WithoutLast(s, n) == [i \in 1..(Len(s) - n) |-> s[i]]

(* To its users a Buffer is a sequence of bytes, and each call changes it  *)
(* by its own bytes: append and readFd add all of their data behind, also  *)
(* the part that went through extrabuf, and prepend in front; retrieve,    *)
(* which resets the indices when nothing is left, takes as many bytes as   *)
(* it is told from the front and unwrite from behind; making room, be it   *)
(* by moving or by growing, changes nothing.                               *)
EachCallExact ==
    [][/\ \A data \in Data :
             /\ HasWritten(data) \/ AppendData(data) \/ ReadFd(data)
                  => Content(buf') = Content(buf) \o data
             /\ Prepend(data) => Content(buf') = data \o Content(buf)
       /\ \A len \in 0..MaxSize :
             /\ EnsureWritableBytes(len) => Content(buf') = Content(buf)
             /\ Retrieve(len) => Content(buf') = WithoutFirst(Content(buf), len)
             /\ Unwrite(len) => Content(buf') = WithoutLast(Content(buf), len)]_buf

(* The space in front of the contents is used before memory is asked for:  *)
(* the vector grows only when the bytes that it holds or reserves after    *)
(* the call did not fit into it behind kCheapPrepend.                      *)
GrowsOnlyWhenFull ==
    [][size(buf') > size(buf)
         => size(buf) < kCheapPrepend + readableBytes(buf') + writableBytes(buf')]_buf
=============================================================================
