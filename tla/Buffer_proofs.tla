---------------------------- MODULE Buffer_proofs ----------------------------
(***************************************************************************)
(* Proofs about net/Buffer.h, for any kCheapPrepend, initial size, extra   *)
(* buffer and set of byte strings; and about its integers, for any widths  *)
(* and any number of values of a byte.                                     *)
(***************************************************************************)
EXTENDS BufferInts, FiniteSetTheorems, WellFoundedInduction, TLAPS

\* A Buffer whose indices are in order.
Valid(b) == /\ b \in Buffers
            /\ b.readerIndex_ <= b.writerIndex_
            /\ b.writerIndex_ <= Len(b.buffer_)
            /\ kCheapPrepend <= Len(b.buffer_)

(* A function on 1..n with values in Byte is a sequence of length n: the   *)
(* vectors and the contents of a Buffer are given as such functions.       *)
LEMMA ByteSeq ==
  ASSUME NEW n \in Nat, NEW f \in [1..n -> Byte]
  PROVE  f \in Seq(Byte) /\ Len(f) = n
OBVIOUS

(* Sequences of the same length that agree everywhere are equal.           *)
LEMMA SeqEqual ==
  ASSUME NEW s \in Seq(Byte), NEW u \in Seq(Byte), Len(s) = Len(u),
         \A i \in 1..Len(u) : s[i] = u[i]
  PROVE  s = u
OBVIOUS

(* std::copy changes bytes and not the size of the vector.                 *)
LEMMA CopiedType ==
  ASSUME NEW bytes \in Seq(Byte), NEW p \in Nat, NEW data \in Seq(Byte)
  PROVE  /\ Copied(bytes, p, data) \in Seq(Byte)
         /\ Len(Copied(bytes, p, data)) = Len(bytes)
<1>1. Copied(bytes, p, data) \in [1..Len(bytes) -> Byte]
  BY DEF Copied
<1>2. Len(bytes) \in Nat
  OBVIOUS
<1> QED BY <1>1, <1>2, ByteSeq

(* vector::resize gives the size asked for.                                *)
LEMMA ResizedType ==
  ASSUME NEW bytes \in Seq(Byte), NEW n \in Nat
  PROVE  /\ Resized(bytes, n) \in Seq(Byte)
         /\ Len(Resized(bytes, n)) = n
<1>1. Resized(bytes, n) \in [1..n -> Byte]
  BY BufferAssumption DEF Resized
<1> QED BY <1>1, ByteSeq

(* The contents of a Buffer with its indices in order are bytes.           *)
LEMMA ContentType ==
  ASSUME NEW b, Valid(b)
  PROVE  /\ readableBytes(b) \in Nat
         /\ Content(b) \in Seq(Byte)
         /\ Len(Content(b)) = readableBytes(b)
         /\ \A i \in 1..readableBytes(b) : Content(b)[i] = b.buffer_[b.readerIndex_ + i]
<1>1. readableBytes(b) \in Nat
  BY DEF Valid, Buffers, readableBytes
<1>2. Content(b) \in [1..readableBytes(b) -> Byte]
  BY <1>1 DEF Valid, Buffers, Content, readableBytes
<1>3. \A i \in 1..readableBytes(b) : Content(b)[i] = b.buffer_[b.readerIndex_ + i]
  BY DEF Content
<1> QED BY <1>1, <1>2, <1>3, ByteSeq

(* Two Buffers with as many readable bytes, the same one by one, have the  *)
(* same contents.                                                          *)
LEMMA SameContent ==
  ASSUME NEW b, NEW c, readableBytes(b) = readableBytes(c),
         \A i \in 1..readableBytes(b) :
            b.buffer_[b.readerIndex_ + i] = c.buffer_[c.readerIndex_ + i]
  PROVE  Content(b) = Content(c)
BY DEF Content

(* Concatenation adds lengths.                                             *)
LEMMA ConcatLen ==
  ASSUME NEW s \in Seq(Byte), NEW u \in Seq(Byte)
  PROVE  s \o u \in Seq(Byte) /\ Len(s \o u) = Len(s) + Len(u)
OBVIOUS

(* Concatenation written out.                                              *)
LEMMA ConcatAsFunction ==
  ASSUME NEW s \in Seq(Byte), NEW u \in Seq(Byte)
  PROVE  s \o u = [i \in 1..(Len(s) + Len(u)) |-> IF i <= Len(s) THEN s[i] ELSE u[i - Len(s)]]
<1> DEFINE f == [i \in 1..(Len(s) + Len(u)) |-> IF i <= Len(s) THEN s[i] ELSE u[i - Len(s)]]
<1>1. Len(s) \in Nat /\ Len(u) \in Nat /\ Len(s) + Len(u) \in Nat
  OBVIOUS
<1>2. f \in [1..(Len(s) + Len(u)) -> Byte]
  BY <1>1
<1>3. f \in Seq(Byte) /\ Len(f) = Len(s) + Len(u)
  BY <1>1, <1>2, ByteSeq
<1>4. s \o u \in Seq(Byte) /\ Len(s \o u) = Len(s) + Len(u)
  OBVIOUS
<1>5. \A i \in 1..(Len(s) + Len(u)) : (s \o u)[i] = f[i]
  BY <1>1
<1> HIDE DEF f
<1>6. s \o u = f
  BY <1>3, <1>4, <1>5
<1> QED BY <1>6 DEF f

(* makeSpace, called when there is too little room behind the contents,    *)
(* makes the room and keeps the contents, whether it moves or grows; and   *)
(* its own assert holds: it moves only towards the front.                  *)
LEMMA MakeSpaceKeeps ==
  ASSUME NEW b, Valid(b), NEW len \in Nat, writableBytes(b) < len
  PROVE  /\ Valid(makeSpace(b, len))
         /\ Content(makeSpace(b, len)) = Content(b)
         /\ writableBytes(makeSpace(b, len)) >= len
         /\ ~(writableBytes(b) + prependableBytes(b) < len + kCheapPrepend)
              => kCheapPrepend < b.readerIndex_
<1> DEFINE m == makeSpace(b, len)
<1>1. /\ b.buffer_ \in Seq(Byte) /\ b.readerIndex_ \in Nat /\ b.writerIndex_ \in Nat
      /\ kCheapPrepend \in Nat /\ Len(b.buffer_) \in Nat
  BY BufferAssumption DEF Valid, Buffers
<1>2. CASE writableBytes(b) + prependableBytes(b) < len + kCheapPrepend
  <2>0. m = [b EXCEPT !.buffer_ = Resized(b.buffer_, b.writerIndex_ + len)]
    BY <1>2 DEF makeSpace
  <2>1. /\ m.buffer_ = Resized(b.buffer_, b.writerIndex_ + len)
        /\ m.readerIndex_ = b.readerIndex_ /\ m.writerIndex_ = b.writerIndex_
        /\ m = [buffer_ |-> m.buffer_, readerIndex_ |-> m.readerIndex_,
                writerIndex_ |-> m.writerIndex_]
    <3> HIDE DEF m
    <3> QED BY <2>0 DEF Valid, Buffers
  <2>2. m.buffer_ \in Seq(Byte) /\ Len(m.buffer_) = b.writerIndex_ + len
    <3>1. b.writerIndex_ + len \in Nat
      BY <1>1
    <3> HIDE DEF m
    <3> QED BY <2>1, <1>1, <3>1, ResizedType
  <2>3. Valid(m) /\ writableBytes(m) >= len
    BY <2>1, <2>2, <1>1 DEF Valid, Buffers, writableBytes, size
  <2>4. \A i \in 1..readableBytes(b) :
            m.buffer_[m.readerIndex_ + i] = b.buffer_[b.readerIndex_ + i]
    BY <2>1, <1>1 DEF Resized, readableBytes, Valid
  <2>5. Content(m) = Content(b)
    <3>1. readableBytes(m) = readableBytes(b)
      BY <2>1 DEF readableBytes
    <3> QED BY <3>1, <2>4, SameContent
  <2> QED BY <1>2, <2>3, <2>5
<1>3. CASE ~(writableBytes(b) + prependableBytes(b) < len + kCheapPrepend)
  <2>1. m = [buffer_ |-> Copied(b.buffer_, kCheapPrepend, Content(b)),
             readerIndex_ |-> kCheapPrepend,
             writerIndex_ |-> kCheapPrepend + readableBytes(b)]
    BY <1>3 DEF makeSpace
  <2>2. m.buffer_ \in Seq(Byte) /\ Len(m.buffer_) = Len(b.buffer_)
    BY <2>1, <1>1, CopiedType, ContentType
  <2>3. Valid(m) /\ writableBytes(m) >= len /\ kCheapPrepend < b.readerIndex_
    BY <2>1, <2>2, <1>1, <1>3
       DEF Valid, Buffers, writableBytes, prependableBytes, readableBytes, size
  <2>4. readableBytes(m) = readableBytes(b)
    BY <2>1, <1>1 DEF readableBytes
  <2>5. \A i \in 1..readableBytes(b) :
            m.buffer_[m.readerIndex_ + i] = b.buffer_[b.readerIndex_ + i]
    <3> TAKE i \in 1..readableBytes(b)
    <3>1. readableBytes(b) \in Nat /\ Len(Content(b)) = readableBytes(b)
          /\ Content(b)[i] = b.buffer_[b.readerIndex_ + i]
      BY ContentType
    <3>2. kCheapPrepend + i \in 1..Len(b.buffer_) /\ (kCheapPrepend + i) - kCheapPrepend = i
      BY <3>1, <1>1, <2>3 DEF readableBytes, Valid
    <3> QED BY <3>1, <3>2, <2>1 DEF Copied
  <2> QED BY <1>3, <2>3, <2>4, <2>5, SameContent
<1> QED BY <1>2, <1>3

(* ensureWritableBytes: its assert holds, and the contents are kept.       *)
LEMMA EnsureWritableKeeps ==
  ASSUME NEW b, Valid(b), NEW len \in Nat
  PROVE  LET e == ensureWritableBytes(b, len)
         IN Valid(e) /\ Content(e) = Content(b) /\ writableBytes(e) >= len
<1>1. CASE writableBytes(b) < len
  BY <1>1, MakeSpaceKeeps DEF ensureWritableBytes
<1>2. CASE ~(writableBytes(b) < len)
  <2>1. writableBytes(b) \in Int
    BY DEF Valid, Buffers, writableBytes, size
  <2> QED BY <1>2, <2>1 DEF ensureWritableBytes
<1> QED BY <1>1, <1>2

(* Copying into the room behind the contents, then hasWritten: the bytes   *)
(* are added behind.                                                       *)
LEMMA WrittenAdds ==
  ASSUME NEW b, Valid(b), NEW data \in Seq(Byte), Len(data) <= writableBytes(b)
  PROVE  /\ Valid(Written(b, data))
         /\ Content(Written(b, data)) = Content(b) \o data
         /\ size(Written(b, data)) = size(b)
         /\ readableBytes(Written(b, data)) = readableBytes(b) + Len(data)
         /\ writableBytes(Written(b, data)) = writableBytes(b) - Len(data)
<1> DEFINE w == Written(b, data)
<1>1. /\ b.buffer_ \in Seq(Byte) /\ b.readerIndex_ \in Nat /\ b.writerIndex_ \in Nat
      /\ Len(b.buffer_) \in Nat /\ Len(data) \in Nat
      /\ b.readerIndex_ <= b.writerIndex_
      /\ b.writerIndex_ + Len(data) <= Len(b.buffer_)
  BY DEF Valid, Buffers, writableBytes, size
<1>2. w = [b EXCEPT !.buffer_ = Copied(b.buffer_, b.writerIndex_, data),
                    !.writerIndex_ = b.writerIndex_ + Len(data)]
  BY DEF Written
<1>3. /\ w.buffer_ = Copied(b.buffer_, b.writerIndex_, data)
      /\ w.readerIndex_ = b.readerIndex_
      /\ w.writerIndex_ = b.writerIndex_ + Len(data)
      /\ w = [buffer_ |-> w.buffer_, readerIndex_ |-> w.readerIndex_,
              writerIndex_ |-> w.writerIndex_]
  <2> HIDE DEF w
  <2> QED BY <1>2 DEF Valid, Buffers
<1> HIDE DEF w
<1>4. w.buffer_ \in Seq(Byte) /\ Len(w.buffer_) = Len(b.buffer_)
  BY <1>1, <1>3, CopiedType
<1>5. Valid(w)
  BY <1>1, <1>3, <1>4 DEF Valid, Buffers
<1>6. /\ size(w) = size(b)
      /\ readableBytes(w) = readableBytes(b) + Len(data)
      /\ writableBytes(w) = writableBytes(b) - Len(data)
  BY <1>1, <1>3, <1>4 DEF readableBytes, writableBytes, size
<1>7. Content(w) = Content(b) \o data
  <2> DEFINE n == readableBytes(b)
             c == Content(b)
  <2>1. /\ n \in Nat /\ c \in Seq(Byte) /\ Len(c) = n
        /\ \A i \in 1..n : c[i] = b.buffer_[b.readerIndex_ + i]
        /\ b.readerIndex_ + n = b.writerIndex_
    BY ContentType, <1>1 DEF readableBytes
  <2>2. \A i \in 1..(n + Len(data)) :
           w.buffer_[w.readerIndex_ + i] = IF i <= n THEN c[i] ELSE data[i - n]
    <3> SUFFICES ASSUME NEW i \in 1..(n + Len(data))
                 PROVE  w.buffer_[b.readerIndex_ + i] = IF i <= n THEN c[i] ELSE data[i - n]
      BY <1>3
    <3> DEFINE j == b.readerIndex_ + i
    <3>1. j \in 1..Len(b.buffer_)
      BY <1>1, <2>1
    <3>2. w.buffer_[j] = IF j - b.writerIndex_ \in 1..Len(data)
                         THEN data[j - b.writerIndex_] ELSE b.buffer_[j]
      BY <3>1, <1>3 DEF Copied
    <3>3. CASE i <= n
      <4>1. ~(j - b.writerIndex_ \in 1..Len(data)) /\ i \in 1..n
        BY <3>3, <2>1, <1>1
      <4> QED BY <4>1, <3>2, <3>3, <2>1
    <3>4. CASE ~(i <= n)
      <4> HIDE DEF n, c
      <4>1. j - b.writerIndex_ = i - n
        BY <2>1, <1>1
      <4>2. i - n \in 1..Len(data)
        BY <3>4, <2>1, <1>1
      <4>3. j - b.writerIndex_ \in 1..Len(data)
        BY <4>1, <4>2
      <4> QED BY <4>1, <4>3, <3>2, <3>4
    <3> QED BY <3>3, <3>4
  <2>3. c \o data = [i \in 1..(n + Len(data)) |-> IF i <= n THEN c[i] ELSE data[i - n]]
    <3> HIDE DEF c, n
    <3> QED BY <2>1, ConcatAsFunction
  <2>4. Content(w) = [i \in 1..(n + Len(data)) |-> w.buffer_[w.readerIndex_ + i]]
    BY <1>6 DEF Content
  <2> QED BY <2>2, <2>3, <2>4
<1> QED BY <1>5, <1>6, <1>7 DEF w

(* ensureWritableBytes lets the vector grow only when the contents and the *)
(* room asked for do not fit behind kCheapPrepend.                         *)
LEMMA EnsureWritableGrows ==
  ASSUME NEW b, Valid(b), NEW len \in Nat,
         size(ensureWritableBytes(b, len)) > size(b)
  PROVE  LET e == ensureWritableBytes(b, len)
         IN size(b) < kCheapPrepend + readableBytes(e) + writableBytes(e)
<1> DEFINE e == ensureWritableBytes(b, len)
<1>1. /\ b.buffer_ \in Seq(Byte) /\ b.readerIndex_ \in Nat /\ b.writerIndex_ \in Nat
      /\ kCheapPrepend \in Nat /\ Len(b.buffer_) \in Nat
  BY BufferAssumption DEF Valid, Buffers
<1>2. writableBytes(b) < len /\ e = makeSpace(b, len)
  BY <1>1 DEF ensureWritableBytes, size
<1>3. writableBytes(b) + prependableBytes(b) < len + kCheapPrepend
  <2> SUFFICES ASSUME ~(writableBytes(b) + prependableBytes(b) < len + kCheapPrepend)
               PROVE  FALSE
    OBVIOUS
  <2>1. e.buffer_ = Copied(b.buffer_, kCheapPrepend, Content(b))
    BY <1>2 DEF makeSpace
  <2>2. size(e) = size(b)
    BY <2>1, <1>1, CopiedType, ContentType DEF size
  <2> QED BY <2>2, <1>1 DEF size
<1>4. e = [b EXCEPT !.buffer_ = Resized(b.buffer_, b.writerIndex_ + len)]
  BY <1>2, <1>3 DEF makeSpace
<1> HIDE DEF e
<1>5. /\ e.buffer_ = Resized(b.buffer_, b.writerIndex_ + len)
      /\ e.readerIndex_ = b.readerIndex_ /\ e.writerIndex_ = b.writerIndex_
  BY <1>4 DEF Valid, Buffers
<1>6. Len(e.buffer_) = b.writerIndex_ + len
  <2>1. b.writerIndex_ + len \in Nat
    BY <1>1
  <2> QED BY <2>1, <1>1, <1>5, ResizedType
<1>7. /\ readableBytes(e) = b.writerIndex_ - b.readerIndex_ /\ writableBytes(e) = len
      /\ size(b) = Len(b.buffer_) /\ writableBytes(b) = Len(b.buffer_) - b.writerIndex_
      /\ prependableBytes(b) = b.readerIndex_
  BY <1>1, <1>5, <1>6 DEF writableBytes, prependableBytes, readableBytes, size
<1>8. size(b) < kCheapPrepend + readableBytes(e) + writableBytes(e)
  BY <1>1, <1>3, <1>7
<1> QED BY <1>8 DEF e

\* What a call that adds data behind the contents of b does.
Adds(b, c, data) == /\ Valid(c)
                    /\ Content(c) = Content(b) \o data
                    /\ size(c) > size(b)
                         => size(b) < kCheapPrepend + readableBytes(c) + writableBytes(c)

(* append adds its bytes behind the contents.                              *)
LEMMA AppendAdds ==
  ASSUME NEW b, Valid(b), NEW data \in Seq(Byte)
  PROVE  Adds(b, append(b, data), data)
<1> DEFINE e == ensureWritableBytes(b, Len(data))
           a == append(b, data)
<1>1. Len(data) \in Nat
  OBVIOUS
<1>2. Valid(e) /\ Content(e) = Content(b) /\ Len(data) <= writableBytes(e)
  <2>1. writableBytes(e) >= Len(data) /\ Valid(e) /\ Content(e) = Content(b)
    BY <1>1, EnsureWritableKeeps
  <2> HIDE DEF e
  <2>2. writableBytes(e) \in Int
    BY <2>1 DEF writableBytes, size, Valid, Buffers
  <2> QED BY <2>1, <2>2, <1>1
<1>3. size(e) > size(b) => size(b) < kCheapPrepend + readableBytes(e) + writableBytes(e)
  BY <1>1, EnsureWritableGrows
<1>4. a = Written(e, data)
  BY DEF append
<1> HIDE DEF e, a
<1>5. /\ Valid(a) /\ Content(a) = Content(e) \o data
      /\ size(a) = size(e)
      /\ readableBytes(a) = readableBytes(e) + Len(data)
      /\ writableBytes(a) = writableBytes(e) - Len(data)
  BY <1>2, <1>4, WrittenAdds
<1>6. readableBytes(a) + writableBytes(a) = readableBytes(e) + writableBytes(e)
  BY <1>1, <1>2, <1>5 DEF Valid, Buffers, readableBytes, writableBytes, size
<1>7. /\ readableBytes(a) \in Int /\ writableBytes(a) \in Int /\ readableBytes(e) \in Int
      /\ writableBytes(e) \in Int /\ kCheapPrepend \in Int
  <2>1. \A x : Valid(x) => readableBytes(x) \in Int /\ writableBytes(x) \in Int
    BY DEF Valid, Buffers, readableBytes, writableBytes, size
  <2> QED BY <2>1, <1>2, <1>5, BufferAssumption
<1>8. size(a) > size(b) => size(b) < kCheapPrepend + readableBytes(a) + writableBytes(a)
  BY <1>3, <1>5, <1>6, <1>7
<1>9. Adds(b, a, data)
  BY <1>2, <1>5, <1>8 DEF Adds
<1> QED BY <1>9 DEF a

(* A string cut in two, each part added in turn.                           *)
LEMMA AddedInTwo ==
  ASSUME NEW c \in Seq(Byte), NEW data \in Seq(Byte), NEW n \in 0..Len(data)
  PROVE  LET first == [i \in 1..n |-> data[i]]
             extra == [i \in 1..(Len(data) - n) |-> data[n + i]]
         IN /\ first \in Seq(Byte) /\ Len(first) = n
            /\ extra \in Seq(Byte)
            /\ (c \o first) \o extra = c \o data
<1> DEFINE first == [i \in 1..n |-> data[i]]
           extra == [i \in 1..(Len(data) - n) |-> data[n + i]]
<1>0. n \in Nat /\ Len(data) \in Nat /\ n <= Len(data)
  OBVIOUS
<1>1. first \in Seq(Byte) /\ Len(first) = n
  <2>1. first \in [1..n -> Byte] /\ n \in Nat
    OBVIOUS
  <2> QED BY <2>1, ByteSeq
<1>2. extra \in Seq(Byte) /\ Len(extra) = Len(data) - n
  <2>1. extra \in [1..(Len(data) - n) -> Byte] /\ Len(data) - n \in Nat
    OBVIOUS
  <2> HIDE DEF extra
  <2> QED BY <2>1, ByteSeq
<1>3. first \o extra = data
  <2>1. \A i \in 1..n : first[i] = data[i]
    OBVIOUS
  <2>2. \A i \in 1..(Len(data) - n) : extra[i] = data[n + i]
    OBVIOUS
  <2> HIDE DEF first, extra
  <2>3. first \o extra \in Seq(Byte) /\ Len(first \o extra) = Len(data)
    <3>1. first \o extra \in Seq(Byte) /\ Len(first \o extra) = Len(first) + Len(extra)
      BY <1>1, <1>2, ConcatLen
    <3> QED BY <3>1, <1>0, <1>1, <1>2
  <2>4. \A i \in 1..Len(data) : (first \o extra)[i] = data[i]
    <3> TAKE i \in 1..Len(data)
    <3>1. CASE i <= n
      BY <3>1, <2>1, <1>1, <1>2
    <3>2. CASE ~(i <= n)
      <4>1. i - n \in 1..(Len(data) - n) /\ n + (i - n) = i
        BY <3>2
      <4>2. (first \o extra)[i] = extra[i - n]
        BY <3>2, <1>1, <1>2
      <4> QED BY <4>1, <4>2, <2>2
    <3> QED BY <3>1, <3>2
  <2> QED BY <1>0, <2>3, <2>4, SeqEqual
<1> HIDE DEF first, extra
<1>4. (c \o first) \o extra = c \o (first \o extra)
  BY <1>1, <1>2
<1> QED BY <1>1, <1>2, <1>3, <1>4 DEF first, extra

(* readFd adds what it read behind the contents, also when the vector is   *)
(* full and the rest comes from extrabuf.                                  *)
LEMMA ReadFdAdds ==
  ASSUME NEW b, Valid(b), NEW data \in Seq(Byte)
  PROVE  Adds(b, readFd(b, data), data)
<1> DEFINE n == writableBytes(b)
           first == [i \in 1..n |-> data[i]]
           extra == [i \in 1..(Len(data) - n) |-> data[n + i]]
           f == Written(b, first)
           a == readFd(b, data)
<1>1. n \in Nat /\ Len(data) \in Nat
  BY DEF Valid, Buffers, writableBytes, size
<1>2. CASE Len(data) <= n
  <2>1. a = Written(b, data)
    BY <1>2 DEF readFd
  <2>2. Valid(a) /\ Content(a) = Content(b) \o data /\ size(a) = size(b)
    BY <2>1, <1>2, WrittenAdds
  <2>3. size(b) \in Nat
    BY DEF Valid, Buffers, size
  <2> HIDE DEF a
  <2>4. Adds(b, a, data)
    BY <2>2, <2>3 DEF Adds
  <2> QED BY <2>4 DEF a
<1>3. CASE ~(Len(data) <= n)
  <2>1. n \in 0..Len(data)
    BY <1>1, <1>3
  <2>2. Content(b) \in Seq(Byte)
    BY ContentType
  <2>3. /\ first \in Seq(Byte) /\ Len(first) = n
        /\ extra \in Seq(Byte)
        /\ (Content(b) \o first) \o extra = Content(b) \o data
    BY <2>1, <2>2, AddedInTwo
  <2>4. a = append(f, extra)
    BY <1>3 DEF readFd
  <2> HIDE DEF first, extra
  <2>5. Valid(f) /\ Content(f) = Content(b) \o first /\ size(f) = size(b)
    BY <1>1, <2>3, WrittenAdds
  <2> HIDE DEF f, a
  <2>6. Adds(f, a, extra)
    BY <2>3, <2>4, <2>5, AppendAdds
  <2>7. Adds(b, a, data)
    BY <2>3, <2>5, <2>6 DEF Adds
  <2> QED BY <2>7 DEF a
<1> QED BY <1>2, <1>3

(* retrieve takes bytes from the front, whether or not it goes back to the *)
(* start of the vector.                                                    *)
LEMMA RetrieveTakes ==
  ASSUME NEW b, Valid(b), NEW len \in Nat, len <= readableBytes(b)
  PROVE  /\ Valid(retrieve(b, len))
         /\ Content(retrieve(b, len))
              = [i \in 1..(Len(Content(b)) - len) |-> Content(b)[len + i]]
         /\ size(retrieve(b, len)) = size(b)
<1> DEFINE a == retrieve(b, len)
           n == readableBytes(b)
<1>1. /\ b.buffer_ \in Seq(Byte) /\ b.readerIndex_ \in Nat /\ b.writerIndex_ \in Nat
      /\ kCheapPrepend \in Nat /\ Len(b.buffer_) \in Nat
      /\ n = b.writerIndex_ - b.readerIndex_
  BY BufferAssumption DEF Valid, Buffers, readableBytes
<1>2. /\ n \in Nat /\ Len(Content(b)) = n
      /\ \A i \in 1..n : Content(b)[i] = b.buffer_[b.readerIndex_ + i]
  BY ContentType
<1>3. CASE len < n
  <2>1. a = [b EXCEPT !.readerIndex_ = b.readerIndex_ + len]
    BY <1>3 DEF retrieve
  <2> HIDE DEF a
  <2>2. /\ a.buffer_ = b.buffer_ /\ a.writerIndex_ = b.writerIndex_
        /\ a.readerIndex_ = b.readerIndex_ + len
        /\ a \in Buffers
    BY <2>1, <1>1 DEF Valid, Buffers
  <2> HIDE DEF n
  <2>3. Valid(a)
    BY <2>2, <1>1, <1>2, <1>3 DEF Valid
  <2>4. readableBytes(a) = n - len
    BY <2>2, <1>1 DEF readableBytes
  <2>5. \A i \in 1..(n - len) : a.buffer_[a.readerIndex_ + i] = Content(b)[len + i]
    <3> TAKE i \in 1..(n - len)
    <3>1. len + i \in 1..n /\ a.readerIndex_ + i = b.readerIndex_ + (len + i)
      BY <1>1, <1>2, <2>2
    <3> QED BY <3>1, <1>2, <2>2
  <2>6. Content(a) = [i \in 1..(n - len) |-> Content(b)[len + i]]
    BY <2>4, <2>5 DEF Content
  <2> QED BY <2>2, <2>3, <2>6, <1>2 DEF a, size
<1>4. CASE ~(len < n)
  <2>1. a = [b EXCEPT !.readerIndex_ = kCheapPrepend, !.writerIndex_ = kCheapPrepend]
    BY <1>4 DEF retrieve
  <2> HIDE DEF a
  <2>2. /\ a.buffer_ = b.buffer_ /\ a.writerIndex_ = kCheapPrepend
        /\ a.readerIndex_ = kCheapPrepend /\ a \in Buffers
    BY <2>1, <1>1 DEF Valid, Buffers
  <2>3. Valid(a) /\ readableBytes(a) = 0 /\ n - len = 0
    BY <2>2, <1>1, <1>2, <1>4 DEF Valid, readableBytes
  <2>4. Content(a) = [i \in 1..(n - len) |-> Content(b)[len + i]]
    BY <2>3 DEF Content
  <2> QED BY <2>2, <2>3, <2>4, <1>2 DEF a, size
<1> QED BY <1>3, <1>4

(* unwrite takes bytes from behind.                                        *)
LEMMA UnwriteTakes ==
  ASSUME NEW b, Valid(b), NEW len \in Nat, len <= readableBytes(b)
  PROVE  /\ Valid(unwrite(b, len))
         /\ Content(unwrite(b, len)) = [i \in 1..(Len(Content(b)) - len) |-> Content(b)[i]]
         /\ size(unwrite(b, len)) = size(b)
<1> DEFINE a == unwrite(b, len)
           n == readableBytes(b)
<1>1. /\ b.readerIndex_ \in Nat /\ b.writerIndex_ \in Nat
      /\ n = b.writerIndex_ - b.readerIndex_
  BY DEF Valid, Buffers, readableBytes
<1>2. /\ n \in Nat /\ Len(Content(b)) = n
      /\ \A i \in 1..n : Content(b)[i] = b.buffer_[b.readerIndex_ + i]
  BY ContentType
<1>3. a = [b EXCEPT !.writerIndex_ = b.writerIndex_ - len] /\ len <= n
  BY DEF unwrite
<1> HIDE DEF a, n
<1>4. /\ a.buffer_ = b.buffer_ /\ a.writerIndex_ = b.writerIndex_ - len
      /\ a.readerIndex_ = b.readerIndex_ /\ b.writerIndex_ - len \in Nat
      /\ a \in Buffers
  BY <1>1, <1>3 DEF Valid, Buffers
<1>5. Valid(a)
  BY <1>1, <1>3, <1>4 DEF Valid, Buffers
<1>6. readableBytes(a) = n - len
  BY <1>1, <1>4 DEF readableBytes
<1>7. \A i \in 1..(n - len) : a.buffer_[a.readerIndex_ + i] = Content(b)[i]
  BY <1>2, <1>4
<1>8. Content(a) = [i \in 1..(n - len) |-> Content(b)[i]]
  BY <1>6, <1>7 DEF Content
<1> QED BY <1>2, <1>4, <1>5, <1>8 DEF a, size

(* prepend adds bytes in front.                                            *)
LEMMA PrependAdds ==
  ASSUME NEW b, Valid(b), NEW data \in Seq(Byte), Len(data) <= prependableBytes(b)
  PROVE  /\ Valid(prepend(b, data))
         /\ Content(prepend(b, data)) = data \o Content(b)
         /\ size(prepend(b, data)) = size(b)
<1> DEFINE a == prepend(b, data)
           n == readableBytes(b)
           d == Len(data)
           c == Content(b)
           p == b.readerIndex_ - d
<1>1. /\ b.buffer_ \in Seq(Byte) /\ b.readerIndex_ \in Nat /\ b.writerIndex_ \in Nat
      /\ Len(b.buffer_) \in Nat /\ d \in Nat /\ p \in Nat
      /\ b.readerIndex_ <= b.writerIndex_ /\ b.writerIndex_ <= Len(b.buffer_)
      /\ n = b.writerIndex_ - b.readerIndex_ /\ p + d = b.readerIndex_
  BY DEF Valid, Buffers, readableBytes, prependableBytes
<1>2. /\ n \in Nat /\ c \in Seq(Byte) /\ Len(c) = n
      /\ \A i \in 1..n : c[i] = b.buffer_[b.readerIndex_ + i]
  BY ContentType
<1>3. a = [b EXCEPT !.readerIndex_ = p, !.buffer_ = Copied(b.buffer_, p, data)]
  BY DEF prepend
<1> HIDE DEF a, p
<1>4. /\ a.buffer_ = Copied(b.buffer_, p, data)
      /\ a.writerIndex_ = b.writerIndex_ /\ a.readerIndex_ = p
      /\ a = [buffer_ |-> a.buffer_, readerIndex_ |-> a.readerIndex_,
              writerIndex_ |-> a.writerIndex_]
  BY <1>3 DEF Valid, Buffers
<1>5. a.buffer_ \in Seq(Byte) /\ Len(a.buffer_) = Len(b.buffer_)
  BY <1>1, <1>4, CopiedType
<1>6. Valid(a)
  BY <1>1, <1>4, <1>5 DEF Valid, Buffers
<1> HIDE DEF n, d, c
<1>7. readableBytes(a) = d + n
  BY <1>1, <1>4 DEF readableBytes
<1>8. \A i \in 1..(d + n) : a.buffer_[p + i] = IF i <= d THEN data[i] ELSE c[i - d]
  <2> TAKE i \in 1..(d + n)
  <2>1. p + i \in 1..Len(b.buffer_) /\ (p + i) - p = i
    BY <1>1, <1>2
  <2>2. a.buffer_[p + i] = IF i \in 1..d THEN data[i] ELSE b.buffer_[p + i]
    BY <2>1, <1>4 DEF Copied, d
  <2>3. CASE i <= d
    BY <2>2, <2>3
  <2>4. CASE ~(i <= d)
    <3>1. i - d \in 1..n /\ ~(i \in 1..d)
      BY <2>4, <1>1, <1>2
    <3>2. p + i = b.readerIndex_ + (i - d)
      BY <1>1
    <3> QED BY <3>1, <3>2, <2>2, <2>4, <1>2
  <2> QED BY <2>3, <2>4
<1>9. Content(a) = data \o c
  <2>1. data \o c = [i \in 1..(d + n) |-> IF i <= d THEN data[i] ELSE c[i - d]]
    BY <1>2, ConcatAsFunction DEF d
  <2> QED BY <2>1, <1>4, <1>7, <1>8 DEF Content
<1> QED BY <1>4, <1>5, <1>6, <1>9 DEF a, size, c
-----------------------------------------------------------------------------
\* IndexOrder is Valid of the Buffer.
LEMMA OrderIsValid == IndexOrder <=> Valid(buf)
BY DEF IndexOrder, Valid, size

(* What every call does to a Buffer whose indices are in order: they stay  *)
(* in order, and the vector grows only when it is full.                    *)
LEMMA StepIsSound ==
  ASSUME Valid(buf), Next
  PROVE  /\ Valid(buf')
         /\ size(buf') > size(buf)
              => size(buf) < kCheapPrepend + readableBytes(buf') + writableBytes(buf')
<1>1. ASSUME NEW len \in 0..MaxSize, EnsureWritableBytes(len)
      PROVE  /\ Valid(buf')
             /\ size(buf') > size(buf)
                  => size(buf) < kCheapPrepend + readableBytes(buf') + writableBytes(buf')
  <2>1. len \in Nat /\ buf' = ensureWritableBytes(buf, len)
    BY <1>1, BufferAssumption DEF EnsureWritableBytes
  <2> QED BY <2>1, EnsureWritableKeeps, EnsureWritableGrows
<1>2. ASSUME NEW len \in 0..MaxSize, Retrieve(len) \/ Unwrite(len)
      PROVE  Valid(buf') /\ size(buf') = size(buf)
  <2>1. len \in Nat
    BY BufferAssumption
  <2> QED BY <1>2, <2>1, RetrieveTakes, UnwriteTakes DEF Retrieve, Unwrite
<1>3. ASSUME NEW data \in Data, HasWritten(data) \/ Prepend(data)
      PROVE  Valid(buf') /\ size(buf') = size(buf)
  <2>1. data \in Seq(Byte)
    BY BufferAssumption
  <2> QED BY <1>3, <2>1, WrittenAdds, PrependAdds DEF HasWritten, Prepend
<1>4. ASSUME NEW data \in Data, AppendData(data) \/ ReadFd(data)
      PROVE  /\ Valid(buf')
             /\ size(buf') > size(buf)
                  => size(buf) < kCheapPrepend + readableBytes(buf') + writableBytes(buf')
  <2>1. data \in Seq(Byte)
    BY BufferAssumption
  <2> QED BY <1>4, <2>1, AppendAdds, ReadFdAdds DEF AppendData, ReadFd, Adds
<1>5. size(buf') = size(buf) => ~(size(buf') > size(buf))
  BY DEF Valid, Buffers, size
<1> QED BY <1>1, <1>2, <1>3, <1>4, <1>5 DEF Next

(* Whatever the user calls, readerIndex <= writerIndex <= size: every      *)
(* access of a Buffer stays inside its vector.                             *)
THEOREM IndicesInOrder == Spec => []IndexOrder
<1>1. Init => IndexOrder
  <2> SUFFICES ASSUME Init PROVE IndexOrder
    OBVIOUS
  <2> DEFINE z == [i \in 1..(kCheapPrepend + initialSize) |-> 0]
  <2>1. z \in [1..(kCheapPrepend + initialSize) -> Byte] /\ kCheapPrepend + initialSize \in Nat
    BY BufferAssumption
  <2>2. z \in Seq(Byte) /\ Len(z) = kCheapPrepend + initialSize
    <3> HIDE DEF z
    <3> QED BY <2>1, ByteSeq
  <2>3. buf = [buffer_ |-> z, readerIndex_ |-> kCheapPrepend, writerIndex_ |-> kCheapPrepend]
    BY DEF Init
  <2> HIDE DEF z
  <2> QED BY <2>2, <2>3, BufferAssumption DEF IndexOrder, Buffers, size
<1>2. IndexOrder /\ [Next]_buf => IndexOrder'
  <2> SUFFICES ASSUME IndexOrder, [Next]_buf PROVE IndexOrder'
    OBVIOUS
  <2>1. CASE Next
    <3>1. Valid(buf')
      BY <2>1, OrderIsValid, StepIsSound
    <3> QED BY <3>1 DEF IndexOrder, Valid, size
  <2>2. CASE UNCHANGED buf
    BY <2>2 DEF IndexOrder, size
  <2> QED BY <2>1, <2>2
<1> QED BY <1>1, <1>2, PTL DEF Spec

(* Each call on a Buffer does to the contents what it is told and no more: *)
(* append and readFd add all of their data, retrieve and unwrite take as   *)
(* many bytes as asked, and making room changes nothing.                   *)
THEOREM CallsAreExact == Spec => EachCallExact
<1>1. ASSUME IndexOrder
      PROVE  /\ \A data \in Data :
                   /\ HasWritten(data) \/ AppendData(data) \/ ReadFd(data)
                        => Content(buf') = Content(buf) \o data
                   /\ Prepend(data) => Content(buf') = data \o Content(buf)
             /\ \A len \in 0..MaxSize :
                   /\ EnsureWritableBytes(len) => Content(buf') = Content(buf)
                   /\ Retrieve(len) => Content(buf') = WithoutFirst(Content(buf), len)
                   /\ Unwrite(len) => Content(buf') = WithoutLast(Content(buf), len)
  <2>0. Valid(buf)
    BY <1>1, OrderIsValid
  <2>1. ASSUME NEW data \in Data
        PROVE  /\ HasWritten(data) => Content(buf') = Content(buf) \o data
               /\ AppendData(data) \/ ReadFd(data) => Content(buf') = Content(buf) \o data
               /\ Prepend(data) => Content(buf') = data \o Content(buf)
    <3>1. data \in Seq(Byte)
      BY BufferAssumption
    <3>2. HasWritten(data) => Content(buf') = Content(buf) \o data
      BY <2>0, <3>1, WrittenAdds DEF HasWritten
    <3>3. AppendData(data) \/ ReadFd(data) => Content(buf') = Content(buf) \o data
      BY <2>0, <3>1, AppendAdds, ReadFdAdds DEF AppendData, ReadFd, Adds
    <3>4. Prepend(data) => Content(buf') = data \o Content(buf)
      BY <2>0, <3>1, PrependAdds DEF Prepend
    <3> QED BY <3>2, <3>3, <3>4
  <2>2. ASSUME NEW len \in 0..MaxSize
        PROVE  /\ EnsureWritableBytes(len) => Content(buf') = Content(buf)
               /\ Retrieve(len) => Content(buf') = WithoutFirst(Content(buf), len)
               /\ Unwrite(len) => Content(buf') = WithoutLast(Content(buf), len)
    <3>1. len \in Nat
      BY BufferAssumption
    <3>2. EnsureWritableBytes(len) => Content(buf') = Content(buf)
      BY <2>0, <3>1, EnsureWritableKeeps DEF EnsureWritableBytes
    <3>3. Retrieve(len) => Content(buf') = WithoutFirst(Content(buf), len)
      BY <2>0, <3>1, RetrieveTakes DEF Retrieve, WithoutFirst
    <3>4. Unwrite(len) => Content(buf') = WithoutLast(Content(buf), len)
      BY <2>0, <3>1, UnwriteTakes DEF Unwrite, WithoutLast
    <3> QED BY <3>2, <3>3, <3>4
  <2> QED BY <2>1, <2>2
<1> QED BY <1>1, IndicesInOrder, PTL DEF EachCallExact

(* A Buffer asks for memory only when the contents and the room asked for  *)
(* do not fit into the vector it has.                                      *)
THEOREM GrowthIsNeeded == Spec => GrowsOnlyWhenFull
<1>1. IndexOrder /\ [Next]_buf
        => [size(buf') > size(buf)
              => size(buf) < kCheapPrepend + readableBytes(buf') + writableBytes(buf')]_buf
  BY OrderIsValid, StepIsSound
<1> QED BY <1>1, IndicesInOrder, PTL DEF Spec, GrowsOnlyWhenFull
-----------------------------------------------------------------------------
(* The integers.  Division, powers and digits first. *)

(* A byte has some values, and they are numbered. *)
LEMMA BaseIsPositive == Base \in Nat \ {0} /\ \A b : b \in Byte <=> b \in Nat /\ b < Base
<1>1. Base \in Nat
  BY IntsAssumption, FS_CardinalityType DEF Base
<1> QED BY <1>1, IntsAssumption, BufferAssumption

(* Division with a remainder. *)
LEMMA Division ==
    ASSUME NEW a \in Int, NEW b \in Nat \ {0}
    PROVE  \E q \in Int, r \in Nat : /\ q = a \div b /\ r = a % b
                                     /\ r < b /\ a = b * q + r
                                     /\ a >= 0 => q >= 0
<1>1. a \div b \in Int /\ a % b \in Nat /\ a % b < b /\ (a >= 0 => a \div b >= 0)
  OBVIOUS
<1>2. b * (a \div b) = a - (a % b)
  <2>1. ASSUME NEW c \in Int, c > 0 PROVE c * (a \div c) = a - (a % c)
    BY <2>1, SMT
  <2> QED BY <2>1
<1>3. PICK q \in Int, r \in Nat : q = a \div b /\ r = a % b
  BY <1>1
<1>4. b * q = a - r /\ r < b /\ (a >= 0 => q >= 0)
  BY <1>1, <1>2, <1>3
<1>5. a = b * q + r
  BY <1>4
<1> QED BY <1>3, <1>4, <1>5

(* There is only one quotient. *)
LEMMA OneQuotient ==
    ASSUME NEW b \in Nat \ {0}, NEW s \in Int, NEW t \in Int, NEW r \in Nat, NEW q \in Nat,
           r < b, q < b, b * s + r = b * t + q
    PROVE  s = t
<1>1. b * (s - t) = q - r
  OBVIOUS
<1>2. CASE s - t >= 1
  <2>1. b * (s - t) >= b
    BY <1>2
  <2> QED BY <1>1, <2>1
<1>3. CASE s - t <= -1
  <2>1. b * (s - t) <= -b
    BY <1>3
  <2> QED BY <1>1, <2>1
<1> QED BY <1>2, <1>3

(* Dividing twice. *)
LEMMA DividedTwice ==
    ASSUME NEW u \in Nat, NEW a \in Nat \ {0}, NEW b \in Nat \ {0}
    PROVE  (u \div a) \div b = u \div (a * b)
<1>1. PICK q \in Int, r \in Nat : q = u \div a /\ r < a /\ u = a * q + r /\ q >= 0
  BY Division
<1>2. PICK s \in Int, t \in Nat : s = q \div b /\ t < b /\ q = b * s + t
  BY Division
<1>3. PICK c \in Nat \ {0} : c = a * b
  OBVIOUS
<1>4. PICK v \in Int, w \in Nat : v = u \div c /\ w < c /\ u = c * v + w
  BY Division
<1>5. PICK x \in Nat : x = a * t + r /\ x < c
  <2>1. a * t \in Nat /\ a * t <= a * (b - 1)
    BY <1>2
  <2>2. a * (b - 1) = a * b - a
    OBVIOUS
  <2> QED BY <1>1, <1>3, <2>1, <2>2
<1>6. u = c * s + x
  <2>1. u = a * (b * s + t) + r
    BY <1>1, <1>2
  <2>2. a * (b * s + t) + r = (a * b) * s + (a * t + r)
    OBVIOUS
  <2> QED BY <1>3, <1>5, <2>1, <2>2
<1>7. s = v
  BY <1>4, <1>5, <1>6, OneQuotient
<1> QED BY <1>1, <1>2, <1>3, <1>4, <1>7
(* Induction over the numbers, for a set instead of a predicate: one with  *)
(* 0 and the successor of each of its elements has them all, as otherwise  *)
(* there would be a least number that it lacks.                            *)
LEMMA SetInduction ==
    ASSUME NEW T, 0 \in T, \A n \in Nat : n \in T => n + 1 \in T
    PROVE  Nat \subseteq T
<1> DEFINE R == {ss \in Nat \X Nat : ss[1] < ss[2]}
           U == Nat \ T
<1>1. IsWellFoundedOn(R, Nat)
  BY NatLessThanWellFounded DEF OpToRel
<1>2. \A m, n \in Nat : m < n => <<m, n>> \in R
  OBVIOUS
<1> SUFFICES ASSUME U # {} PROVE FALSE
  OBVIOUS
<1>0. U \subseteq Nat
  OBVIOUS
<1> HIDE DEF R
<1>3. PICK w \in U : \A y \in U : ~(<<y, w>> \in R)
  <2> HIDE DEF U
  <2> QED BY <1>0, <1>1, WFMin
<1>4. w \in Nat /\ w # 0
  BY <1>3
<1>5. w - 1 \in Nat /\ w - 1 < w /\ (w - 1) + 1 = w
  BY <1>4
<1>6. w - 1 \notin U
  BY <1>2, <1>3, <1>4, <1>5
<1> QED BY <1>3, <1>5, <1>6

(* The powers up to the m-th: pow is put together of these functions.      *)
PowUpTo(m) == CHOOSE f : f = [i \in 0..m |-> IF i = 0 THEN 1 ELSE Base * f[i - 1]]

(* They satisfy the equation by which pow is defined. *)
LEMMA PowUpToExists ==
    \A m \in Nat : PowUpTo(m) = [i \in 0..m |-> IF i = 0 THEN 1 ELSE Base * PowUpTo(m)[i - 1]]
<1> DEFINE P(m) == \E f : f = [i \in 0..m |-> IF i = 0 THEN 1 ELSE Base * f[i - 1]]
           T == {m \in Nat : P(m)}
<1>1. P(0)
  <2> DEFINE f == [i \in 0..0 |-> 1]
  <2>1. f = [i \in 0..0 |-> IF i = 0 THEN 1 ELSE Base * f[i - 1]]
    OBVIOUS
  <2> QED BY <2>1
<1>2. ASSUME NEW m \in Nat, m \in T PROVE P(m + 1)
  <2>1. PICK f : f = [i \in 0..m |-> IF i = 0 THEN 1 ELSE Base * f[i - 1]]
    BY <1>2
  <2> DEFINE g == [i \in 0..(m + 1) |-> IF i = m + 1 THEN Base * f[m] ELSE f[i]]
  <2>2. ASSUME NEW i \in 0..(m + 1) PROVE g[i] = IF i = 0 THEN 1 ELSE Base * g[i - 1]
    <3>1. CASE i = m + 1
      BY <3>1
    <3>2. CASE i # m + 1
      <4>1. i \in 0..m /\ g[i] = f[i]
        BY <3>2
      <4>2. f[i] = IF i = 0 THEN 1 ELSE Base * f[i - 1]
        BY <2>1, <4>1
      <4>3. i # 0 => i - 1 \in 0..(m + 1) /\ i - 1 # m + 1
        BY <4>1
      <4> QED BY <4>1, <4>2, <4>3
    <3> QED BY <3>1, <3>2
  <2>3. g = [i \in 0..(m + 1) |-> IF i = 0 THEN 1 ELSE Base * g[i - 1]]
    BY <2>2
  <2> HIDE DEF g
  <2> QED BY <2>3
<1>3. 0 \in T /\ \A m \in Nat : m \in T => m + 1 \in T
  <2> HIDE DEF P
  <2> QED BY <1>1, <1>2
<1>4. Nat \subseteq T
  <2> HIDE DEF T
  <2> QED BY <1>3, SetInduction
<1> SUFFICES ASSUME NEW m \in Nat
             PROVE  PowUpTo(m) = [i \in 0..m |-> IF i = 0 THEN 1 ELSE Base * PowUpTo(m)[i - 1]]
  OBVIOUS
<1>5. P(m)
  BY <1>4
<1> QED BY <1>5 DEF PowUpTo

(* One power more does not change those before it. *)
LEMMA PowUpToAgree ==
    \A m \in Nat : PowUpTo(m + 1)[m] = PowUpTo(m)[m]
<1> SUFFICES ASSUME NEW m \in Nat PROVE PowUpTo(m + 1)[m] = PowUpTo(m)[m]
  OBVIOUS
<1> DEFINE F == PowUpTo(m)
           G == PowUpTo(m + 1)
           T == {i \in Nat : i <= m => G[i] = F[i]}
<1>1. \A i \in 0..m : F[i] = IF i = 0 THEN 1 ELSE Base * F[i - 1]
  BY PowUpToExists
<1>2. \A i \in 0..(m + 1) : G[i] = IF i = 0 THEN 1 ELSE Base * G[i - 1]
  BY PowUpToExists
<1> HIDE DEF F, G
<1>3. 0 \in T
  BY <1>1, <1>2
<1>4. ASSUME NEW i \in Nat, i \in T PROVE i + 1 \in T
  <2> SUFFICES ASSUME i + 1 <= m PROVE G[i + 1] = F[i + 1]
    OBVIOUS
  <2>1. i <= m /\ i + 1 \in 0..m /\ i + 1 \in 0..(m + 1) /\ i + 1 # 0 /\ (i + 1) - 1 = i
    OBVIOUS
  <2> QED BY <1>1, <1>2, <1>4, <2>1
<1>5. Nat \subseteq T
  <2> HIDE DEF T
  <2> QED BY <1>3, <1>4, SetInduction
<1> QED BY <1>5 DEF F, G

(* What pow computes. *)
LEMMA PowSteps ==
    pow[0] = 1 /\ \A n \in Nat : pow[n + 1] = Base * pow[n]
<1> DEFINE F == [n \in Nat |-> PowUpTo(n)[n]]
<1>0. \A n \in Nat : \A i \in 0..n : PowUpTo(n)[i] = IF i = 0 THEN 1 ELSE Base * PowUpTo(n)[i - 1]
  <2> SUFFICES ASSUME NEW n \in Nat, NEW i \in 0..n
               PROVE  PowUpTo(n)[i] = IF i = 0 THEN 1 ELSE Base * PowUpTo(n)[i - 1]
    OBVIOUS
  <2> DEFINE f == PowUpTo(n)
  <2>1. f = [j \in 0..n |-> IF j = 0 THEN 1 ELSE Base * f[j - 1]]
    BY PowUpToExists
  <2> HIDE DEF f
  <2>2. f[i] = IF i = 0 THEN 1 ELSE Base * f[i - 1]
    BY <2>1
  <2> QED BY <2>2 DEF f
<1>1. ASSUME NEW n \in Nat PROVE F[n] = IF n = 0 THEN 1 ELSE Base * F[n - 1]
  <2>1. n \in 0..n
    OBVIOUS
  <2>2. PowUpTo(n)[n] = IF n = 0 THEN 1 ELSE Base * PowUpTo(n)[n - 1]
    BY <1>0, <2>1
  <2>3. CASE n # 0
    <3>1. n - 1 \in Nat /\ (n - 1) + 1 = n
      BY <2>3
    <3>2. PowUpTo(n)[n - 1] = PowUpTo(n - 1)[n - 1]
      BY <3>1, PowUpToAgree
    <3> QED BY <2>2, <2>3, <3>1, <3>2
  <2>4. CASE n = 0
    BY <2>2, <2>4
  <2> QED BY <2>3, <2>4
<1>2. F = [n \in Nat |-> IF n = 0 THEN 1 ELSE Base * F[n - 1]]
  BY <1>1
<1> HIDE DEF F
<1>3. pow = [n \in Nat |-> IF n = 0 THEN 1 ELSE Base * pow[n - 1]]
  BY <1>2 DEF pow
<1>4. \A n \in Nat : pow[n] = IF n = 0 THEN 1 ELSE Base * pow[n - 1]
  BY <1>3
<1>5. ASSUME NEW n \in Nat PROVE pow[n + 1] = Base * pow[n]
  <2>1. n + 1 \in Nat /\ n + 1 # 0 /\ (n + 1) - 1 = n
    OBVIOUS
  <2> QED BY <1>4, <2>1
<1> QED BY <1>4, <1>5

(* Powers of the base are positive *)
LEMMA PowPositive == \A n \in Nat : pow[n] \in Nat \ {0}
<1> DEFINE T == {n \in Nat : pow[n] \in Nat \ {0}}
<1>1. 0 \in T
  BY PowSteps
<1>2. ASSUME NEW n \in Nat, n \in T PROVE n + 1 \in T
  <2>1. PICK p \in Nat \ {0} : p = pow[n]
    BY <1>2
  <2>2. Base * p \in Nat \ {0}
    BY BaseIsPositive
  <2> QED BY <2>1, <2>2, PowSteps
<1>3. Nat \subseteq T
  <2> HIDE DEF T
  <2> QED BY <1>1, <1>2, SetInduction
<1> QED BY <1>3

(* The digits of a number determine it. *)
LEMMA SameDigits ==
    ASSUME NEW n \in Nat, NEW u \in Nat, NEW v \in Nat, u < pow[n], v < pow[n],
           \A i \in 1..n : (u \div pow[i - 1]) % Base = (v \div pow[i - 1]) % Base
    PROVE  u = v
<1> DEFINE T == {k \in Nat : k <= n => u \div pow[n - k] = v \div pow[n - k]}
<1>1. 0 \in T
  <2>1. PICK p \in Nat \ {0} : p = pow[n]
    BY PowPositive
  <2>2. ASSUME NEW w \in Nat, w < p PROVE w \div p = 0
    <3>1. PICK q \in Int, r \in Nat : q = w \div p /\ r < p /\ w = p * q + r
      BY Division
    <3>2. w = p * 0 + w
      OBVIOUS
    <3>3. q = 0
      BY <2>2, <3>1, <3>2, OneQuotient
    <3> QED BY <3>1, <3>3
  <2>3. u \div p = 0 /\ v \div p = 0
    BY <2>1, <2>2
  <2>4. n - 0 = n
    OBVIOUS
  <2> QED BY <2>1, <2>3, <2>4
<1>2. ASSUME NEW k \in Nat, k \in T PROVE k + 1 \in T
  <2> SUFFICES ASSUME k + 1 <= n PROVE u \div pow[n - (k + 1)] = v \div pow[n - (k + 1)]
    OBVIOUS
  <2>1. PICK j \in Nat : j = n - (k + 1) /\ n - k = j + 1 /\ j + 1 \in 1..n /\ (j + 1) - 1 = j
    OBVIOUS
  <2>2. PICK p \in Nat \ {0} : p = pow[j]
    BY PowPositive
  <2>3. pow[j + 1] = p * Base
    <3>1. pow[j + 1] = Base * p
      BY <2>2, PowSteps
    <3>2. Base * p = p * Base
      BY BaseIsPositive
    <3> QED BY <3>1, <3>2
  <2>4. Base \in Nat \ {0}
    BY BaseIsPositive
  <2>5. (u \div p) \div Base = (v \div p) \div Base
    <3>1. u \div (p * Base) = v \div (p * Base)
      BY <1>2, <2>1, <2>3
    <3>2. (u \div p) \div Base = u \div (p * Base) /\ (v \div p) \div Base = v \div (p * Base)
      BY <2>4, DividedTwice
    <3> QED BY <3>1, <3>2
  <2>6. (u \div p) % Base = (v \div p) % Base
    BY <2>1, <2>2
  <2>7. PICK q \in Int : q = u \div p
    <3>1. u \in Int
      OBVIOUS
    <3> QED BY <3>1, Division
  <2>8. PICK r \in Int : r = v \div p
    <3>1. v \in Int
      OBVIOUS
    <3> QED BY <3>1, Division
  <2>9. PICK s \in Int, t \in Nat : s = q \div Base /\ t = q % Base /\ q = Base * s + t
    BY <2>4, Division
  <2>10. PICK x \in Int, y \in Nat : x = r \div Base /\ y = r % Base /\ r = Base * x + y
    BY <2>4, Division
  <2>11. s = x /\ t = y
    BY <2>5, <2>6, <2>7, <2>8, <2>9, <2>10
  <2>12. q = r
    BY <2>9, <2>10, <2>11
  <2> QED BY <2>1, <2>2, <2>7, <2>8, <2>12
<1>3. n \in T
  <2> HIDE DEF T
  <2> QED BY <1>1, <1>2, SetInduction
<1>4. u \div pow[0] = v \div pow[0]
  <2>1. n <= n /\ n - n = 0
    OBVIOUS
  <2> QED BY <1>3, <2>1
<1>5. u \div 1 = u /\ v \div 1 = v
  OBVIOUS
<1> QED BY <1>4, <1>5, PowSteps

(* Numbers less than p apart that leave the same remainder are the same. *)
LEMMA SameRemainder ==
    ASSUME NEW p \in Nat \ {0}, NEW x \in Int, NEW y \in Int,
           x - y < p, x - y > -p, x % p = y % p
    PROVE  x = y
<1>1. PICK s \in Int, r \in Nat : /\ s = x \div p /\ r = x % p
                                  /\ r < p /\ x = p * s + r
                                  /\ x >= 0 => s >= 0
  BY Division
<1>2. PICK t \in Int, q \in Nat : /\ t = y \div p /\ q = y % p
                                  /\ q < p /\ y = p * t + q
                                  /\ y >= 0 => t >= 0
  BY Division
<1>3. r = q
  BY <1>1, <1>2
<1>4. p * (s - t) = x - y
  <2>1. p * (s - t) = p * s - p * t
    OBVIOUS
  <2>2. p * s \in Int /\ p * t \in Int
    OBVIOUS
  <2> QED BY <1>1, <1>2, <1>3, <2>1, <2>2
<1>5. ~(s - t >= 1)
  <2> SUFFICES ASSUME s - t >= 1 PROVE FALSE
    OBVIOUS
  <2>1. p * (s - t) >= p
    OBVIOUS
  <2> QED BY <1>4, <2>1
<1>6. ~(s - t <= -1)
  <2> SUFFICES ASSUME s - t <= -1 PROVE FALSE
    OBVIOUS
  <2>1. p * (s - t) <= -p
    OBVIOUS
  <2> QED BY <1>4, <2>1
<1>7. s = t
  BY <1>5, <1>6
<1> QED BY <1>1, <1>2, <1>3, <1>7

(* In two's complement an integer is known by its lowest bytes: the        *)
(* integers of a width are less than pow[n] apart, also when pow[n] is     *)
(* odd.                                                                    *)
LEMMA TwosComplement ==
    ASSUME NEW n \in Nat, NEW x \in Ints(n), NEW y \in Ints(n), x % pow[n] = y % pow[n]
    PROVE  x = y
<1>1. PICK p \in Nat \ {0} : p = pow[n]
  BY PowPositive
<1>2. PICK h \in Int : h = p \div 2
  OBVIOUS
<1>3. 2 * h <= p
  BY <1>2
<1>4. x \in Int /\ y \in Int /\ x >= -h /\ x < h /\ y >= -h /\ y < h
  BY <1>1, <1>2 DEF Ints
<1>5. x - y < p /\ x - y > -p
  BY <1>3, <1>4
<1> QED BY <1>1, <1>4, <1>5, SameRemainder

(* An integer in memory is bytes, and comes out of memory as it was. *)
LEMMA HostBytesTravel ==
    ASSUME NEW n \in Nat, NEW x \in Ints(n)
    PROVE  /\ HostBytes(x, n) \in Seq(Byte) /\ Len(HostBytes(x, n)) = n
           /\ HostInt(HostBytes(x, n)) = x
<1>1. PICK p \in Nat \ {0} : p = pow[n]
  BY PowPositive
<1>2. \A z \in Ints(n) : z \in Int
  <2>1. p \div 2 \in Int
    OBVIOUS
  <2> QED BY <1>1, <2>1 DEF Ints
<1>3. \A z \in Ints(n) : z % p \in Nat /\ z % p < p
  BY <1>2
<1>4. ASSUME NEW z \in Ints(n)
      PROVE  HostBytes(z, n) \in Seq(Byte) /\ Len(HostBytes(z, n)) = n
  <2>1. ASSUME NEW i \in 1..n PROVE ((z % p) \div pow[i - 1]) % Base \in Byte
    <3>1. PICK a \in Nat \ {0} : a = pow[i - 1]
      <4>1. i - 1 \in Nat
        OBVIOUS
      <4> QED BY <4>1, PowPositive
    <3>2. PICK w \in Nat : w = z % p
      BY <1>3
    <3>3. PICK q \in Int : q = w \div a
      OBVIOUS
    <3>4. q % Base \in Nat /\ q % Base < Base
      BY BaseIsPositive
    <3> QED BY <3>1, <3>2, <3>3, <3>4, BaseIsPositive
  <2>2. HostBytes(z, n) \in [1..n -> Byte]
    BY <1>1, <2>1 DEF HostBytes
  <2> QED BY <2>2, ByteSeq
<1>5. ASSUME NEW z \in Ints(n), HostBytes(z, n) = HostBytes(x, n) PROVE z = x
  <2>1. PICK u \in Nat, v \in Nat : u = z % p /\ v = x % p /\ u < p /\ v < p
    BY <1>3
  <2>2. ASSUME NEW i \in 1..n PROVE (u \div pow[i - 1]) % Base = (v \div pow[i - 1]) % Base
    <3>1. HostBytes(z, n)[i] = (u \div pow[i - 1]) % Base
      BY <1>1, <2>1 DEF HostBytes
    <3>2. HostBytes(x, n)[i] = (v \div pow[i - 1]) % Base
      BY <1>1, <2>1 DEF HostBytes
    <3> QED BY <1>5, <3>1, <3>2
  <2>3. u = v
    BY <1>1, <2>1, <2>2, SameDigits
  <2> QED BY <1>1, <2>1, <2>3, TwosComplement
<1>6. HostInt(HostBytes(x, n)) = CHOOSE z \in Ints(n) : HostBytes(z, n) = HostBytes(x, n)
  BY <1>4 DEF HostInt
<1>7. HostInt(HostBytes(x, n)) = x
  BY <1>5, <1>6
<1> QED BY <1>4, <1>7
-----------------------------------------------------------------------------
(* Integers in a Buffer. *)

(* The bytes of an integer on the wire, and back. *)
LEMMA WireBytes ==
    ASSUME NEW n \in Nat, NEW x \in Ints(n)
    PROVE  \E wire \in Seq(Byte) :
              /\ wire = hostToNetwork(HostBytes(x, n)) /\ Len(wire) = n
              /\ HostInt(networkToHost(wire)) = x
              /\ \A i \in 1..n : wire[i] = ((x % pow[n]) \div pow[n - i]) % Base
<1>1. PICK host \in Seq(Byte) : host = HostBytes(x, n) /\ Len(host) = n /\ HostInt(host) = x
  BY HostBytesTravel
<1> DEFINE wire == Reverse(host)
<1>2. wire = [i \in 1..n |-> host[(n - i) + 1]]
  BY <1>1 DEF Reverse
<1>3. \A i \in 1..n : /\ (n - i) + 1 \in 1..n /\ ((n - i) + 1) - 1 = n - i
                      /\ (n - ((n - i) + 1)) + 1 = i
  OBVIOUS
<1>4. wire \in [1..n -> Byte]
  BY <1>1, <1>2, <1>3
<1>5. wire \in Seq(Byte) /\ Len(wire) = n
  BY <1>4, ByteSeq
<1>6. \A i \in 1..n : wire[i] = host[(n - i) + 1]
  BY <1>2
<1> HIDE DEF wire
<1>7. Reverse(wire) = host
  <2>1. Reverse(wire) = [i \in 1..n |-> wire[(n - i) + 1]]
    BY <1>5 DEF Reverse
  <2>2. \A i \in 1..n : wire[(n - i) + 1] = host[i]
    BY <1>3, <1>6
  <2>3. host = [i \in 1..n |-> host[i]]
    BY <1>1
  <2> QED BY <2>1, <2>2, <2>3
<1>8. ASSUME NEW i \in 1..n PROVE wire[i] = ((x % pow[n]) \div pow[n - i]) % Base
  <2>1. HostBytes(x, n)[(n - i) + 1] = ((x % pow[n]) \div pow[((n - i) + 1) - 1]) % Base
    BY <1>3 DEF HostBytes
  <2> QED BY <1>1, <1>3, <1>6, <2>1
<1>9. wire = hostToNetwork(HostBytes(x, n)) /\ HostInt(networkToHost(wire)) = x
  BY <1>1, <1>7 DEF wire, hostToNetwork, networkToHost
<1> QED BY <1>5, <1>8, <1>9

(* The first of two strings, and the second. *)
LEMMA Apart ==
    ASSUME NEW s \in Seq(Byte), NEW t \in Seq(Byte)
    PROVE  /\ SubSeq(s \o t, 1, Len(s)) = s
           /\ [i \in 1..Len(t) |-> (s \o t)[Len(s) + i]] = t
<1>1. Len(s) \in Nat /\ Len(t) \in Nat
  OBVIOUS
<1>2. s \o t \in Seq(Byte) /\ Len(s \o t) = Len(s) + Len(t)
  BY ConcatLen
<1>3. \A i \in 1..(Len(s) + Len(t)) : (s \o t)[i] = IF i <= Len(s) THEN s[i] ELSE t[i - Len(s)]
  BY ConcatAsFunction
<1> DEFINE u == s \o t
<1> HIDE DEF u
<1>4. SubSeq(u, 1, Len(s)) = s
  <2>1. SubSeq(u, 1, Len(s)) \in Seq(Byte) /\ Len(SubSeq(u, 1, Len(s))) = Len(s)
    BY <1>1, <1>2 DEF u
  <2>2. \A i \in 1..Len(s) : SubSeq(u, 1, Len(s))[i] = u[i]
    BY <1>1, <1>2 DEF u
  <2>3. \A i \in 1..Len(s) : u[i] = s[i]
    BY <1>1, <1>3 DEF u
  <2> QED BY <2>1, <2>2, <2>3, SeqEqual
<1>5. [i \in 1..Len(t) |-> u[Len(s) + i]] = t
  <2>1. \A i \in 1..Len(t) : u[Len(s) + i] = t[i]
    <3> TAKE i \in 1..Len(t)
    <3>1. /\ Len(s) + i \in 1..(Len(s) + Len(t)) /\ ~(Len(s) + i <= Len(s))
          /\ (Len(s) + i) - Len(s) = i
      BY <1>1
    <3> QED BY <1>3, <3>1 DEF u
  <2>2. t = [i \in 1..Len(t) |-> t[i]]
    OBVIOUS
  <2> QED BY <2>1, <2>2
<1> QED BY <1>4, <1>5 DEF u

(* The first bytes are read as an integer, and the others stay. *)
LEMMA ReadIntTakes ==
    ASSUME NEW b, Valid(b), NEW n \in Nat, NEW wire \in Seq(Byte), Len(wire) = n,
           NEW rest \in Seq(Byte), Content(b) = wire \o rest
    PROVE  /\ readInt(b, n).result = HostInt(networkToHost(wire))
           /\ Content(readInt(b, n).after) = rest
<1>1. Len(Content(b)) = n + Len(rest) /\ readableBytes(b) = n + Len(rest) /\ Len(rest) \in Nat
  BY ConcatLen, ContentType
<1>2. SubSeq(Content(b), 1, n) = wire
  BY Apart
<1>3. Content(retrieve(b, n)) = [i \in 1..(Len(Content(b)) - n) |-> Content(b)[n + i]]
  <2>1. n <= readableBytes(b)
    BY <1>1
  <2> QED BY <2>1, RetrieveTakes
<1>4. Len(Content(b)) - n = Len(rest)
  BY <1>1
<1>5. Content(retrieve(b, n)) = [i \in 1..Len(rest) |-> (wire \o rest)[Len(wire) + i]]
  BY <1>3, <1>4
<1>6. Content(retrieve(b, n)) = rest
  BY <1>5, Apart
<1> QED BY <1>2, <1>6 DEF readInt, peekInt

(* Integers of every width travel through a Buffer whose indices are in    *)
(* order.                                                                  *)
LEMMA ValidIntsTravel ==
    ASSUME Valid(buf)
    PROVE  IntsTravel
<1> SUFFICES ASSUME NEW n \in Widths, NEW x \in Ints(n)
    PROVE
      /\ LET held == readableBytes(buf)
             with == appendInt(buf, x, n)
             read == readInt(retrieve(with, held), n)
         IN /\ SubSeq(Content(with), 1, held) = Content(buf)
            /\ read.result = x /\ Content(read.after) = <<>>
            /\ \A i \in 1..n :
                 Content(with)[held + i] = ((x % pow[n]) \div pow[n - i]) % Base
      /\ n <= prependableBytes(buf) =>
           LET read == readInt(prependInt(buf, x, n), n)
           IN read.result = x /\ Content(read.after) = Content(buf)
  BY DEF IntsTravel
<1>1. n \in Nat
  BY IntsAssumption
<1>2. PICK wire \in Seq(Byte) :
        /\ wire = hostToNetwork(HostBytes(x, n)) /\ Len(wire) = n
        /\ HostInt(networkToHost(wire)) = x
        /\ \A i \in 1..n : wire[i] = ((x % pow[n]) \div pow[n - i]) % Base
  BY <1>1, WireBytes
<1> DEFINE held == readableBytes(buf)
           old == Content(buf)
           with == appendInt(buf, x, n)
           left == retrieve(with, held)
           read == readInt(left, n)
<1>3. held \in Nat /\ old \in Seq(Byte) /\ Len(old) = held
  BY ContentType
<1>4. Valid(with) /\ Content(with) = old \o wire
  BY <1>2, AppendAdds DEF appendInt, Adds
<1> HIDE DEF held, old, with
<1>5. Len(Content(with)) = held + n /\ readableBytes(with) = held + n
  BY <1>2, <1>3, <1>4, ConcatLen, ContentType
<1>6. SubSeq(Content(with), 1, held) = old
  BY <1>3, <1>4, Apart
<1>7. [i \in 1..n |-> Content(with)[held + i]] = wire
  BY <1>2, <1>3, <1>4, Apart
<1>8. Valid(left) /\ Content(left) = wire
  <2>1. held <= readableBytes(with)
    BY <1>1, <1>3, <1>5
  <2>2. /\ Valid(left)
        /\ Content(left) = [i \in 1..(Len(Content(with)) - held) |-> Content(with)[held + i]]
    BY <1>3, <1>4, <2>1, RetrieveTakes
  <2>3. Len(Content(with)) - held = n
    BY <1>1, <1>3, <1>5
  <2> QED BY <1>7, <2>2, <2>3
<1> HIDE DEF left
<1>9. read.result = x /\ Content(read.after) = <<>>
  <2>1. <<>> \in Seq(Byte) /\ wire = wire \o <<>>
    OBVIOUS
  <2>2. Content(left) = wire \o <<>> /\ Valid(left) /\ Len(wire) = n
    BY <1>2, <1>8, <2>1
  <2>3. read.result = HostInt(networkToHost(wire)) /\ Content(read.after) = <<>>
    BY <1>1, <2>1, <2>2, ReadIntTakes, Zenon
  <2> QED BY <1>2, <2>3, Zenon
<1>10. \A i \in 1..n : Content(with)[held + i] = ((x % pow[n]) \div pow[n - i]) % Base
  <2>1. \A i \in 1..n : Content(with)[held + i] = wire[i]
    BY <1>7
  <2> QED BY <1>2, <2>1
<1>11. ASSUME n <= prependableBytes(buf)
       PROVE  /\ readInt(prependInt(buf, x, n), n).result = x
              /\ Content(readInt(prependInt(buf, x, n), n).after) = old
  <2> DEFINE pre == prependInt(buf, x, n)
  <2>1. Valid(pre) /\ Content(pre) = wire \o old
    BY <1>2, <1>11, PrependAdds DEF prependInt, old
  <2> HIDE DEF pre
  <2>2. Len(wire) = n /\ old \in Seq(Byte)
    BY <1>2, <1>3
  <2>3. /\ readInt(pre, n).result = HostInt(networkToHost(wire))
        /\ Content(readInt(pre, n).after) = old
    BY <1>1, <2>1, <2>2, ReadIntTakes, Zenon
  <2> QED BY <1>2, <2>3, Zenon DEF pre
<1> QED BY <1>6, <1>9, <1>10, <1>11 DEF held, old, with, left

(* Whatever calls came before: integers that are put into a Buffer of any  *)
(* sizes come out as they were, for every width and every number of values *)
(* of a byte.                                                              *)
THEOREM IntegersTravel == Spec => []IntsTravel
<1>1. IndexOrder => IntsTravel
  BY OrderIsValid, ValidIntsTravel
<1> QED BY <1>1, IndicesInOrder, PTL
=============================================================================
