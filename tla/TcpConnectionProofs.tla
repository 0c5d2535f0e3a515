------------------------ MODULE TcpConnectionProofs ------------------------
(***************************************************************************)
(* Theorems about Buffer and TcpConnection, for any bytes, messages and    *)
(* sizes.  The lemmas of the first part say what each operation of Buffer  *)
(* does to the readable bytes, so that in the second a Buffer is the       *)
(* sequence it holds.                                                      *)
(***************************************************************************)
EXTENDS TcpConnection, SequenceTheorems, WellFoundedInduction, TLAPS

-----------------------------------------------------------------------------
(* Buffer.                                                                 *)

\* What every operation keeps: the indices are in order and in the vector.
Valid(b) ==
    /\ b.size \in Nat /\ kCheapPrepend <= b.size
    /\ b \in BufferOf(b.size)
    /\ b.readerIndex_ <= b.writerIndex_

\* A sequence cut in two after its first k elements.
IsSplit(S, s, k) ==
    /\ SubSeq(s, 1, k) \in Seq(S) /\ Len(SubSeq(s, 1, k)) = k
    /\ SubSeq(s, k + 1, Len(s)) \in Seq(S)
    /\ Len(SubSeq(s, k + 1, Len(s))) = Len(s) - k
    /\ s = SubSeq(s, 1, k) \o SubSeq(s, k + 1, Len(s))

LEMMA SplitAt ==
    ASSUME NEW S, NEW s \in Seq(S), NEW k \in 0 .. Len(s)
    PROVE  IsSplit(S, s, k)
<1> DEFINE s1 == SubSeq(s, 1, k)
           s2 == SubSeq(s, k + 1, Len(s))
<1>1. Len(s) \in Nat /\ \A i \in 1 .. Len(s) : s[i] \in S
  BY LenProperties, ElementOfSeq
<1>2. s1 \in Seq(S) /\ Len(s1) = k
  <2>1. \A i \in 1 .. k : s[i] \in S
    BY <1>1
  <2>2. s1 \in Seq(S) /\ Len(s1) = IF 1 <= k THEN k - 1 + 1 ELSE 0
    BY <1>1, <2>1, SubSeqProperties
  <2> HIDE DEF s1
  <2> QED
    BY <1>1, <2>2
<1>3. s2 \in Seq(S) /\ Len(s2) = Len(s) - k
  <2>1. \A i \in k + 1 .. Len(s) : s[i] \in S
    BY <1>1
  <2>2. /\ s2 \in Seq(S)
        /\ Len(s2) = IF k + 1 <= Len(s) THEN Len(s) - (k + 1) + 1 ELSE 0
    BY <1>1, <2>1, SubSeqProperties
  <2> HIDE DEF s2
  <2> QED
    BY <1>1, <2>2
<1>4. s1 \o s2 = SubSeq(s, 1, Len(s))
  <2>1. /\ 1 \in 1 .. Len(s) + 1 /\ k \in 1 - 1 .. Len(s)
        /\ Len(s) \in k .. Len(s)
    BY <1>1
  <2> QED
    BY <2>1, ConcatAdjacentSubSeq
<1>5. SubSeq(s, 1, Len(s)) = s
  BY SubSeqFull
<1> QED
  BY <1>2, <1>3, <1>4, <1>5 DEF IsSplit

\* The fields of a buffer, as the proofs use them.
LEMMA ValidFields ==
    ASSUME NEW b, Valid(b)
    PROVE  /\ b.size \in Nat /\ b.readerIndex_ \in Nat /\ b.writerIndex_ \in Nat
           /\ kCheapPrepend \in Nat /\ kCheapPrepend <= b.size
           /\ b.readerIndex_ <= b.writerIndex_ /\ b.writerIndex_ <= b.size
           /\ b.buffer_ \in [0 .. b.size - 1 -> Byte]
           /\ ReadableBytes(b) \in Nat /\ WritableBytes(b) \in Nat
BY BufferConstants DEF Valid, BufferOf, ReadableBytes, WritableBytes

\* The readable bytes are a sequence, one for each cell between the indices.
LEMMA ContentsProperties ==
    ASSUME NEW b, Valid(b)
    PROVE  /\ Contents(b) \in Seq(Byte)
           /\ Len(Contents(b)) = ReadableBytes(b)
           /\ \A i \in 1 .. ReadableBytes(b) :
                 Contents(b)[i] = b.buffer_[b.readerIndex_ + i - 1]
<1> DEFINE n == ReadableBytes(b)
           byte(i) == b.buffer_[b.readerIndex_ + i - 1]
<1>1. n \in Nat
  BY ValidFields
<1>2. ASSUME NEW i \in 1 .. n PROVE byte(i) \in Byte
  <2>1. b.readerIndex_ + i - 1 \in 0 .. b.size - 1
    BY <1>2, ValidFields DEF ReadableBytes
  <2> QED
    BY <2>1, ValidFields
<1>3. Contents(b) = [i \in 1 .. n |-> byte(i)]
  BY DEF Contents
<1> HIDE DEF n, byte
<1>4. [i \in 1 .. n |-> byte(i)] \in Seq(Byte)
  BY <1>1, <1>2, IsASeq
<1> QED
  BY <1>1, <1>3, <1>4, LenProperties DEF n, byte

\* A way to show what a buffer holds: byte by byte.
LEMMA ContentsEqual ==
    ASSUME NEW b, Valid(b), NEW s \in Seq(Byte), Len(s) = ReadableBytes(b),
           \A i \in 1 .. Len(s) : b.buffer_[b.readerIndex_ + i - 1] = s[i]
    PROVE  Contents(b) = s
BY ContentsProperties, SeqEqual

\* Equal indices leave nothing to read.
LEMMA EmptyContents ==
    ASSUME NEW b, Valid(b), ReadableBytes(b) = 0
    PROVE  Contents(b) = <<>>
<1>1. Contents(b) \in Seq(Byte) /\ Len(Contents(b)) = 0
  BY ContentsProperties
<1>2. <<>> \in Seq(Byte) /\ Len(<<>>) = 0
  BY EmptySeq
<1> QED
  BY <1>1, EmptySeq

\* The constructor's buffer is empty, and its three asserts hold.
LEMMA NewBufferIsEmpty ==
    /\ Valid(NewBuffer) /\ Contents(NewBuffer) = <<>>
    /\ ReadableBytes(NewBuffer) = 0
    /\ WritableBytes(NewBuffer) = kInitialSize
    /\ PrependableBytes(NewBuffer) = kCheapPrepend
<1> DEFINE n == kCheapPrepend + kInitialSize
<1>1. /\ NewBuffer.size = n /\ NewBuffer.buffer_ = [i \in 0 .. n - 1 |-> Zero]
      /\ NewBuffer.readerIndex_ = kCheapPrepend
      /\ NewBuffer.writerIndex_ = kCheapPrepend
  BY DEF NewBuffer
<1>2. Valid(NewBuffer)
  BY BufferConstants DEF Valid, BufferOf, NewBuffer
<1>3. ReadableBytes(NewBuffer) = 0
  BY <1>1, BufferConstants DEF ReadableBytes
<1>4. Contents(NewBuffer) = <<>>
  BY <1>2, <1>3, EmptyContents
<1>5. WritableBytes(NewBuffer) = kInitialSize
  BY <1>1, BufferConstants DEF WritableBytes
<1> QED
  BY <1>1, <1>2, <1>3, <1>4, <1>5 DEF PrependableBytes

\* retrieve takes the first bytes and keeps the others, in order.
LEMMA RetrieveTakesFirst ==
    ASSUME NEW b, Valid(b), NEW n \in 0 .. ReadableBytes(b)
    PROVE  /\ Valid(Retrieve(b, n))
           /\ ReadableBytes(Retrieve(b, n)) = ReadableBytes(b) - n
           /\ SubSeq(Contents(b), 1, n) \in Seq(Byte)
           /\ Len(SubSeq(Contents(b), 1, n)) = n
           /\ Contents(b) = SubSeq(Contents(b), 1, n) \o Contents(Retrieve(b, n))
<1> DEFINE r == Retrieve(b, n)
           first == SubSeq(Contents(b), 1, n)
<1>1. /\ r.size = b.size /\ r.buffer_ = b.buffer_
      /\ r.writerIndex_ = b.writerIndex_
      /\ r.readerIndex_ = b.readerIndex_ + n
  BY DEF Retrieve, Valid, BufferOf
<1>2. b.readerIndex_ + n \in 0 .. b.size /\ b.readerIndex_ + n <= b.writerIndex_
  BY ValidFields DEF ReadableBytes
<1>3. Valid(r)
  BY <1>1, <1>2 DEF Valid, BufferOf, Retrieve
<1>4. ReadableBytes(r) = ReadableBytes(b) - n
  BY <1>1, ValidFields DEF ReadableBytes
<1>5. /\ Contents(b) \in Seq(Byte) /\ Len(Contents(b)) = ReadableBytes(b)
      /\ Contents(r) \in Seq(Byte) /\ Len(Contents(r)) = ReadableBytes(b) - n
  BY <1>3, <1>4, ContentsProperties
<1>6. /\ first \in Seq(Byte) /\ Len(first) = n
      /\ \A i \in 1 .. n : first[i] = Contents(b)[i]
  <2>1. \A i \in 1 .. n : Contents(b)[i] \in Byte
    BY <1>5, ElementOfSeq, ValidFields
  <2>2. /\ SubSeq(Contents(b), 1, n) \in Seq(Byte)
        /\ Len(SubSeq(Contents(b), 1, n)) = IF 1 <= n THEN n - 1 + 1 ELSE 0
        /\ \A i \in 1 .. n - 1 + 1 :
              SubSeq(Contents(b), 1, n)[i] = Contents(b)[1 + i - 1]
    BY <2>1, SubSeqProperties, ValidFields
  <2> QED
    BY <2>2, ValidFields
<1>7. ASSUME NEW i \in 1 .. ReadableBytes(b)
      PROVE  Contents(b)[i] = IF i <= n THEN first[i] ELSE Contents(r)[i - n]
  <2>1. CASE i <= n
    BY <1>6, <2>1, ValidFields
  <2>2. CASE i > n
    <3>1. i - n \in 1 .. ReadableBytes(r)
      BY <1>4, <2>2, ValidFields
    <3>2. Contents(r)[i - n] = r.buffer_[r.readerIndex_ + (i - n) - 1]
      BY <1>3, <3>1, ContentsProperties
    <3>3. Contents(b)[i] = b.buffer_[b.readerIndex_ + i - 1]
      BY ContentsProperties
    <3>4. r.readerIndex_ + (i - n) - 1 = b.readerIndex_ + i - 1
      BY <1>1, ValidFields
    <3> QED
      BY <1>1, <2>2, <3>2, <3>3, <3>4, ValidFields
  <2> QED
    BY <2>1, <2>2, ValidFields
<1> HIDE DEF r, first
<1>8. /\ first \o Contents(r) \in Seq(Byte)
      /\ Len(first \o Contents(r)) = n + (ReadableBytes(b) - n)
      /\ \A i \in 1 .. n + (ReadableBytes(b) - n) :
            (first \o Contents(r))[i] =
                IF i <= n THEN first[i] ELSE Contents(r)[i - n]
  BY <1>5, <1>6, ConcatProperties
<1>9. Contents(b) = first \o Contents(r)
  <2>1. n + (ReadableBytes(b) - n) = ReadableBytes(b)
    BY ValidFields
  <2> QED
    BY <1>5, <1>7, <1>8, <2>1, SeqEqual
<1> QED
  BY <1>3, <1>4, <1>6, <1>9 DEF r, first

\* retrieveUntil takes the bytes before a cell.
LEMMA RetrieveUntilRetrieves ==
    ASSUME NEW b, NEW end
    PROVE  RetrieveUntil(b, end) = Retrieve(b, end - b.readerIndex_)
BY DEF RetrieveUntil

\* retrieveAll leaves nothing.
LEMMA RetrieveAllEmpties ==
    ASSUME NEW b, Valid(b)
    PROVE  /\ Valid(RetrieveAll(b)) /\ Contents(RetrieveAll(b)) = <<>>
           /\ ReadableBytes(RetrieveAll(b)) = 0
<1> DEFINE r == RetrieveAll(b)
<1>1. /\ r.size = b.size /\ r.buffer_ = b.buffer_
      /\ r.readerIndex_ = kCheapPrepend /\ r.writerIndex_ = kCheapPrepend
  BY DEF RetrieveAll, Valid, BufferOf
<1>2. Valid(r)
  <2>1. kCheapPrepend \in 0 .. b.size /\ kCheapPrepend <= kCheapPrepend
    BY ValidFields
  <2>2. r \in BufferOf(b.size)
    BY <2>1 DEF Valid, BufferOf, RetrieveAll
  <2> HIDE DEF r
  <2> QED
    BY <1>1, <2>1, <2>2 DEF Valid
<1>3. ReadableBytes(r) = 0
  BY <1>1, ValidFields DEF ReadableBytes
<1> QED
  BY <1>2, <1>3, EmptyContents

-----------------------------------------------------------------------------
(* Making room.                                                            *)

\* A longer vector holds what the shorter one did.
LEMMA ResizeKeepsContents ==
    ASSUME NEW b, Valid(b), NEW n \in Nat, b.size <= n
    PROVE  /\ Valid(Resize(b, n))
           /\ Contents(Resize(b, n)) = Contents(b)
           /\ ReadableBytes(Resize(b, n)) = ReadableBytes(b)
           /\ WritableBytes(Resize(b, n)) = n - b.writerIndex_
<1> DEFINE r == Resize(b, n)
           cell(i) == IF i < b.size THEN b.buffer_[i] ELSE Zero
<1>1. /\ r.size = n /\ r.buffer_ = [i \in 0 .. n - 1 |-> cell(i)]
      /\ r.readerIndex_ = b.readerIndex_ /\ r.writerIndex_ = b.writerIndex_
  BY DEF Resize, Valid, BufferOf
<1>2. \A i \in 0 .. n - 1 : cell(i) \in Byte
  BY ValidFields, BufferConstants
<1>3. [i \in 0 .. n - 1 |-> cell(i)] \in [0 .. n - 1 -> Byte]
  BY <1>2
<1>4. Valid(r)
  <2>1. b.readerIndex_ \in 0 .. n /\ b.writerIndex_ \in 0 .. n
    BY ValidFields
  <2>2. ASSUME NEW f \in [0 .. n - 1 -> Byte]
        PROVE  [b EXCEPT !.buffer_ = f, !.size = n] \in BufferOf(n)
    BY <2>1 DEF Valid, BufferOf
  <2>3. r \in BufferOf(n)
    BY <1>3, <2>2 DEF Resize
  <2> HIDE DEF r
  <2> QED
    BY <1>1, <2>3, ValidFields DEF Valid
<1>5. ReadableBytes(r) = ReadableBytes(b) /\ WritableBytes(r) = n - b.writerIndex_
  BY <1>1 DEF ReadableBytes, WritableBytes
<1>6. Contents(r) = Contents(b)
  <2>1. ASSUME NEW i \in 1 .. ReadableBytes(b)
        PROVE  r.buffer_[r.readerIndex_ + i - 1] = Contents(b)[i]
    <3>1. /\ b.readerIndex_ + i - 1 \in 0 .. n - 1
          /\ b.readerIndex_ + i - 1 < b.size
      BY ValidFields DEF ReadableBytes
    <3>2. Contents(b)[i] = b.buffer_[b.readerIndex_ + i - 1]
      BY ContentsProperties
    <3> QED
      BY <1>1, <3>1, <3>2
  <2> HIDE DEF r
  <2> QED
    BY <1>4, <1>5, <2>1, ContentsProperties, ContentsEqual
<1> QED
  BY <1>4, <1>5, <1>6

\* What assert(kCheapPrepend < readerIndex_) gives room for.
LEMMA MoveToFrontKeepsContents ==
    ASSUME NEW b, Valid(b), kCheapPrepend < b.readerIndex_
    PROVE  /\ Valid(MoveToFront(b))
           /\ Contents(MoveToFront(b)) = Contents(b)
           /\ ReadableBytes(MoveToFront(b)) = ReadableBytes(b)
           /\ WritableBytes(MoveToFront(b))
                 = WritableBytes(b) + PrependableBytes(b) - kCheapPrepend
<1> DEFINE r == MoveToFront(b)
           from(i) == i - kCheapPrepend + b.readerIndex_
           cell(i) == IF from(i) \in b.readerIndex_ .. b.writerIndex_ - 1
                      THEN b.buffer_[from(i)] ELSE b.buffer_[i]
<1>1. /\ r.size = b.size /\ r.buffer_ = [i \in 0 .. b.size - 1 |-> cell(i)]
      /\ r.readerIndex_ = kCheapPrepend
      /\ r.writerIndex_ = kCheapPrepend + ReadableBytes(b)
  BY DEF MoveToFront, Valid, BufferOf
<1>2. ASSUME NEW i \in 0 .. b.size - 1 PROVE cell(i) \in Byte
  <2>1. \A j \in b.readerIndex_ .. b.writerIndex_ - 1 : j \in 0 .. b.size - 1
    BY ValidFields
  <2> HIDE DEF from
  <2>2. b.buffer_ \in [0 .. b.size - 1 -> Byte]
    BY ValidFields
  <2> QED
    BY <2>1, <2>2
<1>3. [i \in 0 .. b.size - 1 |-> cell(i)] \in [0 .. b.size - 1 -> Byte]
  BY <1>2
<1>4. Valid(r)
  <2>1. /\ kCheapPrepend \in 0 .. b.size
        /\ kCheapPrepend + ReadableBytes(b) \in 0 .. b.size
        /\ kCheapPrepend <= kCheapPrepend + ReadableBytes(b)
    BY ValidFields DEF ReadableBytes
  <2>2. ASSUME NEW f \in [0 .. b.size - 1 -> Byte],
               NEW i \in 0 .. b.size, NEW j \in 0 .. b.size
        PROVE  [b EXCEPT !.buffer_ = f, !.readerIndex_ = i, !.writerIndex_ = j]
                  \in BufferOf(b.size)
    BY DEF Valid, BufferOf
  <2>3. r \in BufferOf(b.size)
    BY <1>3, <2>1, <2>2 DEF MoveToFront
  <2> HIDE DEF r
  <2> QED
    BY <1>1, <2>1, <2>3, ValidFields DEF Valid
<1>5. /\ ReadableBytes(r) = ReadableBytes(b)
      /\ WritableBytes(r) = WritableBytes(b) + PrependableBytes(b) - kCheapPrepend
  <2>1. /\ r.size = b.size /\ r.readerIndex_ = kCheapPrepend
        /\ r.writerIndex_ = kCheapPrepend + (b.writerIndex_ - b.readerIndex_)
    BY <1>1 DEF ReadableBytes
  <2>2. /\ kCheapPrepend \in Int /\ b.size \in Int
        /\ b.readerIndex_ \in Int /\ b.writerIndex_ \in Int
    BY ValidFields
  <2> HIDE DEF r
  <2> QED
    BY <2>1, <2>2 DEF ReadableBytes, WritableBytes, PrependableBytes
<1>6. Contents(r) = Contents(b)
  <2>1. ASSUME NEW i \in 1 .. ReadableBytes(b)
        PROVE  r.buffer_[r.readerIndex_ + i - 1] = Contents(b)[i]
    <3>1. /\ kCheapPrepend + i - 1 \in 0 .. b.size - 1
          /\ from(kCheapPrepend + i - 1) = b.readerIndex_ + i - 1
          /\ b.readerIndex_ + i - 1 \in b.readerIndex_ .. b.writerIndex_ - 1
      BY ValidFields DEF ReadableBytes
    <3>2. Contents(b)[i] = b.buffer_[b.readerIndex_ + i - 1]
      BY ContentsProperties
    <3> HIDE DEF r, from
    <3> QED
      BY <1>1, <3>1, <3>2
  <2> HIDE DEF r
  <2> QED
    BY <1>4, <1>5, <2>1, ContentsProperties, ContentsEqual
<1> QED
  BY <1>4, <1>5, <1>6

\* ensureWritableBytes: the asserts at 117 and 167 hold whatever the buffer
\* and the length are, and the readable bytes are as before.
LEMMA EnsureWritableGivesRoom ==
    ASSUME NEW b, Valid(b), NEW n \in Nat
    PROVE  /\ Valid(EnsureWritableBytes(b, n))
           /\ Contents(EnsureWritableBytes(b, n)) = Contents(b)
           /\ WritableBytes(EnsureWritableBytes(b, n)) >= n
           /\ AppendAsserts(b, n)
<1> DEFINE r == EnsureWritableBytes(b, n)
<1>1. /\ Valid(r) /\ Contents(r) = Contents(b) /\ WritableBytes(r) >= n
  <2>1. CASE WritableBytes(b) < n /\ NeedsGrowth(b, n)
    <3> DEFINE m == b.writerIndex_ + n
    <3>1. r = Resize(b, m)
      BY <2>1 DEF EnsureWritableBytes, MakeSpace
    <3>2. m \in Nat /\ b.size <= m /\ m - b.writerIndex_ = n
      BY <2>1, ValidFields DEF WritableBytes
    <3> HIDE DEF r, m
    <3>3. /\ Valid(Resize(b, m)) /\ Contents(Resize(b, m)) = Contents(b)
          /\ WritableBytes(Resize(b, m)) = m - b.writerIndex_
      BY <3>2, ResizeKeepsContents
    <3> QED
      BY <3>1, <3>2, <3>3
  <2>2. CASE WritableBytes(b) < n /\ ~NeedsGrowth(b, n)
    <3>1. r = MoveToFront(b)
      BY <2>2 DEF EnsureWritableBytes, MakeSpace
    <3>2. /\ kCheapPrepend < b.readerIndex_
          /\ WritableBytes(b) + PrependableBytes(b) - kCheapPrepend >= n
      BY <2>2, ValidFields DEF NeedsGrowth, PrependableBytes
    <3> HIDE DEF r
    <3> QED
      BY <3>1, <3>2, MoveToFrontKeepsContents
  <2>3. CASE ~(WritableBytes(b) < n)
    BY <2>3, ValidFields DEF EnsureWritableBytes
  <2> QED
    BY <2>1, <2>2, <2>3
<1>2. WritableBytes(b) < n /\ ~NeedsGrowth(b, n) => kCheapPrepend < b.readerIndex_
  BY ValidFields DEF NeedsGrowth, PrependableBytes
<1> QED
  BY <1>1, <1>2 DEF AppendAsserts

-----------------------------------------------------------------------------
(* Putting bytes in.                                                       *)

\* What is copied to the writable cells follows what was readable.
LEMMA WriteAppends ==
    ASSUME NEW b, Valid(b), NEW s \in Seq(Byte), Len(s) <= WritableBytes(b)
    PROVE  /\ Valid(Write(b, s))
           /\ Contents(Write(b, s)) = Contents(b) \o s
           /\ WritableBytes(Write(b, s)) = WritableBytes(b) - Len(s)
<1> DEFINE r == Write(b, s)
           n == Len(s)
           w == b.writerIndex_
           cell(i) == IF i \in w .. w + n - 1 THEN s[i - w + 1] ELSE b.buffer_[i]
<1>1. /\ r.size = b.size /\ r.buffer_ = [i \in 0 .. b.size - 1 |-> cell(i)]
      /\ r.readerIndex_ = b.readerIndex_ /\ r.writerIndex_ = w + n
  BY DEF Write, Valid, BufferOf
<1>2. /\ n \in Nat /\ w \in Nat /\ b.size \in Nat /\ b.readerIndex_ \in Nat
      /\ w + n <= b.size /\ b.readerIndex_ <= w
  BY ValidFields, LenProperties DEF WritableBytes
<1>3. ASSUME NEW i \in 0 .. b.size - 1 PROVE cell(i) \in Byte
  <2>1. CASE i \in w .. w + n - 1
    <3>1. i - w + 1 \in 1 .. Len(s)
      BY <1>2, <2>1
    <3> QED
      BY <2>1, <3>1, ElementOfSeq
  <2>2. CASE i \notin w .. w + n - 1
    BY <2>2, ValidFields
  <2> QED
    BY <2>1, <2>2
<1>4. [i \in 0 .. b.size - 1 |-> cell(i)] \in [0 .. b.size - 1 -> Byte]
  BY <1>3
<1>5. Valid(r)
  <2>1. w + n \in 0 .. b.size /\ b.readerIndex_ <= w + n
    BY <1>2
  <2>2. ASSUME NEW f \in [0 .. b.size - 1 -> Byte], NEW j \in 0 .. b.size
        PROVE  [b EXCEPT !.buffer_ = f, !.writerIndex_ = j] \in BufferOf(b.size)
    BY DEF Valid, BufferOf
  <2>3. r \in BufferOf(b.size)
    <3>1. r = [b EXCEPT !.buffer_ = [i \in 0 .. b.size - 1 |-> cell(i)],
                        !.writerIndex_ = w + n]
      BY DEF Write
    <3> HIDE DEF r, cell, n, w
    <3> QED
      BY <1>4, <2>1, <2>2, <3>1
  <2> HIDE DEF r, cell, n, w
  <2> QED
    BY <1>1, <2>1, <2>3, ValidFields DEF Valid
<1>6. /\ ReadableBytes(r) = ReadableBytes(b) + n
      /\ WritableBytes(r) = WritableBytes(b) - n
  <2>1. r.size = b.size /\ r.readerIndex_ = b.readerIndex_ /\ r.writerIndex_ = w + n
    BY <1>1
  <2>2. w = b.writerIndex_
    OBVIOUS
  <2> HIDE DEF r, n, w
  <2> QED
    BY <1>2, <2>1, <2>2 DEF ReadableBytes, WritableBytes
<1>7. /\ Contents(b) \in Seq(Byte) /\ Len(Contents(b)) = ReadableBytes(b)
      /\ ReadableBytes(b) \in Nat /\ ReadableBytes(b) = w - b.readerIndex_
  BY ContentsProperties, ValidFields DEF ReadableBytes
<1>8. /\ Contents(b) \o s \in Seq(Byte)
      /\ Len(Contents(b) \o s) = ReadableBytes(b) + n
      /\ \A i \in 1 .. ReadableBytes(b) + n :
            (Contents(b) \o s)[i] =
                IF i <= ReadableBytes(b) THEN Contents(b)[i]
                                         ELSE s[i - ReadableBytes(b)]
  <2>1. /\ Contents(b) \o s \in Seq(Byte)
        /\ Len(Contents(b) \o s) = Len(Contents(b)) + Len(s)
        /\ \A i \in 1 .. Len(Contents(b)) + Len(s) :
              (Contents(b) \o s)[i] =
                  IF i <= Len(Contents(b)) THEN Contents(b)[i]
                                           ELSE s[i - Len(Contents(b))]
    BY <1>7, ConcatProperties
  <2> QED
    BY <1>7, <2>1
<1>9. ASSUME NEW i \in 1 .. ReadableBytes(b) + n
      PROVE  r.buffer_[r.readerIndex_ + i - 1] = (Contents(b) \o s)[i]
  <2> DEFINE j == b.readerIndex_ + i - 1
  <2>1. j \in 0 .. b.size - 1 /\ r.buffer_[r.readerIndex_ + i - 1] = cell(j)
    <3>1. j \in 0 .. b.size - 1
      <4>1. i \in Nat /\ 1 <= i /\ i <= (w - b.readerIndex_) + n
        BY <1>2, <1>7
      <4> HIDE DEF n, w
      <4> QED
        BY <1>2, <4>1
    <3>2. r.readerIndex_ + i - 1 = j
      BY <1>1
    <3>3. r.buffer_ = [x \in 0 .. b.size - 1 |-> cell(x)]
      BY <1>1
    <3> HIDE DEF cell, r, j
    <3>4. r.buffer_[j] = cell(j)
      BY <3>1, <3>3
    <3> QED
      BY <3>1, <3>2, <3>4
  <2>2. CASE i <= ReadableBytes(b)
    <3>1. j \notin w .. w + n - 1 /\ i \in 1 .. ReadableBytes(b)
      BY <1>2, <1>7, <2>2
    <3>2. Contents(b)[i] = b.buffer_[j]
      BY <3>1, ContentsProperties
    <3>3. cell(j) = b.buffer_[j]
      BY <3>1
    <3> QED
      BY <1>8, <2>1, <2>2, <3>2, <3>3
  <2>3. CASE i > ReadableBytes(b)
    <3>1. j \in w .. w + n - 1 /\ j - w + 1 = i - ReadableBytes(b)
      BY <1>2, <1>7, <2>3
    <3>2. cell(j) = s[i - ReadableBytes(b)]
      BY <3>1
    <3>3. ~(i <= ReadableBytes(b))
      BY <1>7, <2>3
    <3> QED
      BY <1>8, <2>1, <3>2, <3>3
  <2> QED
    BY <1>7, <2>2, <2>3
<1>10. Contents(r) = Contents(b) \o s
  <2> HIDE DEF r, n
  <2> QED
    BY <1>5, <1>6, <1>8, <1>9, ContentsEqual
<1> QED
  BY <1>5, <1>6, <1>10

\* append, whatever room there was.
LEMMA AppendBytesAppends ==
    ASSUME NEW b, Valid(b), NEW s \in Seq(Byte)
    PROVE  /\ Valid(AppendBytes(b, s))
           /\ Contents(AppendBytes(b, s)) = Contents(b) \o s
           /\ AppendAsserts(b, Len(s))
<1> DEFINE r == EnsureWritableBytes(b, Len(s))
<1>1. Len(s) \in Nat
  BY LenProperties
<1>2. /\ Valid(r) /\ Contents(r) = Contents(b) /\ AppendAsserts(b, Len(s))
      /\ WritableBytes(r) >= Len(s) /\ WritableBytes(r) \in Nat
  BY <1>1, EnsureWritableGivesRoom, ValidFields
<1>3. AppendBytes(b, s) = Write(r, s)
  BY DEF AppendBytes
<1> HIDE DEF r
<1>4. Len(s) <= WritableBytes(r)
  BY <1>1, <1>2
<1> QED
  BY <1>2, <1>3, <1>4, WriteAppends

\* readFd: the bytes are in order, though some came through extrabuf.
LEMMA ReadFdAppends ==
    ASSUME NEW b, Valid(b), NEW s \in Seq(Byte)
    PROVE  /\ Valid(ReadFd(b, s))
           /\ Contents(ReadFd(b, s)) = Contents(b) \o s
           /\ ReadFdAsserts(b, s)
<1> DEFINE space == WritableBytes(b)
           s1 == SubSeq(s, 1, space)
           s2 == SubSeq(s, space + 1, Len(s))
<1>1. space \in Nat /\ Len(s) \in Nat
  BY ValidFields, LenProperties
<1>2. CASE Len(s) <= space
  <2>1. ReadFd(b, s) = Write(b, s) /\ ReadFdAsserts(b, s)
    BY <1>1, <1>2 DEF ReadFd, ReadFdAsserts
  <2> QED
    BY <1>2, <2>1, WriteAppends
<1>3. CASE Len(s) > space
  <2>1. /\ s1 \in Seq(Byte) /\ s2 \in Seq(Byte)
        /\ Len(s1) = space /\ Len(s2) = Len(s) - space /\ s = s1 \o s2
    <3> HIDE DEF space
    <3>1. space \in 0 .. Len(s)
      BY <1>1, <1>3
    <3>2. IsSplit(Byte, s, space)
      BY <3>1, SplitAt
    <3> QED
      BY <3>2 DEF IsSplit
  <2> DEFINE f == FillCells(b, s)
  <2>2. Valid(f) /\ Contents(f) = Contents(b) \o s1
    <3>1. f = Write(b, s1) /\ Len(s1) <= WritableBytes(b)
      BY <1>1, <2>1 DEF FillCells
    <3> HIDE DEF f, s1
    <3> QED
      BY <2>1, <3>1, WriteAppends
  <2>3. ReadFd(b, s) = AppendBytes(f, s2)
    BY <1>1, <1>3 DEF ReadFd
  <2>4. ReadFdAsserts(b, s) <=> AppendAsserts(f, Len(s2))
    <3>1. ReadFdAsserts(b, s) <=> AppendAsserts(f, Len(s) - space)
      BY <1>3 DEF ReadFdAsserts
    <3> HIDE DEF f, s2, space
    <3> QED
      BY <2>1, <3>1
  <2>5. (Contents(b) \o s1) \o s2 = Contents(b) \o (s1 \o s2)
    <3>1. /\ Contents(b) \in Seq(Byte)
          /\ s1 \in Seq(Byte) /\ s2 \in Seq(Byte)
      BY <2>1, ContentsProperties
    <3> HIDE DEF s1, s2
    <3> QED
      BY <3>1, ConcatAssociative
  <2> HIDE DEF f, s1, s2
  <2> QED
    BY <2>1, <2>2, <2>3, <2>4, <2>5, AppendBytesAppends
<1> QED
  BY <1>1, <1>2, <1>3

-----------------------------------------------------------------------------
(* Looking for a line.                                                     *)

\* findCRLF: what it finds is a CR LF among the readable bytes.
LEMMA FindCRLFFinds ==
    ASSUME NEW b, Valid(b), NEW start \in Nat,
           FindCRLF(b, start) # -1
    PROVE  /\ FindCRLF(b, start) \in start .. b.writerIndex_ - 2
           /\ b.buffer_[FindCRLF(b, start)] = CR
           /\ b.buffer_[FindCRLF(b, start) + 1] = LF
<1> DEFINE found == {p \in start .. b.writerIndex_ - 2 :
                        b.buffer_[p] = CR /\ b.buffer_[p + 1] = LF}
           less == OpToRel(<, Nat)
<1>1. found # {} /\ FindCRLF(b, start) =
                        CHOOSE p \in found : \A q \in found : p <= q
  BY DEF FindCRLF
<1>2. found \subseteq Nat
  BY ValidFields
<1>3. PICK x \in found : \A q \in found : ~(<<q, x>> \in less)
  <2> HIDE DEF found, less
  <2> QED
    BY <1>1, <1>2, NatLessThanWellFounded, WFMin DEF less
<1>4. \A q \in found : x <= q
  <2>1. ASSUME NEW q \in found, ~(x <= q) PROVE FALSE
    <3>1. <<q, x>> \in less
      BY <1>2, <2>1 DEF OpToRel
    <3> QED
      BY <1>3, <3>1
  <2> QED
    BY <2>1
<1>5. FindCRLF(b, start) \in found
  <2> HIDE DEF found
  <2> QED
    BY <1>1, <1>4
<1> QED
  BY <1>5

-----------------------------------------------------------------------------
(* The connection: the inductive invariant.                                *)

\* What was read is what was taken, followed by what is in inputBuffer_.
InputInv ==
    /\ Valid(inputBuffer_) /\ inCallback \in BOOLEAN
    /\ received \in Seq(Byte) /\ taken \in Seq(Byte)
    /\ nread \in 0 .. Len(received)
    /\ SubSeq(received, 1, nread) = taken \o Contents(inputBuffer_)

\* What was accepted is what was written, followed by what is in
\* outputBuffer_, and the channel asks for EPOLLOUT while there is any.
OutputInv ==
    /\ Valid(outputBuffer_)
    /\ writing \in BOOLEAN /\ fin \in BOOLEAN /\ fault \in BOOLEAN
    /\ room \in 0 .. SockRoom
    /\ accepted \in Seq(Byte) /\ wire \in Seq(Byte)
    /\ accepted = wire \o Contents(outputBuffer_)
    /\ writing <=> ReadableBytes(outputBuffer_) # 0
    /\ fin => ~writing

ConnectionInv == InputInv /\ OutputInv /\ assertFailed = FALSE

-----------------------------------------------------------------------------
(* Prefixes.                                                               *)

LEMMA PrefixOfConcat ==
    ASSUME NEW S, NEW s \in Seq(S), NEW t \in Seq(S)
    PROVE  IsPrefix(s, s \o t)
<1>1. /\ s \o t \in Seq(S) /\ Len(s \o t) = Len(s) + Len(t)
      /\ Len(s) \in Nat /\ Len(t) \in Nat
      /\ \A i \in 1 .. Len(s) : (s \o t)[i] = s[i]
  BY ConcatProperties, LenProperties
<1>2. SubSeq(s, 1, Len(s)) = SubSeq(s \o t, 1, Len(s))
  <2>1. CASE Len(s) = 0
    BY <1>1, <2>1, SubSeqEmpty
  <2>2. CASE Len(s) # 0
    <3>1. 1 \in 1 .. Len(s) /\ Len(s) \in 1 .. Len(s)
      BY <1>1, <2>2
    <3> QED
      BY <3>1, SubSeqOfConcat1
  <2> QED
    BY <2>1, <2>2
<1> QED
  BY <1>1, <1>2 DEF IsPrefix

LEMMA PrefixOfItself ==
    ASSUME NEW S, NEW s \in Seq(S)
    PROVE  IsPrefix(s, s)
<1>1. Len(s) \in Nat
  BY LenProperties
<1> QED
  BY <1>1 DEF IsPrefix

\* Appending leaves the first elements as they were.
LEMMA FirstOfConcat ==
    ASSUME NEW S, NEW s \in Seq(S), NEW t \in Seq(S), NEW n \in 0 .. Len(s)
    PROVE  /\ SubSeq(s \o t, 1, n) = SubSeq(s, 1, n)
           /\ n \in 0 .. Len(s \o t)
<1>1. Len(s \o t) = Len(s) + Len(t) /\ Len(s) \in Nat /\ Len(t) \in Nat
  BY ConcatProperties, LenProperties
<1>2. SubSeq(s \o t, 1, n) = SubSeq(s, 1, n)
  <2>1. CASE n = 0
    BY <1>1, <2>1, SubSeqEmpty
  <2>2. CASE n # 0
    <3>1. 1 \in 1 .. Len(s) /\ n \in 1 .. Len(s)
      BY <1>1, <2>2
    <3> QED
      BY <3>1, SubSeqOfConcat1
  <2> QED
    BY <2>1, <2>2
<1> QED
  BY <1>1, <1>2

\* Concatenation of bytes.
LEMMA BytesConcat ==
    ASSUME NEW s \in Seq(Byte), NEW t \in Seq(Byte)
    PROVE  s \o t \in Seq(Byte)
BY ConcatProperties

LEMMA BytesAssociative ==
    ASSUME NEW s \in Seq(Byte), NEW t \in Seq(Byte), NEW u \in Seq(Byte)
    PROVE  (s \o t) \o u = s \o (t \o u)
BY ConcatAssociative

-----------------------------------------------------------------------------
(* Input.                                                                  *)

LEMMA PeerWritesStep ==
    ASSUME InputInv, NEW m \in Messages, PeerWrites(m)
    PROVE  InputInv' /\ IsPrefix(received, received') /\ taken' = taken
<1>1. m \in Seq(Byte) /\ received \in Seq(Byte) /\ received' = received \o m
  BY ConnectionConstants DEF PeerWrites, InputInv
<1>2. received' \in Seq(Byte)
  BY <1>1, ConcatProperties
<1>3. /\ SubSeq(received', 1, nread) = SubSeq(received, 1, nread)
      /\ nread \in 0 .. Len(received')
  BY <1>1, FirstOfConcat DEF InputInv
<1> QED
  BY <1>1, <1>2, <1>3, PrefixOfConcat DEF PeerWrites, InputInv

LEMMA HandleReadStep ==
    ASSUME InputInv, NEW n \in Amounts, HandleRead(n)
    PROVE  /\ InputInv' /\ assertFailed' = FALSE
           /\ received' = received /\ taken' = taken
<1> DEFINE new == SubSeq(received, nread + 1, nread + n)
           old == SubSeq(received, 1, nread)
           c   == Contents(inputBuffer_)
<1>1. /\ n \in Nat \ {0} /\ nread \in Nat /\ Len(received) \in Nat
      /\ nread + n <= Len(received) /\ received \in Seq(Byte)
  BY LenProperties, ConnectionConstants DEF HandleRead, InputInv, Amounts
<1>2. new \in Seq(Byte)
  <2>1. \A i \in nread + 1 .. nread + n : received[i] \in Byte
    BY <1>1, ElementOfSeq
  <2> QED
    BY <1>1, <2>1, SubSeqProperties
<1>3. old \o new = SubSeq(received, 1, nread + n)
  <2>1. /\ 1 \in 1 .. Len(received) + 1 /\ nread \in 1 - 1 .. Len(received)
        /\ nread + n \in nread .. Len(received)
    BY <1>1
  <2> QED
    BY <1>1, <2>1, ConcatAdjacentSubSeq
<1>4. /\ Valid(inputBuffer_') /\ Contents(inputBuffer_') = c \o new
      /\ assertFailed' = FALSE
  <2>1. /\ Valid(ReadFd(inputBuffer_, new))
        /\ Contents(ReadFd(inputBuffer_, new)) = c \o new
        /\ ReadFdAsserts(inputBuffer_, new)
    BY <1>2, ReadFdAppends DEF InputInv
  <2> HIDE DEF c
  <2> QED
    BY <2>1 DEF HandleRead
<1>5. (taken \o c) \o new = taken \o (c \o new)
  <2>1. taken \in Seq(Byte) /\ c \in Seq(Byte)
    BY ContentsProperties DEF InputInv
  <2> HIDE DEF c, new
  <2> QED
    BY <1>2, <2>1, BytesAssociative
<1>6. old = taken \o c
  BY DEF InputInv
<1>7. /\ nread' = nread + n /\ received' = received /\ taken' = taken
      /\ inCallback' = TRUE
  BY DEF HandleRead
<1>8. SubSeq(received', 1, nread') = taken' \o Contents(inputBuffer_')
  <2> HIDE DEF c, new, old
  <2> QED
    BY <1>3, <1>4, <1>5, <1>6, <1>7
<1>9. nread' \in 0 .. Len(received')
  BY <1>1, <1>7
<1> QED
  BY <1>1, <1>4, <1>7, <1>8, <1>9 DEF InputInv

LEMMA TakeStep ==
    ASSUME InputInv, NEW n, NEW rest, Take(n, rest), Valid(rest),
           SubSeq(Contents(inputBuffer_), 1, n) \in Seq(Byte),
           Contents(inputBuffer_)
              = SubSeq(Contents(inputBuffer_), 1, n) \o Contents(rest)
    PROVE  InputInv' /\ received' = received /\ IsPrefix(taken, taken')
<1> DEFINE first == SubSeq(Contents(inputBuffer_), 1, n)
           c     == Contents(rest)
<1>1. /\ taken \in Seq(Byte) /\ first \in Seq(Byte) /\ c \in Seq(Byte)
  BY ContentsProperties DEF InputInv
<1>2. /\ taken' = taken \o first /\ Contents(inputBuffer_') = c
      /\ inputBuffer_' = rest
      /\ nread' = nread /\ received' = received /\ inCallback' = inCallback
  BY DEF Take
<1>3. Contents(inputBuffer_) = first \o c
  OBVIOUS
<1> HIDE DEF first, c
<1>4. /\ (taken \o first) \o c = taken \o (first \o c)
      /\ taken \o first \in Seq(Byte)
  <2>1. (taken \o first) \o c = taken \o (first \o c)
    BY <1>1, BytesAssociative
  <2>2. taken \o first \in Seq(Byte)
    BY <1>1, BytesConcat
  <2> QED
    BY <2>1, <2>2
<1>5. SubSeq(received', 1, nread') = taken' \o Contents(inputBuffer_')
  BY <1>2, <1>3, <1>4 DEF InputInv
<1>6. IsPrefix(taken, taken')
  BY <1>1, <1>2, PrefixOfConcat
<1> QED
  BY <1>2, <1>4, <1>5, <1>6 DEF InputInv

LEMMA SomeTakeStep ==
    ASSUME InputInv,
           \/ \E n \in Amounts : TakeSome(n)
           \/ TakeAll
           \/ TakeLine
    PROVE  InputInv' /\ received' = received /\ IsPrefix(taken, taken')
<1> DEFINE b == inputBuffer_
<1>1. Valid(b)
  BY DEF InputInv
<1>2. ASSUME NEW n \in 0 .. ReadableBytes(b), Take(n, Retrieve(b, n))
      PROVE  InputInv' /\ received' = received /\ IsPrefix(taken, taken')
  <2>1. /\ Valid(Retrieve(b, n)) /\ SubSeq(Contents(b), 1, n) \in Seq(Byte)
        /\ Contents(b) = SubSeq(Contents(b), 1, n) \o Contents(Retrieve(b, n))
    BY <1>1, <1>2, RetrieveTakesFirst
  <2> QED
    BY <1>2, <2>1, TakeStep
<1>3. ASSUME NEW n \in Amounts, TakeSome(n)
      PROVE  InputInv' /\ received' = received /\ IsPrefix(taken, taken')
  <2>1. n \in 0 .. ReadableBytes(b)
    BY <1>1, <1>3, ValidFields DEF TakeSome, Amounts
  <2> QED
    BY <1>2, <1>3, <2>1 DEF TakeSome
<1>4. CASE TakeAll
  <2> DEFINE n == ReadableBytes(b)
  <2>1. /\ Contents(b) \in Seq(Byte) /\ Len(Contents(b)) = n
        /\ Valid(RetrieveAll(b)) /\ Contents(RetrieveAll(b)) = <<>>
    BY <1>1, ContentsProperties, RetrieveAllEmpties
  <2>2. SubSeq(Contents(b), 1, n) = Contents(b)
    BY <2>1, SubSeqFull
  <2>3. Contents(b) \o <<>> = Contents(b)
    BY <2>1, ConcatEmptySeq
  <2>4. Take(n, RetrieveAll(b))
    BY <1>4 DEF TakeAll
  <2> HIDE DEF n
  <2> QED
    BY <2>1, <2>2, <2>3, <2>4, TakeStep
<1>5. CASE TakeLine
  <2> DEFINE crlf == FindCRLF(b, b.readerIndex_)
             n    == crlf + 2 - b.readerIndex_
  <2>1. crlf \in b.readerIndex_ .. b.writerIndex_ - 2
    BY <1>1, <1>5, ValidFields, FindCRLFFinds DEF TakeLine
  <2>2. n \in 0 .. ReadableBytes(b)
    <3> HIDE DEF crlf
    <3> QED
      BY <1>1, <2>1, ValidFields DEF ReadableBytes
  <2>3. Take(n, Retrieve(b, n))
    <3>1. Take(n, RetrieveUntil(b, crlf + 2))
      BY <1>5 DEF TakeLine
    <3>2. RetrieveUntil(b, crlf + 2) = Retrieve(b, n)
      <4>1. (crlf + 2) - b.readerIndex_ = n
        <5> HIDE DEF crlf
        <5> QED
          BY <1>1, <2>1, ValidFields
      <4> HIDE DEF n
      <4> QED
        BY <4>1, RetrieveUntilRetrieves
    <3> HIDE DEF n, crlf
    <3> QED
      BY <3>1, <3>2
  <2> HIDE DEF n
  <2> QED
    BY <1>2, <2>2, <2>3
<1> QED
  BY <1>3, <1>4, <1>5

-----------------------------------------------------------------------------
(* Output.                                                                 *)

\* A message is cut in two by what write(2) took, and the rest follows what
\* was waiting.
LEMMA SendRestStep ==
    ASSUME OutputInv, NEW m \in Seq(Byte), NEW n \in 0 .. Len(m), SendRest(m, n),
           Idle \/ n = 0, ~fin
    PROVE  /\ Valid(outputBuffer_') /\ writing' \in BOOLEAN
           /\ SubSeq(m, 1, n) \in Seq(Byte)
           /\ accepted \o m
                 = (wire \o SubSeq(m, 1, n)) \o Contents(outputBuffer_')
           /\ writing' <=> ReadableBytes(outputBuffer_') # 0
           /\ assertFailed = FALSE => assertFailed' = FALSE
<1> DEFINE first == SubSeq(m, 1, n)
           rest  == SubSeq(m, n + 1, Len(m))
           c     == Contents(outputBuffer_)
<1>1. /\ first \in Seq(Byte) /\ Len(first) = n
      /\ rest \in Seq(Byte) /\ Len(rest) = Len(m) - n
      /\ m = first \o rest
  <2>1. IsSplit(Byte, m, n)
    BY SplitAt
  <2> QED
    BY <2>1 DEF IsSplit
<1>2. /\ Valid(outputBuffer_) /\ c \in Seq(Byte)
      /\ Len(c) = ReadableBytes(outputBuffer_)
      /\ wire \in Seq(Byte) /\ accepted = wire \o c
      /\ writing \in BOOLEAN
      /\ writing <=> ReadableBytes(outputBuffer_) # 0
  BY ContentsProperties DEF OutputInv
<1>3. /\ Valid(outputBuffer_') /\ writing' \in BOOLEAN
      /\ Contents(outputBuffer_') = c \o rest
      /\ writing' <=> ReadableBytes(outputBuffer_') # 0
      /\ assertFailed = FALSE => assertFailed' = FALSE
  <2>1. CASE rest = <<>>
    <3>1. c \o rest = c
      BY <1>2, <2>1, ConcatEmptySeq
    <3>2. /\ outputBuffer_' = outputBuffer_ /\ writing' = writing
          /\ assertFailed' = assertFailed
      BY <2>1 DEF SendRest
    <3> HIDE DEF rest, c
    <3> QED
      BY <1>2, <3>1, <3>2, Zenon DEF c
  <2>2. CASE rest # <<>>
    <3> DEFINE out == AppendBytes(outputBuffer_, rest)
    <3>1. /\ outputBuffer_' = out /\ writing' = TRUE
          /\ assertFailed' = ~AppendAsserts(outputBuffer_, Len(rest))
      BY <2>2 DEF SendRest
    <3>2. /\ Valid(out) /\ Contents(out) = c \o rest
          /\ AppendAsserts(outputBuffer_, Len(rest))
      BY <1>1, <1>2, AppendBytesAppends
    <3>3. ReadableBytes(out) # 0
      <4>1. Len(rest) # 0 /\ Len(rest) \in Nat /\ Len(c) \in Nat
        BY <1>1, <1>2, <2>2, LenProperties, EmptySeq
      <4>2. Len(c \o rest) = Len(c) + Len(rest)
        BY <1>1, <1>2, ConcatProperties
      <4>3. Len(Contents(out)) = ReadableBytes(out)
        BY <3>2, ContentsProperties
      <4> HIDE DEF out, c, rest
      <4> QED
        BY <3>2, <4>1, <4>2, <4>3
    <3> HIDE DEF out, rest, c
    <3> QED
      BY <3>1, <3>2, <3>3
  <2> QED
    BY <2>1, <2>2
<1>4. accepted \o m = (wire \o first) \o (c \o rest)
  <2> HIDE DEF first, rest
  <2>1. CASE n = 0
    <3>1. first = <<>>
      BY <1>1, <2>1, EmptySeq
    <3>2. m = rest /\ wire \o first = wire
      BY <1>1, <1>2, <3>1, ConcatEmptySeq
    <3>3. (wire \o c) \o rest = wire \o (c \o rest)
      <4>1. wire \in Seq(Byte) /\ c \in Seq(Byte) /\ rest \in Seq(Byte)
        BY <1>1, <1>2
      <4> HIDE DEF c
      <4> QED
        BY <4>1, BytesAssociative
    <3> QED
      BY <1>2, <3>2, <3>3
  <2>2. CASE Idle
    <3>1. c = <<>>
      BY <1>2, <2>2, EmptyContents DEF Idle
    <3>2. c \o rest = rest /\ accepted = wire
      BY <1>1, <1>2, <3>1, ConcatEmptySeq
    <3>3. wire \o (first \o rest) = (wire \o first) \o rest
      <4>1. wire \in Seq(Byte) /\ first \in Seq(Byte) /\ rest \in Seq(Byte)
        BY <1>1, <1>2
      <4> QED
        BY <4>1, BytesAssociative
    <3> HIDE DEF c
    <3> QED
      BY <1>1, <3>2, <3>3
  <2> QED
    BY <2>1, <2>2
<1> HIDE DEF first, rest, c
<1> QED
  BY <1>1, <1>3, <1>4 DEF first

\* sendInLoop: either nothing waits and write(2) takes a part of the message,
\* or everything waits behind what does.
LEMMA SendStep ==
    ASSUME OutputInv, assertFailed = FALSE, NEW m \in Messages,
           NEW n \in 0 .. Len(m), Send(m, n)
    PROVE  /\ OutputInv' /\ assertFailed' = FALSE
           /\ IsPrefix(accepted, accepted') /\ IsPrefix(wire, wire')
<1> DEFINE first == SubSeq(m, 1, n)
<1>1. m \in Seq(Byte) /\ Len(m) \in Nat
  BY ConnectionConstants, LenProperties
<1>2. ~fin /\ (Idle \/ n = 0) /\ SendRest(m, n)
  BY DEF Send, OutputInv, Idle
<1>3. /\ Valid(outputBuffer_') /\ writing' \in BOOLEAN
      /\ first \in Seq(Byte)
      /\ accepted \o m = (wire \o first) \o Contents(outputBuffer_')
      /\ writing' <=> ReadableBytes(outputBuffer_') # 0
      /\ assertFailed' = FALSE
  BY <1>1, <1>2, SendRestStep
<1>4. wire' = wire \o first /\ room' \in 0 .. SockRoom
  <2>1. CASE Idle
    <3>1. Writes(m, n)
      BY <2>1 DEF Send
    <3>2. n \in 0 .. room /\ room' = room - n /\ wire' = wire \o first
      BY <3>1, ConnectionConstants DEF Writes, OutputInv
    <3> HIDE DEF first
    <3> QED
      BY <3>2, ConnectionConstants DEF OutputInv
  <2>2. CASE ~Idle
    <3>1. n = 0 /\ wire' = wire /\ room' = room
      BY <2>2 DEF Send
    <3>2. first = <<>>
      BY <3>1, SubSeqEmpty
    <3>3. wire \o <<>> = wire
      BY ConcatEmptySeq DEF OutputInv
    <3> HIDE DEF first
    <3> QED
      BY <3>1, <3>2, <3>3 DEF OutputInv
  <2> QED
    BY <2>1, <2>2
<1>5. /\ accepted' = accepted \o m /\ fin' = fin /\ fault' = fault
      /\ accepted \in Seq(Byte) /\ wire \in Seq(Byte)
  BY DEF Send, OutputInv
<1> HIDE DEF first
<1>6. accepted' \in Seq(Byte) /\ wire' \in Seq(Byte)
  BY <1>1, <1>3, <1>4, <1>5, BytesConcat
<1>7. IsPrefix(accepted, accepted') /\ IsPrefix(wire, wire')
  BY <1>1, <1>3, <1>4, <1>5, PrefixOfConcat
<1>8. accepted' = wire' \o Contents(outputBuffer_')
  BY <1>3, <1>4, <1>5
<1> QED
  BY <1>2, <1>3, <1>4, <1>5, <1>6, <1>7, <1>8 DEF OutputInv

LEMMA HandleWriteStep ==
    ASSUME OutputInv, NEW n \in Amounts, HandleWrite(n)
    PROVE  /\ OutputInv'
           /\ IsPrefix(accepted, accepted') /\ IsPrefix(wire, wire')
<1> DEFINE c     == Contents(outputBuffer_)
           first == SubSeq(c, 1, n)
           rest  == Contents(Retrieve(outputBuffer_, n))
<1>1. /\ Valid(outputBuffer_) /\ wire \in Seq(Byte) /\ accepted \in Seq(Byte)
      /\ accepted = wire \o c /\ room \in 0 .. SockRoom
      /\ writing = TRUE /\ fin = FALSE /\ fault \in BOOLEAN
  BY DEF HandleWrite, OutputInv
<1>2. /\ n \in 1 .. room /\ n <= Len(c)
      /\ wire' = wire \o first /\ room' = room - n
  BY <1>1, ConnectionConstants DEF HandleWrite, Writes
<1>3. n \in 0 .. ReadableBytes(outputBuffer_)
  <2>1. Len(c) = ReadableBytes(outputBuffer_)
    BY <1>1, ContentsProperties
  <2> HIDE DEF c
  <2> QED
    BY <1>1, <1>2, <2>1, ConnectionConstants, ValidFields
<1>4. /\ Valid(outputBuffer_') /\ Contents(outputBuffer_') = rest
      /\ first \in Seq(Byte) /\ rest \in Seq(Byte) /\ c = first \o rest
      /\ ReadableBytes(outputBuffer_') = ReadableBytes(outputBuffer_) - n
  <2>1. outputBuffer_' = Retrieve(outputBuffer_, n)
    BY DEF HandleWrite
  <2> QED
    BY <1>1, <1>3, <2>1, RetrieveTakesFirst, ContentsProperties
<1>5. /\ writing' = (ReadableBytes(outputBuffer_) # n)
      /\ fin' = fin /\ fault' = fault /\ accepted' = accepted
  BY DEF HandleWrite
<1> HIDE DEF c, first, rest
<1>6. /\ writing' \in BOOLEAN
      /\ writing' <=> ReadableBytes(outputBuffer_') # 0
  <2>1. ReadableBytes(outputBuffer_) \in Nat /\ n \in Nat
    BY <1>1, <1>2, ValidFields
  <2>2. ReadableBytes(outputBuffer_') # 0 <=> ReadableBytes(outputBuffer_) # n
    BY <1>4, <2>1
  <2> QED
    BY <1>5, <2>2
<1>7. accepted' = wire' \o Contents(outputBuffer_')
  <2>1. wire \in Seq(Byte) /\ first \in Seq(Byte) /\ rest \in Seq(Byte)
    BY <1>1, <1>4
  <2>2. (wire \o first) \o rest = wire \o (first \o rest)
    BY <2>1, BytesAssociative
  <2> QED
    BY <1>1, <1>2, <1>4, <1>5, <2>2
<1>8. wire' \in Seq(Byte) /\ room' \in 0 .. SockRoom
  <2>1. wire' \in Seq(Byte)
    BY <1>1, <1>2, <1>4, BytesConcat
  <2>2. room' \in 0 .. SockRoom
    BY <1>1, <1>2, ConnectionConstants
  <2> QED
    BY <2>1, <2>2
<1>9. IsPrefix(accepted, accepted') /\ IsPrefix(wire, wire')
  BY <1>1, <1>2, <1>4, <1>5, PrefixOfItself, PrefixOfConcat
<1> QED
  BY <1>1, <1>4, <1>5, <1>6, <1>7, <1>8, <1>9 DEF OutputInv

-----------------------------------------------------------------------------
(* Every step.                                                             *)

\* What a step does to the four histories.
Grows ==
    /\ IsPrefix(received, received') /\ IsPrefix(taken, taken')
    /\ IsPrefix(accepted, accepted') /\ IsPrefix(wire, wire')

LEMMA InitConnection == Init => ConnectionInv
<1> SUFFICES ASSUME Init
             PROVE  ConnectionInv
  OBVIOUS
<1>1. /\ Valid(inputBuffer_) /\ Contents(inputBuffer_) = <<>>
      /\ Valid(outputBuffer_) /\ Contents(outputBuffer_) = <<>>
      /\ ReadableBytes(outputBuffer_) = 0
  BY NewBufferIsEmpty DEF Init
<1>2. <<>> \in Seq(Byte) /\ Len(<<>>) = 0 /\ <<>> \o <<>> = <<>>
  BY EmptySeq, ConcatEmptySeq
<1>3. SubSeq(received, 1, 0) = <<>>
  BY SubSeqEmpty
<1>4. InputInv
  <2>1. received = <<>> /\ taken = <<>> /\ nread = 0 /\ inCallback = FALSE
    BY DEF Init
  <2>2. SubSeq(received, 1, nread) = taken \o Contents(inputBuffer_)
    BY <1>1, <1>2, <1>3, <2>1
  <2>3. received \in Seq(Byte) /\ taken \in Seq(Byte) /\ nread \in 0 .. Len(received)
    BY <1>2, <2>1
  <2> QED
    BY <1>1, <2>1, <2>2, <2>3 DEF InputInv
<1>5. OutputInv
  <2>1. accepted = wire \o Contents(outputBuffer_)
    BY <1>1, <1>2 DEF Init
  <2>2. room \in 0 .. SockRoom
    BY ConnectionConstants DEF Init
  <2>3. accepted \in Seq(Byte) /\ wire \in Seq(Byte)
    BY <1>2 DEF Init
  <2> QED
    BY <1>1, <2>1, <2>2, <2>3 DEF Init, OutputInv
<1> QED
  BY <1>4, <1>5 DEF Init, ConnectionInv

LEMMA NextConnection ==
    ASSUME ConnectionInv, [Next]_vars
    PROVE  ConnectionInv' /\ Grows
<1> USE DEF ConnectionInv
<1>1. /\ IsPrefix(received, received) /\ IsPrefix(taken, taken)
      /\ IsPrefix(accepted, accepted) /\ IsPrefix(wire, wire)
  BY PrefixOfItself DEF InputInv, OutputInv
<1>2. ASSUME UNCHANGED reading
      PROVE  InputInv' /\ IsPrefix(received, received') /\ IsPrefix(taken, taken')
  BY <1>1, <1>2 DEF InputInv, reading
<1>3. ASSUME UNCHANGED sending
      PROVE  OutputInv' /\ IsPrefix(accepted, accepted') /\ IsPrefix(wire, wire')
  BY <1>1, <1>3 DEF OutputInv, sending
<1>4. ASSUME NEW m \in Messages, PeerWrites(m)
      PROVE  ConnectionInv' /\ Grows
  <2>1. UNCHANGED sending /\ assertFailed' = FALSE
    BY <1>4 DEF PeerWrites
  <2> QED
    BY <1>1, <1>3, <1>4, <2>1, PeerWritesStep DEF Grows
<1>5. ASSUME NEW m \in Messages, SendAfterFin(m)
      PROVE  ConnectionInv' /\ Grows
  <2>1. UNCHANGED reading /\ assertFailed' = FALSE
    BY <1>5 DEF SendAfterFin
  <2>2. OutputInv' /\ accepted' = accepted /\ wire' = wire
    BY <1>5 DEF SendAfterFin, OutputInv
  <2> QED
    BY <1>1, <1>2, <2>1, <2>2 DEF Grows
<1>6. ASSUME NEW m \in Messages, NEW n \in 0 .. Len(m), Send(m, n)
      PROVE  ConnectionInv' /\ Grows
  <2>1. UNCHANGED reading
    BY <1>6 DEF Send
  <2> QED
    BY <1>2, <1>6, <2>1, SendStep DEF Grows
<1>7. ASSUME NEW n \in Amounts, PeerReads(n)
      PROVE  ConnectionInv' /\ Grows
  <2>1. UNCHANGED reading /\ assertFailed' = FALSE
    BY <1>7 DEF PeerReads
  <2>2. room' \in 0 .. SockRoom
    BY <1>7, ConnectionConstants DEF PeerReads, OutputInv, Amounts
  <2>3. OutputInv' /\ accepted' = accepted /\ wire' = wire
    BY <1>7, <2>2 DEF PeerReads, OutputInv
  <2> QED
    BY <1>1, <1>2, <2>1, <2>3 DEF Grows
<1>8. ASSUME NEW n \in Amounts, HandleRead(n)
      PROVE  ConnectionInv' /\ Grows
  <2>1. UNCHANGED sending
    BY <1>8 DEF HandleRead
  <2> QED
    BY <1>1, <1>3, <1>8, <2>1, HandleReadStep DEF Grows
<1>9. CASE (\E n \in Amounts : TakeSome(n)) \/ TakeAll \/ TakeLine
  <2>1. UNCHANGED sending /\ assertFailed' = FALSE
    BY <1>9 DEF TakeSome, TakeAll, TakeLine, Take
  <2> QED
    BY <1>1, <1>3, <1>9, <2>1, SomeTakeStep DEF Grows
<1>10. CASE CallbackReturns
  <2>1. UNCHANGED sending /\ assertFailed' = FALSE
    BY <1>10 DEF CallbackReturns
  <2>2. InputInv' /\ received' = received /\ taken' = taken
    BY <1>10 DEF CallbackReturns, InputInv
  <2> QED
    BY <1>1, <1>3, <2>1, <2>2 DEF Grows
<1>11. CASE SomeHandleWrite
  <2>1. PICK n \in Amounts : HandleWrite(n)
    BY <1>11 DEF SomeHandleWrite
  <2>2. UNCHANGED reading /\ assertFailed' = FALSE
    BY <2>1 DEF HandleWrite
  <2> QED
    BY <1>2, <2>1, <2>2, HandleWriteStep DEF Grows
<1>12. CASE Shutdown
  <2>1. UNCHANGED reading /\ assertFailed' = FALSE
    BY <1>12 DEF Shutdown
  <2>2. OutputInv' /\ accepted' = accepted /\ wire' = wire
    BY <1>12 DEF Shutdown, OutputInv
  <2> QED
    BY <1>1, <1>2, <2>1, <2>2 DEF Grows
<1>13. CASE UNCHANGED vars
  <2>1. UNCHANGED reading /\ UNCHANGED sending /\ assertFailed' = FALSE
    BY <1>13 DEF vars
  <2> QED
    BY <1>2, <1>3, <2>1 DEF Grows
<1> QED
  BY <1>4, <1>5, <1>6, <1>7, <1>8, <1>9, <1>10, <1>11, <1>12, <1>13 DEF Next

\* The inductive invariant: both buffers' indices, what each holds of its
\* stream, and the channel's interest in writing, go together.
THEOREM ConnectionInvariant == Spec => []ConnectionInv
BY InitConnection, NextConnection, PTL DEF Spec

-----------------------------------------------------------------------------
(* The properties.                                                         *)

\* Every variable keeps its type: in particular the two Buffers' indices stay
\* inside their vectors, however those grow.
THEOREM TypeCorrect == Spec => []TypeOK
<1>1. ConnectionInv => TypeOK
  <2> SUFFICES ASSUME ConnectionInv
               PROVE  TypeOK
    OBVIOUS
  <2>1. /\ inputBuffer_ \in BufferOf(inputBuffer_.size)
        /\ outputBuffer_ \in BufferOf(outputBuffer_.size)
    BY DEF ConnectionInv, InputInv, OutputInv, Valid
  <2>2. nread \in Nat
    BY LenProperties DEF ConnectionInv, InputInv
  <2> QED
    BY <2>1, <2>2 DEF TypeOK, ConnectionInv, InputInv, OutputInv
<1> QED
  BY <1>1, ConnectionInvariant, PTL

\* Buffer.h:117 and 167: for any sizes and any traffic, makeSpace moves only
\* when it gains room, and always leaves the room that was asked for.
THEOREM AssertsNeverFail == Spec => []AssertsHold
<1>1. ConnectionInv => AssertsHold
  BY DEF ConnectionInv, AssertsHold
<1> QED
  BY <1>1, ConnectionInvariant, PTL

\* TcpServer.cc:170-180: for any sizes and any traffic, the socket is only
\* shut down once the kernel has every byte that send() accepted.
THEOREM FinIsLast == Spec => []FinComesLast
<1>1. ConnectionInv => FinComesLast
  <2> SUFFICES ASSUME ConnectionInv, fin
               PROVE  wire = accepted
    BY DEF FinComesLast
  <2>1. Contents(outputBuffer_) = <<>>
    BY EmptyContents DEF ConnectionInv, OutputInv
  <2> QED
    BY <2>1, ConcatEmptySeq DEF ConnectionInv, OutputInv
<1> QED
  BY <1>1, ConnectionInvariant, PTL

\* TcpServer.cc:59-67: the input direction implements ByteStream.
LEMMA InputStep ==
    ASSUME ConnectionInv, [Next]_vars
    PROVE  [Input!Next]_(Input!vars)
<1>1. ConnectionInv' /\ Grows
  BY NextConnection
<1>2. IsPrefix(taken', received')
  <2> DEFINE read == SubSeq(received', 1, nread')
             rest == SubSeq(received', nread' + 1, Len(received'))
             c    == Contents(inputBuffer_')
  <2>1. /\ received' \in Seq(Byte) /\ taken' \in Seq(Byte)
        /\ nread' \in 0 .. Len(received') /\ read = taken' \o c
        /\ Valid(inputBuffer_')
    BY <1>1 DEF ConnectionInv, InputInv
  <2>2. rest \in Seq(Byte) /\ c \in Seq(Byte) /\ received' = read \o rest
    <3>1. IsSplit(Byte, received', nread')
      BY <2>1, SplitAt
    <3>2. c \in Seq(Byte)
      BY <2>1, ContentsProperties
    <3> QED
      BY <3>1, <3>2 DEF IsSplit
  <2> HIDE DEF read, rest, c
  <2>3. (taken' \o c) \o rest = taken' \o (c \o rest) /\ c \o rest \in Seq(Byte)
    BY <2>1, <2>2, BytesAssociative, BytesConcat
  <2> QED
    BY <2>1, <2>2, <2>3, PrefixOfConcat
<1> QED
  BY <1>1, <1>2 DEF Grows, Input!Next, IsPrefix, Input!IsPrefix

\* TcpServer.cc:75-90 and 125-155: so does the output direction.
LEMMA OutputStep ==
    ASSUME ConnectionInv, [Next]_vars
    PROVE  [Output!Next]_(Output!vars)
<1>1. ConnectionInv' /\ Grows
  BY NextConnection
<1>2. IsPrefix(wire', accepted')
  <2>1. /\ wire' \in Seq(Byte) /\ Contents(outputBuffer_') \in Seq(Byte)
        /\ accepted' = wire' \o Contents(outputBuffer_')
    BY <1>1, ContentsProperties DEF ConnectionInv, OutputInv
  <2> QED
    BY <2>1, PrefixOfConcat
<1> QED
  BY <1>1, <1>2 DEF Grows, Output!Next, IsPrefix, Output!IsPrefix

\* Both directions of a connection are byte streams: whatever the sizes of
\* the buffers and however reads and writes are cut up, nothing is lost,
\* repeated or out of order.
THEOREM StreamsStayInOrder == Spec => StreamsKeepOrder
<1>1. Init => Input!Init /\ Output!Init
  BY DEF Init, Input!Init, Output!Init
<1>2. Spec => [][Input!Next]_(Input!vars)
  BY InputStep, ConnectionInvariant, PTL DEF Spec
<1>3. Spec => [][Output!Next]_(Output!vars)
  BY OutputStep, ConnectionInvariant, PTL DEF Spec
<1> QED
  BY <1>1, <1>2, <1>3, PTL DEF Spec, StreamsKeepOrder, Input!Spec, Output!Spec
=============================================================================
