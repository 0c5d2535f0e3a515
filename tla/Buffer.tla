------------------------------- MODULE Buffer -------------------------------
(***************************************************************************)
(* net/Buffer.h and net/Buffer.cc: a vector of bytes with a reader and a   *)
(* writer index, as a record and the operators that change it.             *)
(*   buffer_       the cells, numbered from 0                              *)
(*   size          buffer_.size()                                          *)
(*   readerIndex_, writerIndex_                                            *)
(*                                                                         *)
(*     0 ... kCheapPrepend ... readerIndex_ ... writerIndex_ ... size      *)
(*                             |<-- readable -->|<-- writable ->|          *)
(*                                                                         *)
(* A pointer into the buffer is the number of its cell.  size_t does not   *)
(* wrap here: lengths are far below 2^64.                                  *)
(***************************************************************************)
EXTENDS Integers, Sequences

CONSTANTS Byte,             \* what a cell can hold
          Zero,             \* what resize fills new cells with
          CR, LF,           \* the two bytes of kCRLF
          kCheapPrepend,    \* 8 in the code
          kInitialSize      \* 1024 in the code

ASSUME BufferConstants ==
    /\ {Zero, CR, LF} \subseteq Byte
    /\ kCheapPrepend \in Nat /\ kInitialSize \in Nat

BufferOf(n) ==
    [buffer_ : [0 .. n - 1 -> Byte], size : {n},
     readerIndex_ : 0 .. n, writerIndex_ : 0 .. n]

NewBuffer ==
    LET n == kCheapPrepend + kInitialSize
    IN  [buffer_ |-> [i \in 0 .. n - 1 |-> Zero], size |-> n,
         readerIndex_ |-> kCheapPrepend, writerIndex_ |-> kCheapPrepend]

ReadableBytes(b)    == b.writerIndex_ - b.readerIndex_
WritableBytes(b)    == b.size - b.writerIndex_
PrependableBytes(b) == b.readerIndex_

\* What peek() and readableBytes() give the reader.
Contents(b) == [i \in 1 .. ReadableBytes(b) |-> b.buffer_[b.readerIndex_ + i - 1]]

\* The first CR LF at or after start, or -1 for NULL.
FindCRLF(b, start) ==
    LET found == {p \in start .. b.writerIndex_ - 2 :
                     b.buffer_[p] = CR /\ b.buffer_[p + 1] = LF}
    IN  IF found = {} THEN -1 ELSE CHOOSE p \in found : \A q \in found : p <= q

-----------------------------------------------------------------------------
(* Taking bytes out.                                                       *)

\* assert(len <= readableBytes()) is the caller's to keep.
Retrieve(b, len) == [b EXCEPT !.readerIndex_ = @ + len]

RetrieveUntil(b, end) == Retrieve(b, end - b.readerIndex_)

\* retrieveAll, with which retrieveAsString ends.
RetrieveAll(b) ==
    [b EXCEPT !.readerIndex_ = kCheapPrepend, !.writerIndex_ = kCheapPrepend]

-----------------------------------------------------------------------------
(* Putting bytes in.                                                       *)

Resize(b, n) ==
    [b EXCEPT !.buffer_ = [i \in 0 .. n - 1 |->
                              IF i < b.size THEN b.buffer_[i] ELSE Zero],
              !.size = n]

\* The test at 160: growing is needed even after moving to the front.
NeedsGrowth(b, len) ==
    WritableBytes(b) + PrependableBytes(b) < len + kCheapPrepend

MoveToFront(b) ==
    LET from(i) == i - kCheapPrepend + b.readerIndex_
    IN  [b EXCEPT !.buffer_ = [i \in 0 .. b.size - 1 |->
                                  IF from(i) \in b.readerIndex_ .. b.writerIndex_ - 1
                                  THEN b.buffer_[from(i)] ELSE b.buffer_[i]],
                  !.readerIndex_ = kCheapPrepend,
                  !.writerIndex_ = kCheapPrepend + ReadableBytes(b)]

\* Slip: the room before kCheapPrepend counted as room.
MakeSpaceInPrepend(b, len) ==
    IF WritableBytes(b) + PrependableBytes(b) < len
    THEN Resize(b, b.writerIndex_ + len)
    ELSE MoveToFront(b)

MakeSpace(b, len) ==
    IF NeedsGrowth(b, len) THEN Resize(b, b.writerIndex_ + len)
                           ELSE MoveToFront(b)

EnsureWritableBytes(b, len) ==
    IF WritableBytes(b) < len THEN MakeSpace(b, len) ELSE b

\* The asserts at 167 and 117.
AppendAsserts(b, len) ==
    /\ WritableBytes(b) < len /\ ~NeedsGrowth(b, len)
          => kCheapPrepend < b.readerIndex_
    /\ WritableBytes(EnsureWritableBytes(b, len)) >= len

\* std::copy to beginWrite(), and hasWritten.
Write(b, s) ==
    [b EXCEPT !.buffer_ = [i \in 0 .. b.size - 1 |->
                              IF i \in b.writerIndex_ .. b.writerIndex_ + Len(s) - 1
                              THEN s[i - b.writerIndex_ + 1] ELSE b.buffer_[i]],
              !.writerIndex_ = @ + Len(s)]

\* append.
AppendBytes(b, s) == Write(EnsureWritableBytes(b, Len(s)), s)

\* Slip: writerIndex_ not moved to the end before the rest is appended.
ReadFdOverwrites(b, s) ==
    LET room == WritableBytes(b)
    IN  IF Len(s) <= room THEN Write(b, s)
        ELSE AppendBytes(b, SubSeq(s, room + 1, Len(s)))

\* readv(2) gives s: the writable cells are filled first.
FillCells(b, s) == Write(b, SubSeq(s, 1, WritableBytes(b)))

\* readFd: what went to extrabuf is appended to a buffer that is full.
ReadFd(b, s) ==
    LET room == WritableBytes(b)
    IN  IF Len(s) <= room THEN Write(b, s)
        ELSE AppendBytes(FillCells(b, s), SubSeq(s, room + 1, Len(s)))

ReadFdAsserts(b, s) ==
    Len(s) > WritableBytes(b)
        => AppendAsserts(FillCells(b, s), Len(s) - WritableBytes(b))

\* assert(len <= prependableBytes()) is the caller's to keep.
Prepend(b, s) ==
    LET start == b.readerIndex_ - Len(s)
    IN  [b EXCEPT !.buffer_ = [i \in 0 .. b.size - 1 |->
                                  IF i \in start .. b.readerIndex_ - 1
                                  THEN s[i - start + 1] ELSE b.buffer_[i]],
                  !.readerIndex_ = start]

\* The readable bytes go to kCheapPrepend in a new vector.  The indices stay
\* as they were, so they only fit if readerIndex_ was kCheapPrepend.
Shrink(b, reserve) ==
    LET n == kCheapPrepend + ReadableBytes(b) + reserve
    IN  [b EXCEPT !.buffer_ = [i \in 0 .. n - 1 |->
                                  IF i - kCheapPrepend \in 0 .. ReadableBytes(b) - 1
                                  THEN b.buffer_[i - kCheapPrepend + b.readerIndex_]
                                  ELSE Zero],
                  !.size = n]
=============================================================================
