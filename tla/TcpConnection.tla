--------------------------- MODULE TcpConnection ---------------------------
(***************************************************************************)
(* The bytes of one connection (net/TcpServer.cc:59-180): from the socket  *)
(* through inputBuffer_ to the message callback, and from send() through   *)
(* outputBuffer_ to the socket.  Module TcpServer has the connection's     *)
(* life, and only whether output is pending; here the connection is        *)
(* Connected and its peer is well, and the bytes are told apart.           *)
(*                                                                         *)
(* Everything runs in the loop's thread.  The message callback may take    *)
(* bytes out of the Buffer it is given while it runs.  send and shutdown   *)
(* may be called at any time, from it or from a functor that another       *)
(* thread's call was turned into.                                          *)
(***************************************************************************)
EXTENDS Buffer, SequencesExt

CONSTANTS Messages,     \* what a peer writes at once and what send() is given
          kExtra,       \* sizeof extrabuf in readFd
          SockRoom,     \* the kernel's send buffer
          MaxBytes      \* bound on the bytes of both directions together

ASSUME ConnectionConstants ==
    /\ Messages \subseteq Seq(Byte)
    /\ kExtra \in Nat /\ SockRoom \in Nat /\ MaxBytes \in Nat

VARIABLES
    inputBuffer_, outputBuffer_,
    writing,        \* channel_->isWriting()
    inCallback,     \* messageCallback_ is running
    nread,          \* bytes of received that readFd has read
    room,           \* free room in the kernel's send buffer
    fin,            \* our side of the socket is shut down
    fault,          \* SIGPIPE: a write after that, which nothing handles
    assertFailed,   \* one of Buffer's asserts
    received,       \* history: what the peer has written
    taken,          \* history: what the callback has taken
    accepted,       \* history: what send() was given
    wire            \* history: what the kernel has taken

reading == <<inputBuffer_, inCallback, nread, received, taken>>
sending == <<outputBuffer_, writing, room, fin, fault, accepted, wire>>
vars    == <<reading, sending, assertFailed>>

Init ==
    /\ inputBuffer_ = NewBuffer /\ outputBuffer_ = NewBuffer
    /\ writing = FALSE /\ inCallback = FALSE
    /\ nread = 0 /\ room = SockRoom /\ fin = FALSE
    /\ fault = FALSE /\ assertFailed = FALSE
    /\ received = <<>> /\ taken = <<>> /\ accepted = <<>> /\ wire = <<>>

InBounds(m) == Len(received) + Len(accepted) + Len(m) <= MaxBytes

-----------------------------------------------------------------------------
(* The peer.                                                               *)

PeerWrites(m) ==
    /\ InBounds(m)
    /\ received' = received \o m
    /\ UNCHANGED <<inputBuffer_, inCallback, nread, taken, sending, assertFailed>>

\* The peer reads n bytes, which makes room.
PeerReads(n) ==
    /\ room + n <= SockRoom
    /\ room' = room + n
    /\ UNCHANGED <<reading, outputBuffer_, writing, fin, fault, accepted, wire,
                   assertFailed>>

-----------------------------------------------------------------------------
(* Input.                                                                  *)

\* handleRead: readv gives n bytes.  The callback starts.
HandleRead(n) ==
    LET new == SubSeq(received, nread + 1, nread + n)
    IN  /\ ~inCallback
        /\ nread + n <= Len(received)
        /\ n <= WritableBytes(inputBuffer_) + kExtra
        /\ inputBuffer_' = ReadFd(inputBuffer_, new)
        /\ assertFailed' = ~ReadFdAsserts(inputBuffer_, new)
        /\ nread' = nread + n
        /\ inCallback' = TRUE
        /\ UNCHANGED <<received, taken, sending>>

\* Any of retrieve, retrieveUntil, retrieveAll and retrieveAsString, which
\* leave rest in the buffer.
Take(n, rest) ==
    /\ inCallback
    /\ taken' = taken \o SubSeq(Contents(inputBuffer_), 1, n)
    /\ inputBuffer_' = rest
    /\ UNCHANGED <<inCallback, nread, received, sending, assertFailed>>

TakeSome(n) ==
    n <= ReadableBytes(inputBuffer_) /\ Take(n, Retrieve(inputBuffer_, n))

TakeAll == Take(ReadableBytes(inputBuffer_), RetrieveAll(inputBuffer_))

\* A callback that works line by line: findCRLF, then retrieveUntil.
TakeLine ==
    LET crlf == FindCRLF(inputBuffer_, inputBuffer_.readerIndex_)
    IN  /\ crlf # -1
        /\ Take(crlf + 2 - inputBuffer_.readerIndex_,
                RetrieveUntil(inputBuffer_, crlf + 2))

CallbackReturns ==
    /\ inCallback
    /\ inCallback' = FALSE
    /\ UNCHANGED <<inputBuffer_, nread, received, taken, sending, assertFailed>>

-----------------------------------------------------------------------------
(* Output.                                                                 *)

\* write(2) of s: the kernel takes the first n bytes, none if it has no room.
Writes(s, n) ==
    /\ IF room = 0 THEN n = 0 ELSE n \in 1 .. room /\ n <= Len(s)
    /\ wire' = wire \o SubSeq(s, 1, n)
    /\ room' = room - n

Idle == ~writing /\ ReadableBytes(outputBuffer_) = 0

\* Slip: enableWriting only asked for when nothing could be written.
SendRestQuietly(m, n) ==
    LET rest == SubSeq(m, n + 1, Len(m))
    IN  /\ outputBuffer_' = AppendBytes(outputBuffer_, rest)
        /\ assertFailed' = FALSE
        /\ writing' = (writing \/ (rest # <<>> /\ n = 0))

\* sendInLoop:143-154, n bytes of m having been written.  shutdownInLoop at
\* 151 finds isWriting, so it does nothing.
SendRest(m, n) ==
    LET rest == SubSeq(m, n + 1, Len(m))
    IN  \/ /\ rest = <<>>
           /\ UNCHANGED <<outputBuffer_, writing, assertFailed>>
        \/ /\ rest # <<>>
           /\ outputBuffer_' = AppendBytes(outputBuffer_, rest)
           /\ assertFailed' = ~AppendAsserts(outputBuffer_, Len(rest))
           /\ writing' = TRUE

\* sendInLoop.
Send(m, n) ==
    /\ InBounds(m) /\ m # <<>>
    /\ ~(Idle /\ fin)
    /\ IF Idle THEN Writes(m, n) ELSE n = 0 /\ UNCHANGED <<wire, room>>
    /\ SendRest(m, n)
    /\ accepted' = accepted \o m
    /\ UNCHANGED <<reading, fin, fault>>

\* sendInLoop on a socket that has been shut down.
SendAfterFin(m) ==
    /\ InBounds(m) /\ m # <<>>
    /\ Idle /\ fin
    /\ fault' = TRUE
    /\ UNCHANGED <<reading, outputBuffer_, writing, room, fin, accepted, wire,
                   assertFailed>>

\* handleWrite, called when the channel asks for EPOLLOUT and there is room.
HandleWrite(n) ==
    /\ ~inCallback /\ writing /\ room > 0
    /\ Writes(Contents(outputBuffer_), n)
    /\ outputBuffer_' = Retrieve(outputBuffer_, n)
    /\ writing' = (ReadableBytes(outputBuffer_) # n)
    /\ UNCHANGED <<reading, fin, fault, accepted, assertFailed>>

\* Slip: the socket shut down whatever waits to be written.
ShutdownAtOnce ==
    /\ fin' = TRUE
    /\ UNCHANGED <<reading, outputBuffer_, writing, room, fault, accepted, wire,
                   assertFailed>>

\* shutdownInLoop.  With output pending it does nothing, now or later.
Shutdown ==
    /\ ~writing
    /\ fin' = TRUE
    /\ UNCHANGED <<reading, outputBuffer_, writing, room, fault, accepted, wire,
                   assertFailed>>

-----------------------------------------------------------------------------
Amounts == 1 .. MaxBytes

SomeHandleWrite == \E n \in Amounts : HandleWrite(n)

Running == ~assertFailed /\ ~fault

Next ==
    /\ Running
    /\ \/ \E m \in Messages :
             \/ PeerWrites(m) \/ SendAfterFin(m)
             \/ \E n \in 0 .. Len(m) : Send(m, n)
       \/ \E n \in Amounts : PeerReads(n) \/ HandleRead(n) \/ TakeSome(n)
       \/ TakeAll \/ TakeLine \/ CallbackReturns
       \/ SomeHandleWrite
       \/ Shutdown

Spec == Init /\ [][Next]_vars

\* The loop's thread is scheduled, callbacks return, and epoll_wait reports a
\* socket it was asked to watch once there is room.
Fairness ==
    /\ WF_vars(Running /\ CallbackReturns)
    /\ WF_vars(Running /\ SomeHandleWrite)

FairSpec == Spec /\ Fairness

-----------------------------------------------------------------------------
(* Properties.                                                             *)

TypeOK ==
    /\ inputBuffer_ \in BufferOf(inputBuffer_.size)
    /\ outputBuffer_ \in BufferOf(outputBuffer_.size)
    /\ writing \in BOOLEAN /\ inCallback \in BOOLEAN
    /\ fin \in BOOLEAN /\ fault \in BOOLEAN /\ assertFailed \in BOOLEAN
    /\ nread \in Nat /\ room \in 0 .. SockRoom
    /\ {received, taken, accepted, wire} \subseteq Seq(Byte)

\* Buffer.h:117 and 167.  However the bytes come and go, makeSpace never moves
\* when there is nothing to gain and always leaves the room it was asked for.
AssertsHold == ~assertFailed

\* TcpServer.cc:59-67 with Buffer.cc:12-31: what the callback takes is what
\* the peer wrote, whether it went through the cells, through extrabuf, or was
\* moved to the front in between.
Input == INSTANCE ByteStream WITH put <- received, got <- taken

\* TcpServer.cc:75-90 and 125-155: what the kernel takes is what send() was
\* given, whether written at once, in parts, or through outputBuffer_.
Output == INSTANCE ByteStream WITH put <- accepted, got <- wire

StreamsKeepOrder == Input!Spec /\ Output!Spec

\* TcpServer.cc:170-180.  The end of the stream is only announced to a peer
\* that has everything send() accepted, so that nothing is left to be written
\* on a socket that is shut down.
FinComesLast == fin => wire = accepted

\* TcpServer.cc:143-154, 75-90.  As long as the peer goes on reading, every
\* byte send() accepted reaches the kernel: interest in EPOLLOUT is on while
\* anything waits.
PeerGoesOnReading == WF_vars(Running /\ \E n \in Amounts : PeerReads(n))

OutputDrains ==
    PeerGoesOnReading =>
        \A k \in Amounts : Len(accepted) >= k ~> (Len(wire) >= k \/ fault)
=============================================================================
