---------------------------- MODULE AsyncLogging ----------------------------
(***************************************************************************)
(* base/AsyncLogging with the Logfile it writes to: appenders fill the     *)
(* current buffer under the mutex, the logging thread takes full buffers   *)
(* and the current one away, writes them and gives two of them back.       *)
(*                                                                         *)
(* append and the logging thread's critical section are one step each, for *)
(* they hold mutex_; which thread calls append does not matter.  Logging   *)
(* is only reached through pthread_once, after start() has returned.       *)
(***************************************************************************)
EXTENDS Naturals, FiniteSets, SequencesExt

CONSTANTS Capacity,     \* bytes in a FixedBuffer
          Sizes,        \* lengths of messages
          Limit,        \* fileAppendTimesLimit
          MaxMessages,  \* bound: messages appended
          Null          \* a unique_ptr that has been moved from

\* LogStream's own buffer is no larger than AsyncLogging's and append leaves a
\* byte free, so no message is as long as a buffer.
ASSUME SizesFit ==
    /\ Capacity \in Nat \ {0} /\ Sizes \subseteq 1 .. Capacity - 1
    /\ Limit \in Nat /\ MaxMessages \in Nat

VARIABLES
    currentBuffer_, nextBuffer_, buffers_,  \* under mutex_
    newBuffer1, newBuffer2,     \* locals of threadFunc ...
    buffersToWrite, written,    \* ... and how many of these are written
    lpc,                        \* where threadFunc is
    running_, stopper,          \* stop(): "none", "notify", "join", "stopped"
    count, stdio, file,         \* Logfile: appends since a flush, what the
                                \* FILE holds, what reached the file
    logged                      \* history: messages in append's order

shared == <<currentBuffer_, nextBuffer_, buffers_>>
local  == <<newBuffer1, newBuffer2, buffersToWrite, written>>
output == <<count, stdio, file>>
vars   == <<shared, local, lpc, running_, stopper, output, logged>>

\* A buffer: its messages, and how many bytes of it are used.
Empty == [data |-> <<>>, length |-> 0]
Put(b, m) == [data |-> Append(b.data, m), length |-> b.length + m.len]
Avail(b) == Capacity - b.length

\* FixedBuffer::append: a message without room is dropped.
BufferAppend(b, m) == IF Avail(b) > m.len THEN Put(b, m) ELSE b

Init ==
    /\ currentBuffer_ = Empty /\ nextBuffer_ = Empty /\ buffers_ = <<>>
    /\ newBuffer1 = Empty /\ newBuffer2 = Empty
    /\ buffersToWrite = <<>> /\ written = 0
    /\ lpc = "loop" /\ running_ = TRUE /\ stopper = "none"
    /\ count = 0 /\ stdio = <<>> /\ file = <<>>
    /\ logged = <<>>

\* cond_.notify(): a no-op unless the logging thread is inside wait.
Notified == IF lpc = "wait" THEN "lock" ELSE lpc

-----------------------------------------------------------------------------
(* Any thread that logs.                                                   *)

\* Slip: the buffers switched without a word to the logging thread.
SwitchSilently(m) ==
    /\ Avail(currentBuffer_) <= m.len
    /\ buffers_' = Append(buffers_, currentBuffer_)
    /\ currentBuffer_' = BufferAppend(Empty, m)
    /\ nextBuffer_' = Null
    /\ UNCHANGED lpc

\* The current buffer is full: it joins the queue and the logging thread is
\* woken.
Switch(m) ==
    /\ Avail(currentBuffer_) <= m.len
    /\ buffers_' = Append(buffers_, currentBuffer_)
    /\ currentBuffer_' =
            BufferAppend(IF nextBuffer_ # Null THEN nextBuffer_ ELSE Empty, m)
    /\ nextBuffer_' = Null
    /\ lpc' = Notified

\* Slip: one byte too generous against FixedBuffer::append's own test.
FillTight(m) ==
    /\ Avail(currentBuffer_) >= m.len
    /\ currentBuffer_' = BufferAppend(currentBuffer_, m)
    /\ UNCHANGED <<nextBuffer_, buffers_, lpc>>

Fill(m) ==
    /\ Avail(currentBuffer_) > m.len
    /\ currentBuffer_' = BufferAppend(currentBuffer_, m)
    /\ UNCHANGED <<nextBuffer_, buffers_, lpc>>

AppendMessage(len) ==
    LET m == [id |-> Len(logged) + 1, len |-> len] IN
    /\ Len(logged) < MaxMessages
    /\ Fill(m) \/ Switch(m)
    /\ logged' = Append(logged, m)
    /\ UNCHANGED <<local, running_, stopper, output>>

-----------------------------------------------------------------------------
(* stop(), from the thread that destroys the logger.                       *)

StopRunning ==
    /\ stopper = "none"
    /\ running_' = FALSE /\ stopper' = "notify"
    /\ UNCHANGED <<shared, local, lpc, output, logged>>

StopNotifies ==
    /\ stopper = "notify"
    /\ lpc' = Notified /\ stopper' = "join"
    /\ UNCHANGED <<shared, local, running_, output, logged>>

StopJoins ==
    /\ stopper = "join" /\ lpc = "done"
    /\ stopper' = "stopped"
    /\ UNCHANGED <<shared, local, lpc, running_, output, logged>>

-----------------------------------------------------------------------------
(* The logging thread.                                                     *)

\* while (running_); after the loop, the last flush.
TestRunning ==
    /\ lpc = "loop"
    /\ lpc' = IF running_ THEN "lock" ELSE "done"
    /\ file' = IF running_ THEN file ELSE file \o stdio
    /\ stdio' = IF running_ THEN stdio ELSE <<>>
    /\ UNCHANGED <<shared, local, running_, stopper, count, logged>>

\* while (buffers_.empty()) cond_.wait().
Wait ==
    /\ lpc = "lock" /\ buffers_ = <<>>
    /\ lpc' = "wait"
    /\ UNCHANGED <<shared, local, running_, stopper, output, logged>>

\* pthread_cond_wait may return unasked.
WakeSpuriously ==
    /\ lpc = "wait"
    /\ lpc' = "lock"
    /\ UNCHANGED <<shared, local, running_, stopper, output, logged>>

\* Slip: the current buffer written as well, and kept.
SwapBuffersKeepsCurrent ==
    /\ lpc = "lock" /\ buffers_ # <<>>
    /\ lpc' = "write"
    /\ buffersToWrite' = Append(buffers_, currentBuffer_) /\ written' = 0
    /\ buffers_' = <<>>
    /\ newBuffer1' = Null
    /\ UNCHANGED <<currentBuffer_, nextBuffer_, newBuffer2, running_, stopper,
                   output, logged>>

\* The rest of the critical section.
SwapBuffers ==
    /\ lpc = "lock" /\ buffers_ # <<>>
    /\ lpc' = "write"
    /\ buffersToWrite' = Append(buffers_, currentBuffer_) /\ written' = 0
    /\ buffers_' = <<>>
    /\ currentBuffer_' = newBuffer1 /\ newBuffer1' = Null
    /\ IF nextBuffer_ = Null
       THEN nextBuffer_' = newBuffer2 /\ newBuffer2' = Null
       ELSE UNCHANGED <<nextBuffer_, newBuffer2>>
    /\ UNCHANGED <<running_, stopper, output, logged>>

\* Logfile::append of one buffer: flushed every Limit appends; in between stdio
\* writes some of it out when its own buffer is full.
WriteBuffer ==
    /\ lpc = "write" /\ written < Len(buffersToWrite)
    /\ LET all == stdio \o buffersToWrite[written + 1].data
       IN  \E n \in 0 .. Len(all) :
              /\ count + 1 >= Limit => n = Len(all)
              /\ file' = file \o SubSeq(all, 1, n)
              /\ stdio' = SubSeq(all, n + 1, Len(all))
    /\ count' = IF count + 1 >= Limit THEN 0 ELSE count + 1
    /\ written' = written + 1
    /\ UNCHANGED <<shared, newBuffer1, newBuffer2, buffersToWrite, lpc, running_,
                   stopper, logged>>

\* Slip: reset() forgotten.
ResetNot(b) == b

\* FixedBuffer::reset.
Reset(b) == Empty

\* Slip: no flush at the end of a round.
GiveBackUnflushed ==
    /\ lpc = "write" /\ written = Len(buffersToWrite)
    /\ lpc' = "loop"
    /\ newBuffer1' = Empty /\ newBuffer2' = Empty
    /\ buffersToWrite' = <<>> /\ written' = 0
    /\ UNCHANGED <<shared, running_, stopper, output, logged>>

\* resize(2), the two spare buffers refilled from the back, clear, flush.  An
\* assert at AsyncLogging.cc:118 or 126 fails if there is none left to take.
GiveBack ==
    /\ lpc = "write" /\ written = Len(buffersToWrite)
    /\ LET kept == SubSeq(buffersToWrite, 1, IF written > 2 THEN 2 ELSE written)
           taken == IF newBuffer1 = Null THEN 1 ELSE 0
           Take(i) == IF i < Len(kept) THEN Reset(kept[Len(kept) - i]) ELSE Null
       IN  /\ newBuffer1' = IF newBuffer1 = Null THEN Take(0) ELSE newBuffer1
           /\ newBuffer2' = IF newBuffer2 = Null THEN Take(taken) ELSE newBuffer2
    /\ lpc' = "loop"
    /\ buffersToWrite' = <<>> /\ written' = 0
    /\ file' = file \o stdio /\ stdio' = <<>>
    /\ UNCHANGED <<shared, running_, stopper, count, logged>>

LoggerStep ==
    TestRunning \/ Wait \/ SwapBuffers \/ WriteBuffer \/ GiveBack

Next ==
    \/ \E len \in Sizes : AppendMessage(len)
    \/ StopRunning \/ StopNotifies \/ StopJoins
    \/ LoggerStep \/ WakeSpuriously

Spec == Init /\ [][Next]_vars

\* The logging thread is scheduled.  Nobody owes the program another message.
FairSpec == Spec /\ WF_vars(LoggerStep)

-----------------------------------------------------------------------------
(* Properties.                                                             *)

Message == [id : 1 .. MaxMessages, len : Sizes]
Buffer  == [data : Seq(Message), length : 0 .. Capacity - 1]

TypeOK ==
    /\ currentBuffer_ \in Buffer
    /\ nextBuffer_ \in Buffer \cup {Null} /\ buffers_ \in Seq(Buffer)
    /\ newBuffer1 \in Buffer \cup {Null} /\ newBuffer2 \in Buffer \cup {Null}
    /\ buffersToWrite \in Seq(Buffer) /\ written \in 0 .. Len(buffersToWrite)
    /\ lpc \in {"loop", "lock", "wait", "write", "done"}
    /\ running_ \in BOOLEAN /\ stopper \in {"none", "notify", "join", "stopped"}
    /\ count \in 0 .. Limit /\ stdio \in Seq(Message) /\ file \in Seq(Message)
    /\ logged \in Seq(Message)

Contents(bufs) == FlattenSeq([i \in DOMAIN bufs |-> bufs[i].data])
ToWrite == SubSeq(buffersToWrite, written + 1, Len(buffersToWrite))

\* AsyncLogging.cc:25-136.  Every message is in exactly one place, and the
\* places read from the file to the current buffer give the order of append:
\* nothing is dropped for want of room, written twice or overtaken when
\* buffers are switched, swapped and given back.
NothingLost ==
    file \o stdio \o Contents(ToWrite) \o Contents(buffers_)
        \o currentBuffer_.data = logged

\* The asserts of AsyncLogging.cc:64-66, 89, 118 and 126: each round ends with
\* two spare buffers, empty, whichever of them was used and however many
\* buffers there were.
SparesReady ==
    /\ lpc \in {"loop", "lock", "wait"} =>
          /\ newBuffer1 = Empty /\ newBuffer2 = Empty /\ buffersToWrite = <<>>
    /\ lpc = "write" =>
          Len(buffersToWrite) >= Cardinality({i \in {1, 2} :
                                    <<newBuffer1, newBuffer2>>[i] = Null})

\* AsyncLogging.cc:133.  While the logging thread waits nothing it has written
\* is held back in the FILE, although Logfile flushes by count only.
NothingHeldBack == lpc \in {"loop", "lock", "wait"} => stdio = <<>>

Queue == INSTANCE LogQueue WITH
    Messages <- Message, accepted <- logged, out <- file

LogQueueSpec == Queue!Spec

\* A message in a buffer that was full reaches the file unless logging stops.
FullBuffersAreWritten ==
    \A id \in 1 .. MaxMessages :
        (\E i \in DOMAIN buffers_ : \E j \in DOMAIN buffers_[i].data :
                buffers_[i].data[j].id = id)
            ~> (~running_ \/ \E j \in DOMAIN file : file[j].id = id)

\* What README.md:11 says of every message ("the information is written to the
\* log directly"), and AsyncLogging.cc:24 ("adds the message to the buffer,
\* then wakes the logging thread").
MessagesAreWritten ==
    \A id \in 1 .. MaxMessages :
        Len(logged) >= id
            ~> (~running_ \/ \E j \in DOMAIN file : file[j].id = id)
=============================================================================
