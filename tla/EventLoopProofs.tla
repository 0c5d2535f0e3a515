-------------------------- MODULE EventLoopProofs --------------------------
(***************************************************************************)
(* Theorems about EventLoop, for any threads and any functors.             *)
(***************************************************************************)
EXTENDS EventLoop, SequenceTheorems, TLAPS

-----------------------------------------------------------------------------
(* Type correctness.                                                       *)

\* Every variable of EventLoop keeps its type: the vectors only ever hold
\* functors that were queued and pc only takes the values of loop()'s stages.
THEOREM TypeCorrect == Spec => []TypeOK
<1>1. Init => TypeOK
  BY EmptySeq DEF Init, TypeOK
<1>2. TypeOK /\ [Next]_vars => TypeOK'
  <2> SUFFICES ASSUME TypeOK, [Next]_vars
               PROVE  TypeOK'
    OBVIOUS
  <2> USE DEF TypeOK, owner, history
  <2>1. ASSUME NEW t \in Threads, NEW f \in Functors, QueueInLoop(t, f)
        PROVE  TypeOK'
    BY <2>1 DEF QueueInLoop
  <2>2. ASSUME NEW t \in Threads, Quit(t) \/ WakeUp(t)
        PROVE  TypeOK'
    BY <2>2 DEF Quit, WakeUp
  <2>3. ASSUME NEW f \in Functors, OwnerQueueInLoop(f) \/ OwnerRunInLoop(f)
        PROVE  TypeOK'
    <3>1. CASE OwnerQueueInLoop(f)
      <4>1. wakeup' \in BOOLEAN
        BY <3>1, Zenon DEF OwnerQueueInLoop
      <4> QED
        BY <3>1, <4>1 DEF OwnerQueueInLoop
    <3>2. CASE OwnerRunInLoop(f)
      BY <3>2 DEF OwnerRunInLoop
    <3> QED
      BY <2>3, <3>1, <3>2
  <2>4. CASE OwnerQuit
    BY <2>4 DEF OwnerQuit
  <2>5. CASE EnterLoop
    BY <2>5 DEF EnterLoop
  <2>6. CASE PollWakeup \/ PollIO \/ PollTimeout
    BY <2>6 DEF PollWakeup, PollIO, PollTimeout, PollReturns
  <2>7. CASE LoopStep
    <3>1. CASE TestQuit
      BY <3>1 DEF TestQuit
    <3>2. CASE HandleRead
      BY <3>2 DEF HandleRead
    <3>3. CASE HandlerBegins \/ HandlerEnds
      BY <3>3 DEF HandlerBegins, HandlerEnds
    <3>4. CASE SwapFunctors
      BY <3>4, EmptySeq DEF SwapFunctors
    <3>5. CASE RunFunctor
      <4>1. /\ Head(tempFunctors) \in Functors
            /\ Tail(tempFunctors) \in Seq(Functors)
        BY <3>5, HeadTailProperties DEF RunFunctor
      <4> QED
        BY <3>5, <4>1 DEF RunFunctor
    <3>6. CASE EndFunctors
      BY <3>6 DEF EndFunctors
    <3> QED
      BY <2>7, <3>1, <3>2, <3>3, <3>4, <3>5, <3>6 DEF LoopStep
  <2>8. CASE UNCHANGED vars
    BY <2>8 DEF vars
  <2> QED
    BY <2>1, <2>2, <2>3, <2>4, <2>5, <2>6, <2>7, <2>8 DEF Next
<1> QED
  BY <1>1, <1>2, PTL DEF Spec

-----------------------------------------------------------------------------
(* Wake-ups.                                                               *)

\* What the two wake-up invariants need to be inductive: the flag that makes
\* the owner's queueInLoop wake is up whenever functors run, functors are
\* swapped out only while they run, and callbacks run only in two stages.
LoopShape ==
    /\ pc = "functors" => runingPendingFunctors_
    /\ tempFunctors # <<>> => pc = "functors"
    /\ inCallback => pc \in {"dispatch", "functors"}

\* LoopShape depends on the owner thread alone.
LEMMA ShapeStep ==
    ASSUME TypeOK, LoopShape, [Next]_vars
    PROVE  LoopShape'
<1> USE DEF LoopShape, TypeOK, history
<1>1. ASSUME NEW t \in Threads, NEW f \in Functors, QueueInLoop(t, f)
      PROVE  LoopShape'
  BY <1>1 DEF QueueInLoop, owner
<1>2. ASSUME NEW t \in Threads, Quit(t) \/ WakeUp(t)
      PROVE  LoopShape'
  BY <1>2 DEF Quit, WakeUp, owner
<1>3. ASSUME NEW f \in Functors, OwnerQueueInLoop(f) \/ OwnerRunInLoop(f)
      PROVE  LoopShape'
  BY <1>3 DEF OwnerQueueInLoop, OwnerRunInLoop, owner
<1>4. CASE OwnerQuit \/ EnterLoop
  BY <1>4 DEF OwnerQuit, EnterLoop, owner
<1>5. CASE PollWakeup \/ PollIO \/ PollTimeout
  BY <1>5 DEF PollWakeup, PollIO, PollTimeout, PollReturns
<1>6. CASE LoopStep
  BY <1>6 DEF LoopStep, TestQuit, HandleRead, HandlerBegins, HandlerEnds,
              SwapFunctors, RunFunctor, EndFunctors
<1>7. CASE UNCHANGED vars
  BY <1>7 DEF vars
<1> QED
  BY <1>1, <1>2, <1>3, <1>4, <1>5, <1>6, <1>7 DEF Next

\* loop() goes round as EventLoop.cc:65-75 says: the local vector of
\* doPendingFunctors is empty outside it, callbacks run only where loop() makes
\* them, and its flag is up whenever functors run.
THEOREM ShapeInvariant == Spec => []LoopShape
<1>1. Init => LoopShape
  BY DEF Init, LoopShape
<1> QED
  BY <1>1, ShapeStep, TypeCorrect, PTL DEF Spec

\* push_back adds one functor to those that wait.
LEMMA RangeOfAppend ==
    ASSUME NEW S, NEW s \in Seq(S), NEW e \in S
    PROVE  Range(Append(s, e)) = Range(s) \cup {e}
<1>1. /\ DOMAIN Append(s, e) = 1 .. Len(s) + 1
      /\ \A i \in 1 .. Len(s) : Append(s, e)[i] = s[i]
      /\ Append(s, e)[Len(s) + 1] = e
  BY AppendProperties, LenProperties
<1>2. DOMAIN s = 1 .. Len(s) /\ Len(s) \in Nat
  BY LenProperties
<1> QED
  BY <1>1, <1>2 DEF Range

\* A functor may be queued from a handler, before this round's swap, or from
\* a functor, with the flag up.
LEMMA NoLostWakeupStep ==
    ASSUME TypeOK, LoopShape, NoLostWakeup, [Next]_vars
    PROVE  NoLostWakeup'
<1> USE DEF NoLostWakeup, SomeoneWakes, owner, history
<1>1. ASSUME NEW t \in Threads, NEW f \in Functors, QueueInLoop(t, f)
      PROVE  NoLostWakeup'
  <2>1. caller'[t] = "wake"
    BY <1>1 DEF QueueInLoop, TypeOK
  <2> QED
    BY <1>1, <2>1 DEF QueueInLoop
<1>2. ASSUME NEW t \in Threads, Quit(t)
      PROVE  NoLostWakeup'
  <2>1. caller'[t] = "wake"
    BY <1>2 DEF Quit, TypeOK
  <2> QED
    BY <1>2, <2>1 DEF Quit
<1>3. ASSUME NEW t \in Threads, WakeUp(t)
      PROVE  NoLostWakeup'
  BY <1>3 DEF WakeUp
<1>4. ASSUME NEW f \in Functors, OwnerQueueInLoop(f)
      PROVE  NoLostWakeup'
  <2>1. CASE runingPendingFunctors_
    <3>1. wakeup'
      BY <1>4, <2>1, Zenon DEF OwnerQueueInLoop
    <3> QED
      BY <3>1
  <2>2. CASE looping_ /\ ~runingPendingFunctors_
    <3>1. pc' = "dispatch"
      BY <1>4, <2>2 DEF OwnerQueueInLoop, OwnerMayCall, LoopShape
    <3> QED
      BY <3>1
  <2>3. CASE ~looping_ /\ ~runingPendingFunctors_
    <3>1. /\ unannounced' = unannounced \cup {f}
          /\ pendingFunctors_' = Append(pendingFunctors_, f)
          /\ UNCHANGED <<pc, caller>>
      BY <1>4, <2>3, Zenon DEF OwnerQueueInLoop
    <3>2. wakeup => wakeup'
      BY <1>4, Zenon DEF OwnerQueueInLoop
    <3>3. Range(pendingFunctors_') = Range(pendingFunctors_) \cup {f}
      BY <3>1, RangeOfAppend DEF TypeOK
    <3>4. Range(pendingFunctors_') \subseteq unannounced'
            <=> Range(pendingFunctors_) \subseteq unannounced'
      BY <3>1, <3>3
    <3> QED
      BY <3>1, <3>2, <3>3, <2>3 DEF looping_
  <2> QED
    BY <2>1, <2>2, <2>3
<1>5. ASSUME NEW f \in Functors, OwnerRunInLoop(f)
      PROVE  NoLostWakeup'
  BY <1>5 DEF OwnerRunInLoop
<1>6. CASE OwnerQuit \/ EnterLoop
  BY <1>6 DEF OwnerQuit, EnterLoop
<1>7. CASE PollWakeup \/ PollIO \/ PollTimeout
  BY <1>7 DEF PollWakeup, PollIO, PollTimeout, PollReturns
<1>8. CASE LoopStep
  <2>1. CASE TestQuit
    BY <2>1 DEF TestQuit
  <2>2. CASE HandleRead \/ HandlerBegins \/ HandlerEnds
    BY <2>2 DEF HandleRead, HandlerBegins, HandlerEnds
  <2>3. CASE SwapFunctors
    BY <2>3 DEF SwapFunctors, Range
  <2>4. CASE RunFunctor \/ EndFunctors
    BY <2>4 DEF RunFunctor, EndFunctors
  <2> QED
    BY <1>8, <2>1, <2>2, <2>3, <2>4 DEF LoopStep
<1>9. CASE UNCHANGED vars
  BY <1>9 DEF vars
<1> QED
  BY <1>1, <1>2, <1>3, <1>4, <1>5, <1>6, <1>7, <1>8, <1>9 DEF Next

\* EventLoop.cc:157-172 against loop(): whatever order the pushes, the writes
\* to the eventfd, its read and the swap come in, a waiting functor is always
\* announced, unless the owner queued it before loop() was running.
THEOREM WakeupsAreNotLost == Spec => []NoLostWakeup
<1>1. Init => NoLostWakeup
  BY DEF Init, NoLostWakeup, Range
<1> QED
  BY <1>1, NoLostWakeupStep, ShapeInvariant, TypeCorrect, PTL DEF Spec

\* No step puts the owner to sleep on a quit() whose wake-up is neither
\* written nor about to be: the flag is tested before each sleep.
LEMMA QuitStep ==
    ASSUME TypeOK, LoopShape, QuitIsNoticed, [Next]_vars
    PROVE  QuitIsNoticed'
<1> USE DEF QuitIsNoticed, SomeoneWakes, owner, history
<1>1. ASSUME NEW t \in Threads, NEW f \in Functors, QueueInLoop(t, f)
      PROVE  QuitIsNoticed'
  <2>1. caller'[t] = "wake"
    BY <1>1 DEF QueueInLoop, TypeOK
  <2> QED
    BY <1>1, <2>1 DEF QueueInLoop
<1>2. ASSUME NEW t \in Threads, Quit(t)
      PROVE  QuitIsNoticed'
  <2>1. caller'[t] = "wake"
    BY <1>2 DEF Quit, TypeOK
  <2> QED
    BY <1>2, <2>1 DEF Quit
<1>3. ASSUME NEW t \in Threads, WakeUp(t)
      PROVE  QuitIsNoticed'
  BY <1>3 DEF WakeUp
<1>4. ASSUME NEW f \in Functors, OwnerQueueInLoop(f) \/ OwnerRunInLoop(f)
      PROVE  QuitIsNoticed'
  <2>1. wakeup => wakeup'
    BY <1>4, Zenon DEF OwnerQueueInLoop, OwnerRunInLoop
  <2> QED
    BY <1>4, <2>1 DEF OwnerQueueInLoop, OwnerRunInLoop
<1>5. CASE OwnerQuit
  \* The owner is in a callback or outside loop(), not in epoll_wait.
  <2>1. pc # "poll"
    BY <1>5 DEF OwnerQuit, OwnerMayCall, LoopShape, looping_
  <2> QED
    BY <1>5, <2>1 DEF OwnerQuit
<1>6. CASE EnterLoop
  BY <1>6 DEF EnterLoop
<1>7. CASE PollWakeup \/ PollIO \/ PollTimeout
  BY <1>7 DEF PollWakeup, PollIO, PollTimeout, PollReturns
<1>8. CASE LoopStep
  BY <1>8 DEF LoopStep, TestQuit, HandleRead, HandlerBegins, HandlerEnds,
              SwapFunctors, RunFunctor, EndFunctors
<1>9. CASE UNCHANGED vars
  BY <1>9 DEF vars
<1> QED
  BY <1>1, <1>2, <1>3, <1>4, <1>5, <1>6, <1>7, <1>8, <1>9 DEF Next

\* EventLoop.cc:94-101: quit() from another thread is never slept through.
THEOREM QuitIsNotSleptThrough == Spec => []QuitIsNoticed
<1>1. Init => QuitIsNoticed
  BY DEF Init, QuitIsNoticed
<1> QED
  BY <1>1, QuitStep, ShapeInvariant, TypeCorrect, PTL DEF Spec

-----------------------------------------------------------------------------
(* The two vectors are one queue.                                          *)

\* A functor in neither part is not in the whole.
LEMMA FreshInQueue ==
    ASSUME TypeOK, NEW f, Fresh(f)
    PROVE  Queue!Fresh(f)
<1> DEFINE q == tempFunctors \o pendingFunctors_
<1> SUFFICES ASSUME f \in Range(q) PROVE FALSE
  BY DEF Fresh, Queue!Fresh, Range, Queue!Range
<1>1. /\ q \in Seq(Functors)
      /\ Len(q) = Len(tempFunctors) + Len(pendingFunctors_)
      /\ \A i \in 1 .. Len(tempFunctors) + Len(pendingFunctors_) :
            q[i] = IF i <= Len(tempFunctors) THEN tempFunctors[i]
                   ELSE pendingFunctors_[i - Len(tempFunctors)]
  BY ConcatProperties DEF TypeOK
<1>2. PICK i \in 1 .. Len(q) : q[i] = f
  BY <1>1, LenProperties DEF Range
<1>3. CASE i <= Len(tempFunctors)
  <2>1. i \in DOMAIN tempFunctors /\ tempFunctors[i] = f
    BY <1>1, <1>2, <1>3, LenProperties DEF TypeOK
  <2> QED
    BY <2>1 DEF Fresh, Range
<1>4. CASE i > Len(tempFunctors)
  <2> DEFINE j == i - Len(tempFunctors)
  <2>1. j \in DOMAIN pendingFunctors_ /\ pendingFunctors_[j] = f
    BY <1>1, <1>2, <1>4, LenProperties DEF TypeOK
  <2> QED
    BY <2>1 DEF Fresh, Range
<1> QED
  BY <1>1, <1>2, <1>3, <1>4, LenProperties DEF TypeOK

\* push_back on pendingFunctors_ adds at the end of the whole queue.
LEMMA PushJoinsQueue ==
    ASSUME TypeOK, NEW f \in Functors
    PROVE  tempFunctors \o Append(pendingFunctors_, f)
             = Append(tempFunctors \o pendingFunctors_, f)
<1>1. Append(pendingFunctors_, f) = pendingFunctors_ \o <<f>>
  BY AppendIsConcat DEF TypeOK
<1>2. Append(tempFunctors \o pendingFunctors_, f)
        = (tempFunctors \o pendingFunctors_) \o <<f>>
  BY AppendIsConcat, ConcatProperties DEF TypeOK
<1> QED
  BY <1>1, <1>2, ConcatAssociative DEF TypeOK

\* Every step of the loop or of a caller is a step of TaskQueue, or changes
\* nothing there.
LEMMA QueueStep ==
    ASSUME TypeOK, LoopShape, [Next]_vars
    PROVE  [Queue!Next]_(Queue!vars)
<1> DEFINE q == tempFunctors \o pendingFunctors_
<1> USE DEF owner, history
<1>1. ASSUME NEW f \in Functors, Fresh(f),
             pendingFunctors_' = Append(pendingFunctors_, f),
             UNCHANGED <<tempFunctors, ran>>
      PROVE  Queue!Next
  <2>1. q' = Append(q, f)
    BY <1>1, PushJoinsQueue
  <2> QED
    BY <1>1, <2>1, FreshInQueue DEF Queue!Next, Queue!Post
<1>2. ASSUME NEW f \in Functors, OwnerRunInLoop(f)
      PROVE  Queue!Next
  BY <1>2, FreshInQueue DEF OwnerRunInLoop, Queue!Next, Queue!RunNow
<1>3. CASE SwapFunctors
  <2>1. tempFunctors = <<>>
    BY <1>3 DEF SwapFunctors, LoopShape
  <2>2. q' = pendingFunctors_ /\ q = pendingFunctors_
    BY <1>3, <2>1, ConcatEmptySeq DEF SwapFunctors, TypeOK
  <2> QED
    BY <1>3, <2>2 DEF SwapFunctors, Queue!vars
<1>4. CASE RunFunctor
  <2>1. /\ tempFunctors \in Seq(Functors) /\ tempFunctors # <<>>
        /\ pendingFunctors_ \in Seq(Functors)
    BY <1>4 DEF RunFunctor, TypeOK
  <2>2. /\ q # <<>>
        /\ Head(q) = Head(tempFunctors)
        /\ Tail(q) = Tail(tempFunctors) \o pendingFunctors_
    BY <2>1
  <2> QED
    BY <1>4, <2>2 DEF RunFunctor, Queue!Next, Queue!RunHead
<1>5. ASSUME UNCHANGED <<pendingFunctors_, tempFunctors, ran>>
      PROVE  UNCHANGED Queue!vars
  BY <1>5 DEF Queue!vars
<1>6. CASE UNCHANGED <<pendingFunctors_, tempFunctors, ran>>
  BY <1>5, <1>6
<1>7. ASSUME NEW t \in Threads, NEW f \in Functors, QueueInLoop(t, f)
      PROVE  Queue!Next
  BY <1>1, <1>7 DEF QueueInLoop
<1>8. ASSUME NEW f \in Functors, OwnerQueueInLoop(f)
      PROVE  Queue!Next
  BY <1>1, <1>8 DEF OwnerQueueInLoop
<1>9. ASSUME NEW t \in Threads, Quit(t) \/ WakeUp(t)
      PROVE  UNCHANGED <<pendingFunctors_, tempFunctors, ran>>
  BY <1>9 DEF Quit, WakeUp
<1>10. CASE OwnerQuit \/ EnterLoop
  BY <1>6, <1>10 DEF OwnerQuit, EnterLoop
<1>11. CASE PollWakeup \/ PollIO \/ PollTimeout
  BY <1>6, <1>11 DEF PollWakeup, PollIO, PollTimeout, PollReturns
<1>12. CASE TestQuit \/ HandleRead \/ HandlerBegins \/ HandlerEnds
            \/ EndFunctors
  BY <1>6, <1>12 DEF TestQuit, HandleRead, HandlerBegins, HandlerEnds,
                     EndFunctors
<1>13. CASE UNCHANGED vars
  BY <1>6, <1>13 DEF vars
<1> QED
  BY <1>2, <1>3, <1>4, <1>6, <1>7, <1>8, <1>9, <1>10, <1>11, <1>12, <1>13
     DEF Next, LoopStep

\* EventLoop.cc:157-194: pendingFunctors_ and the vector it is swapped into
\* behave as one first-in-first-out queue that runs every functor once, for
\* any number of threads and in every interleaving.
THEOREM ImplementsTaskQueue == Spec => TaskQueueSpec
<1>1. Init => Queue!Init
  BY ConcatEmptySeq, EmptySeq DEF Init, Queue!Init
<1>2. Spec => [][Queue!Next]_(Queue!vars)
  BY QueueStep, TypeCorrect, ShapeInvariant, PTL DEF Spec
<1> QED
  BY <1>1, <1>2, PTL DEF Spec, TaskQueueSpec, Queue!Spec
=============================================================================
