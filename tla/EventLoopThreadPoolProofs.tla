--------------------- MODULE EventLoopThreadPoolProofs ---------------------
(***************************************************************************)
(* Theorems about EventLoopThreadPool, for any number of threads.          *)
(***************************************************************************)
EXTENDS EventLoopThreadPool, SequenceTheorems, TLAPS

-----------------------------------------------------------------------------
(* The inductive invariant.                                                *)

\* What a thread has done shows in the three fields the base thread reads.
Done(t) ==
    /\ started_[t] <=> child[t] # "none"
    /\ tid_[t] <=> child[t] \notin {"none", "tid"}
    /\ count_[t] = 0 <=> child[t] \notin {"none", "tid", "count"}
    /\ loop_[t] <=> child[t] \in {"enter", "looping"}

\* Where start() is in the list of threads.
Position ==
    /\ \A t \in Threads :
          started_[t] => t < cur \/ (t = cur /\ base \notin {"idle", "create"})
    /\ base \in {"latch", "latchWait"} => started_[cur]
    /\ base = "push" => loop_[cur]
    /\ base = "idle" => cur = 1
    /\ base = "started" => cur = numThreads_ + 1
    /\ base \in {"idle", "started"} \/ cur <= numThreads_
    /\ Len(loops_) = cur - 1
    /\ \A i \in DOMAIN loops_ : loops_[i] = i /\ loop_[i]

\* Before start() has returned nothing is dealt to the threads; after it, the
\* loops before next_ are one ahead of the others.
Dealt ==
    /\ next_ = 0 \/ next_ < Len(loops_)
    /\ base # "started" => next_ = 0 /\ \A t \in Threads : given[t] = 0
    /\ \E k \in Nat : \A t \in 1 .. numThreads_ :
          given[t] = IF t <= next_ THEN k + 1 ELSE k

PoolInv ==
    /\ TypeOK
    /\ \A t \in Threads : Done(t)
    /\ Position
    /\ Dealt
    /\ AssertsHold

-----------------------------------------------------------------------------
LEMMA InitPool == Init => PoolInv
<1> SUFFICES ASSUME Init
             PROVE  PoolInv
  OBVIOUS
<1>1. TypeOK
  <2>1. loops_ \in Seq(Threads)
    BY EmptySeq DEF Init
  <2>2. 1 \in 1 .. NumThreads + 1 /\ 0 \in 0 .. NumThreads
    BY Numbers
  <2>3. given \in [Loops -> 0 .. MaxTasks]
    BY Numbers DEF Init
  <2> QED
    BY <2>1, <2>2, <2>3 DEF Init, TypeOK
<1>2. \A t \in Threads : Done(t)
  BY DEF Init, Done
<1>3. Position
  BY EmptySeq DEF Init, Position
<1>4. Dealt
  <2>1. \A t \in Threads : given[t] = 0
    BY DEF Init, Threads, Loops
  <2>3. 1 .. numThreads_ = {}
    BY DEF Init
  <2>2. 0 \in Nat
    OBVIOUS
  <2> QED
    BY <2>1, <2>2, <2>3 DEF Init, Dealt
<1> QED
  BY <1>1, <1>2, <1>3, <1>4 DEF Init, PoolInv, AssertsHold

\* A step of the started thread moves child[t] on, with the field that tells.
LEMMA ThreadPool ==
    ASSUME PoolInv, NEW t \in Threads, ThreadStep(t)
    PROVE  PoolInv'
<1> USE DEF PoolInv
<1>1. /\ cur' = cur /\ UNCHANGED pool /\ started_' = started_
      /\ fault = "none" /\ fault' = fault
      /\ base' = base \/ (cur = t /\ base = "latchWait" /\ base' = "latch")
                      \/ (cur = t /\ base = "condWait" /\ base' = "cond")
  BY DEF ThreadStep, SetTid, CountDown, Construct, Publish, EnterLoop, Notify, Up
<1>2. /\ child[t] # "none"
      /\ child' \in [Threads -> {"none", "tid", "count", "construct",
                                 "publish", "enter", "looping"}]
      /\ tid_' \in [Threads -> BOOLEAN] /\ loop_' \in [Threads -> BOOLEAN]
      /\ count_' \in [Threads -> {0, 1}]
      /\ \A u \in Threads \ {t} :
            /\ child'[u] = child[u] /\ tid_'[u] = tid_[u]
            /\ count_'[u] = count_[u] /\ loop_'[u] = loop_[u]
  <2>1. CASE SetTid(t)
    BY <2>1 DEF SetTid, TypeOK
  <2>2. CASE CountDown(t)
    <3>1. count_[t] = 1
      BY <2>2 DEF CountDown, Done, TypeOK
    <3> QED
      BY <2>2, <3>1 DEF CountDown, TypeOK
  <2>3. CASE Construct(t)
    BY <2>3 DEF Construct, TypeOK
  <2>4. CASE Publish(t)
    BY <2>4 DEF Publish, TypeOK
  <2>5. CASE EnterLoop(t)
    BY <2>5 DEF EnterLoop, TypeOK
  <2> QED
    BY <2>1, <2>2, <2>3, <2>4, <2>5 DEF ThreadStep
<1>3. Done(t)' /\ (loop_[t] => loop_'[t])
  <2>1. CASE SetTid(t)
    BY <2>1 DEF SetTid, TypeOK, Done
  <2>2. CASE CountDown(t)
    <3>1. count_[t] = 1
      BY <2>2 DEF CountDown, Done, TypeOK
    <3> QED
      BY <2>2, <3>1 DEF CountDown, TypeOK, Done
  <2>3. CASE Construct(t)
    BY <2>3 DEF Construct, TypeOK, Done
  <2>4. CASE Publish(t)
    BY <2>4 DEF Publish, TypeOK, Done
  <2>5. CASE EnterLoop(t)
    BY <2>5 DEF EnterLoop, TypeOK, Done
  <2> QED
    BY <2>1, <2>2, <2>3, <2>4, <2>5 DEF ThreadStep
<1>4. \A u \in Threads : Done(u)' /\ (loop_[u] => loop_'[u])
  BY <1>1, <1>2, <1>3 DEF Done
<1>5. TypeOK'
  BY <1>1, <1>2 DEF TypeOK, pool
<1>6. Position'
  <2>1. Len(loops_) = cur - 1 /\ DOMAIN loops_ = 1 .. Len(loops_)
        /\ cur \in 1 .. NumThreads + 1
    BY LenProperties DEF Position, TypeOK
  <2>2. \A i \in DOMAIN loops_ : i \in Threads
    BY <2>1, Numbers DEF Threads
  <2>3. \A i \in DOMAIN loops_' : loops_'[i] = i /\ loop_'[i]
    BY <1>1, <1>4, <2>2 DEF Position, pool
  <2>4. base' = "push" => loop_'[cur']
    BY <1>1, <1>4 DEF Position, TypeOK
  <2> QED
    BY <1>1, <2>3, <2>4 DEF Position, pool
<1>7. Dealt'
  BY <1>1 DEF Dealt, pool
<1> QED
  BY <1>1, <1>4, <1>5, <1>6, <1>7 DEF AssertsHold

\* setThreadNum: nothing has been dealt to threads yet.
LEMMA SetThreadNumPool ==
    ASSUME PoolInv, SetThreadNum
    PROVE  PoolInv'
<1> USE DEF PoolInv
<1>1. /\ base = "idle" /\ base' = base /\ cur' = cur /\ loops_' = loops_
      /\ next_' = next_ /\ given' = given /\ UNCHANGED thread
      /\ fault' = fault /\ numThreads_' \in 0 .. NumThreads
  BY DEF SetThreadNum
<1>2. TypeOK'
  BY <1>1 DEF TypeOK, thread
<1>3. \A t \in Threads : Done(t)'
  BY <1>1 DEF Done, thread
<1>4. Position'
  BY <1>1 DEF Position, thread
<1>5. Dealt'
  <2>1. next_ = 0 /\ \A t \in Threads : given[t] = 0
    BY <1>1 DEF Dealt
  <2>2. \A t \in 1 .. numThreads_' : t \in Threads /\ ~(t <= 0)
    BY <1>1, Numbers DEF Threads
  <2>3. \A t \in 1 .. numThreads_' : given[t] = IF t <= 0 THEN 0 + 1 ELSE 0
    BY <2>1, <2>2
  <2> QED
    BY <1>1, <2>1, <2>3 DEF Dealt
<1> QED
  BY <1>1, <1>2, <1>3, <1>4, <1>5 DEF AssertsHold

\* StartNext only sends the base thread to a thread that is there.
LEMMA StartNextStays ==
    ASSUME NEW i \in Nat \ {0}, numThreads_ \in 0 .. NumThreads,
           i <= numThreads_ + 1
    PROVE  \/ StartNext(i) = "create" /\ i \in Threads /\ i <= numThreads_
           \/ StartNext(i) = "started" /\ i = numThreads_ + 1
BY Numbers DEF StartNext, Threads

\* start() begins, or fails its assert and nothing else changes.
LEMMA StartPool ==
    ASSUME PoolInv, Start
    PROVE  PoolInv'
<1> USE DEF PoolInv
<1>1. cur' = cur /\ UNCHANGED pool /\ UNCHANGED thread
  BY DEF Start
<1>2. CASE base = "idle"
  <2>1. cur = 1 /\ numThreads_ \in 0 .. NumThreads
        /\ fault = "none" /\ fault' = fault
    BY <1>2 DEF Start, BaseIsFree, Up, Position, TypeOK
  <2>2. 1 <= numThreads_ + 1
    BY <2>1, Numbers
  <2>3. \/ base' = "create" /\ cur \in Threads /\ cur <= numThreads_
        \/ base' = "started" /\ cur = numThreads_ + 1
    BY <1>2, <2>1, <2>2, StartNextStays DEF Start
  <2>4. TypeOK'
    BY <1>1, <2>1, <2>3 DEF TypeOK, pool, thread
  <2>5. \A t \in Threads : Done(t)'
    BY <1>1 DEF Done, thread
  <2>6. Position'
    BY <1>1, <1>2, <2>3 DEF Position, pool, thread
  <2>7. Dealt'
    BY <1>1, <1>2 DEF Dealt, pool
  <2> QED
    BY <2>1, <2>4, <2>5, <2>6, <2>7 DEF AssertsHold
<1>3. CASE base # "idle"
  <2>1. base = "started" /\ base' = base
        /\ fault' = "EventLoopThreadPool.cc:23"
    BY <1>3 DEF Start, BaseIsFree
  <2> QED
    BY <1>1, <2>1 DEF TypeOK, Done, Position, Dealt, pool, thread, AssertsHold
<1> QED
  BY <1>2, <1>3

\* Thread::start: the assert holds, for the thread at cur was never started.
LEMMA ThreadStartPool ==
    ASSUME PoolInv, ThreadStart
    PROVE  PoolInv'
<1> USE DEF PoolInv
<1>1. /\ base = "create" /\ cur \in Threads /\ ~started_[cur]
      /\ cur' = cur /\ UNCHANGED pool
      /\ tid_' = tid_ /\ count_' = count_ /\ loop_' = loop_
      /\ fault = "none" /\ fault' = fault
      /\ \/ /\ started_' = [started_ EXCEPT ![cur] = TRUE]
            /\ child' = [child EXCEPT ![cur] = "tid"]
            /\ base' = "latch"
         \/ base' = "cond" /\ started_' = started_ /\ child' = child
  <2>1. base = "create" /\ cur \in Threads
    BY DEF ThreadStart, TypeOK
  <2>2. ~started_[cur]
    BY <2>1 DEF Position, Threads
  <2> QED
    BY <2>1, <2>2 DEF ThreadStart, Up
<1>2. TypeOK'
  BY <1>1 DEF TypeOK, pool
<1>3. \A t \in Threads : Done(t)'
  BY <1>1 DEF Done, TypeOK
<1>4. Position'
  BY <1>1 DEF Position, pool, TypeOK, Threads
<1>5. Dealt'
  BY <1>1 DEF Dealt, pool
<1> QED
  BY <1>1, <1>2, <1>3, <1>4, <1>5 DEF AssertsHold

\* The latch only lets start() through once the tid is set.
LEMMA WaitPool ==
    ASSUME PoolInv, LatchWait \/ LoopWait \/ WakeSpuriously
    PROVE  PoolInv'
<1> USE DEF PoolInv
<1>1. /\ cur' = cur /\ UNCHANGED pool /\ UNCHANGED thread
      /\ fault = "none" /\ fault' = fault
      /\ \/ base \in {"latch", "latchWait"}
               /\ base' \in {"latch", "latchWait", "cond"}
         \/ base \in {"cond", "condWait"} /\ base' \in {"cond", "condWait"}
         \/ base = "cond" /\ base' = "push" /\ loop_[cur]
  <2>1. CASE LatchWait
    <3>1. base = "latch" /\ cur \in Threads
      BY <2>1 DEF LatchWait, TypeOK
    <3>2. count_[cur] > 0 \/ tid_[cur]
      BY <3>1 DEF Done, TypeOK
    <3> QED
      BY <2>1, <3>1, <3>2 DEF LatchWait, Up
  <2>2. CASE LoopWait
    BY <2>2 DEF LoopWait, Up
  <2>3. CASE WakeSpuriously
    BY <2>3 DEF WakeSpuriously, Up
  <2> QED
    BY <2>1, <2>2, <2>3
<1>2. TypeOK'
  BY <1>1 DEF TypeOK, pool, thread
<1>3. \A t \in Threads : Done(t)'
  BY <1>1 DEF Done, thread
<1>4. Position'
  BY <1>1 DEF Position, pool, thread
<1>5. Dealt'
  BY <1>1 DEF Dealt, pool
<1> QED
  BY <1>1, <1>2, <1>3, <1>4, <1>5 DEF AssertsHold

\* start() keeps the loop it waited for.
LEMMA PushPool ==
    ASSUME PoolInv, PushLoop
    PROVE  PoolInv'
<1> USE DEF PoolInv
<1>1. /\ base = "push" /\ cur \in Threads /\ loop_[cur]
      /\ loops_' = Append(loops_, cur) /\ cur' = cur + 1
      /\ next_' = next_ /\ given' = given /\ UNCHANGED thread
      /\ numThreads_' = numThreads_ /\ fault = "none" /\ fault' = fault
  BY DEF PushLoop, Position, TypeOK, Up
<1>2. /\ loops_ \in Seq(Threads) /\ Len(loops_) = cur - 1 /\ cur \in Nat
      /\ cur + 1 \in 1 .. NumThreads + 1 /\ cur + 1 <= numThreads_ + 1
      /\ numThreads_ \in 0 .. NumThreads
  BY <1>1, Numbers DEF Position, TypeOK, Threads
<1>3. \/ base' = "create" /\ cur' \in Threads /\ cur' <= numThreads_
      \/ base' = "started" /\ cur' = numThreads_ + 1
  <2>1. cur + 1 \in Nat \ {0}
    BY <1>2
  <2> QED
    BY <1>1, <1>2, <2>1, StartNextStays DEF PushLoop
<1>4. /\ loops_' \in Seq(Threads) /\ Len(loops_') = cur
      /\ DOMAIN loops_' = 1 .. cur
      /\ \A i \in 1 .. cur : loops_'[i] = IF i = cur THEN cur ELSE loops_[i]
  <2>1. /\ loops_' \in Seq(Threads) /\ Len(loops_') = Len(loops_) + 1
        /\ \A i \in 1 .. Len(loops_) + 1 :
              loops_'[i] = IF i <= Len(loops_) THEN loops_[i] ELSE cur
    BY <1>1, <1>2, AppendProperties
  <2>2. DOMAIN loops_' = 1 .. Len(loops_')
    BY <2>1, LenProperties
  <2> QED
    BY <1>2, <2>1, <2>2
<1>5. \A i \in 1 .. cur : loops_'[i] = i /\ loop_[i]
  <2>1. ASSUME NEW i \in 1 .. cur, i # cur
        PROVE  loops_[i] = i /\ loop_[i]
    <3>1. i \in DOMAIN loops_
      BY <1>2, <2>1, LenProperties
    <3> QED
      BY <3>1 DEF Position
  <2> QED
    BY <1>1, <1>4, <2>1
<1>6. TypeOK'
  BY <1>1, <1>2, <1>3, <1>4 DEF TypeOK, thread
<1>7. \A t \in Threads : Done(t)'
  BY <1>1 DEF Done, thread
<1>8. Position'
  <2>1. \A t \in Threads : started_[t] => t < cur + 1
    BY <1>1, <1>2 DEF Position, Threads
  <2>2. Len(loops_') = cur' - 1
    BY <1>1, <1>2, <1>4
  <2>3. \A i \in DOMAIN loops_' : loops_'[i] = i /\ loop_'[i]
    BY <1>1, <1>4, <1>5 DEF thread
  <2> QED
    BY <1>1, <1>3, <2>1, <2>2, <2>3 DEF Position, thread
<1>9. Dealt'
  <2>1. next_ = 0
    BY <1>1 DEF Dealt
  <2> QED
    BY <1>1, <2>1 DEF Dealt
<1> QED
  BY <1>1, <1>6, <1>7, <1>8, <1>9 DEF AssertsHold

\* Without threads, or before start(), getNextLoop gives the base loop.
LEMMA DispatchToBase ==
    ASSUME PoolInv, Dispatch, loops_ = <<>>
    PROVE  PoolInv'
<1> USE DEF PoolInv
<1>1. /\ base' = base /\ cur' = cur /\ loops_' = loops_ /\ next_' = next_
      /\ numThreads_' = numThreads_ /\ UNCHANGED thread /\ fault' = fault
      /\ given[BaseLoop] < MaxTasks
      /\ given' = [given EXCEPT ![BaseLoop] = @ + 1]
  BY DEF Dispatch, NextLoop
<1>2. /\ given \in [Loops -> 0 .. MaxTasks] /\ BaseLoop \in Loops
      /\ BaseLoop \notin Threads /\ \A t \in Threads : t \in Loops
      /\ \A t \in 1 .. numThreads_ : t \in Threads
  BY Numbers DEF TypeOK, Loops, BaseLoop, Threads
<1>3. given' \in [Loops -> 0 .. MaxTasks]
  BY <1>1, <1>2, Numbers
<1>4. \A t \in Threads : given'[t] = given[t]
  BY <1>1, <1>2
<1>5. TypeOK'
  BY <1>1, <1>3 DEF TypeOK, thread
<1>6. \A t \in Threads : Done(t)'
  BY <1>1 DEF Done, thread
<1>7. Position'
  BY <1>1 DEF Position, thread
<1>8. Dealt'
  <2>1. PICK k \in Nat : \A t \in 1 .. numThreads_ :
                             given[t] = IF t <= next_ THEN k + 1 ELSE k
    BY DEF Dealt
  <2>2. \A t \in 1 .. numThreads_ :
           given'[t] = IF t <= next_ THEN k + 1 ELSE k
    BY <1>2, <1>4, <2>1
  <2> QED
    BY <1>1, <1>4, <2>2 DEF Dealt
<1> QED
  BY <1>1, <1>5, <1>6, <1>7, <1>8 DEF AssertsHold

\* getNextLoop deals to loop next_ + 1, the first of those that are behind.
LEMMA DispatchPool ==
    ASSUME PoolInv, Dispatch, loops_ # <<>>
    PROVE  PoolInv'
<1> USE DEF PoolInv
<1>1. /\ base' = base /\ cur' = cur /\ loops_' = loops_
      /\ numThreads_' = numThreads_ /\ UNCHANGED thread /\ fault' = fault
      /\ given[NextLoop] < MaxTasks
      /\ given' = [given EXCEPT ![NextLoop] = @ + 1]
      /\ base \in {"idle", "started"}
  BY DEF Dispatch, BaseIsFree
<1>2. /\ base = "started" /\ numThreads_ \in 1 .. NumThreads
      /\ Len(loops_) = numThreads_ /\ DOMAIN loops_ = 1 .. numThreads_
      /\ \A i \in 1 .. numThreads_ : loops_[i] = i /\ i \in Threads
  <2>1. loops_ \in Seq(Threads) /\ Len(loops_) # 0 /\ Len(loops_) \in Nat
    <3>1. loops_ \in Seq(Threads)
      BY DEF TypeOK
    <3> QED
      BY <3>1, EmptySeq, LenProperties
  <2>2. Len(loops_) = cur - 1 /\ cur \in Nat /\ numThreads_ \in 0 .. NumThreads
    BY Numbers DEF Position, TypeOK
  <2>3. base = "started"
    BY <1>1, <2>1, <2>2 DEF Position
  <2>4. cur = numThreads_ + 1
    BY <2>3 DEF Position
  <2>5. Len(loops_) = numThreads_ /\ numThreads_ \in 1 .. NumThreads
    BY <2>1, <2>2, <2>4, Numbers
  <2>6. DOMAIN loops_ = 1 .. numThreads_
    BY <2>1, <2>5, LenProperties
  <2>7. \A i \in 1 .. numThreads_ : i \in Threads
    BY <2>5, Numbers DEF Threads
  <2> QED
    BY <2>3, <2>5, <2>6, <2>7 DEF Position
<1>3. /\ next_ \in Nat /\ given \in [Loops -> 0 .. MaxTasks]
      /\ next_ < numThreads_
  BY <1>2 DEF Dealt, TypeOK
<1>4. PICK k \in Nat : \A t \in 1 .. numThreads_ :
                           given[t] = IF t <= next_ THEN k + 1 ELSE k
  BY DEF Dealt
<1>5. next_ + 1 \in 1 .. numThreads_ /\ NextLoop = next_ + 1
  <2>1. next_ + 1 \in 1 .. numThreads_
    BY <1>2, <1>3
  <2> QED
    BY <1>2, <2>1 DEF NextLoop
<1>6. next_' = IF next_ + 1 >= numThreads_ THEN 0 ELSE next_ + 1
  BY <1>2 DEF Dispatch, NextIndex
<1>7. TypeOK'
  <2>1. given' \in [Loops -> 0 .. MaxTasks]
    BY <1>1, <1>2, <1>3, <1>5, Numbers DEF Loops
  <2>2. next_' \in Nat
    BY <1>3, <1>6
  <2> QED
    BY <1>1, <2>1, <2>2 DEF TypeOK, thread
<1>8. \A t \in 1 .. numThreads_ :
         given'[t] = IF t <= next_ + 1 THEN k + 1 ELSE k
  <2>1. \A t \in 1 .. numThreads_ : t \in Nat /\ t \in Loops
    BY <1>2 DEF Loops
  <2>2. given'[next_ + 1] = k + 1
    BY <1>1, <1>3, <1>4, <1>5, <2>1
  <2>3. \A t \in 1 .. numThreads_ : t # next_ + 1 => given'[t] = given[t]
    BY <1>1, <1>3, <1>5, <2>1
  <2> QED
    BY <1>3, <1>4, <2>1, <2>2, <2>3
<1>9. Dealt'
  <2>1. CASE next_ + 1 >= numThreads_
    <3>1. \A t \in 1 .. numThreads_ :
             given'[t] = IF t <= 0 THEN (k + 1) + 1 ELSE k + 1
      BY <1>2, <1>3, <1>8, <2>1
    <3> QED
      BY <1>1, <1>2, <1>6, <2>1, <3>1 DEF Dealt
  <2>2. CASE ~(next_ + 1 >= numThreads_)
    <3>1. next_' = next_ + 1 /\ next_' < Len(loops_')
      BY <1>1, <1>2, <1>3, <1>6, <2>2
    <3> QED
      BY <1>1, <1>2, <1>8, <3>1 DEF Dealt
  <2> QED
    BY <2>1, <2>2
<1>10. \A t \in Threads : Done(t)'
  BY <1>1 DEF Done, thread
<1>11. Position'
  BY <1>1 DEF Position, thread
<1> QED
  BY <1>1, <1>7, <1>9, <1>10, <1>11 DEF AssertsHold

LEMMA NextPool == PoolInv /\ [Next]_vars => PoolInv'
<1> SUFFICES ASSUME PoolInv, [Next]_vars
             PROVE  PoolInv'
  OBVIOUS
<1>1. ASSUME UNCHANGED vars PROVE PoolInv'
  BY <1>1 DEF PoolInv, TypeOK, Done, Position, Dealt, AssertsHold, vars, pool,
              thread
<1>2. ASSUME NEW t \in Threads, PollTimesOut(t) PROVE PoolInv'
  BY <1>1, <1>2 DEF PollTimesOut
<1>3. ASSUME Ended PROVE PoolInv'
  BY <1>1, <1>3 DEF Ended
<1>4. ASSUME Dispatch PROVE PoolInv'
  BY <1>4, DispatchToBase, DispatchPool
<1> QED
  BY <1>1, <1>2, <1>3, <1>4, SetThreadNumPool, ThreadPool, StartPool,
     ThreadStartPool, WaitPool, PushPool DEF Next, BaseStep

\* The inductive invariant: where each thread and start() are, how far round
\* the loops were handed out, and that no assert failed but the one a second
\* start() meets, go together.
THEOREM PoolInvariant == Spec => []PoolInv
BY InitPool, NextPool, PTL DEF Spec

-----------------------------------------------------------------------------
(* The properties.                                                         *)

\* Every variable keeps its type; start() never gets past its last thread.
THEOREM TypeCorrect == Spec => []TypeOK
<1>1. PoolInv => TypeOK
  BY DEF PoolInv
<1> QED
  BY <1>1, PoolInvariant, PTL

\* Thread.cc:55 and 66: with any number of threads the asserts hold, whoever
\* comes to the latch first; EventLoopThreadPool.cc:23 fails only in a second
\* start().
THEOREM AssertsNeverFail == Spec => []AssertsHold
<1>1. PoolInv => AssertsHold
  BY DEF PoolInv
<1> QED
  BY <1>1, PoolInvariant, PTL

\* EventLoopThread.cc:21-48: with any number of threads the pool only holds
\* loops that exist, and next_ is the place of one of them.
THEOREM LoopsStayReady == Spec => []LoopsAreReady
<1>1. PoolInv => LoopsAreReady
  <2> SUFFICES ASSUME PoolInv
               PROVE  LoopsAreReady
    OBVIOUS
  <2>1. ASSUME NEW i \in DOMAIN loops_
        PROVE  child[loops_[i]] \in {"enter", "looping"}
    <3>1. loops_[i] = i /\ loop_[i]
      BY DEF PoolInv, Position
    <3>2. loops_[i] \in Threads
      BY LenProperties, ElementOfSeq DEF PoolInv, TypeOK
    <3> QED
      BY <3>1, <3>2 DEF PoolInv, Done
  <2> QED
    BY <2>1 DEF LoopsAreReady, PoolInv, Dealt
<1> QED
  BY <1>1, PoolInvariant, PTL

\* EventLoopThreadPool.cc:36-52: the round robin is even for any number of
\* threads.
THEOREM DealtOutEvenly == Spec => []DealtEvenly
<1>1. PoolInv => DealtEvenly
  <2> SUFFICES ASSUME PoolInv, base = "started",
                      NEW i \in DOMAIN loops_, NEW j \in DOMAIN loops_
               PROVE  given[loops_[i]] <= given[loops_[j]] + 1
    BY DEF DealtEvenly
  <2>1. /\ loops_ \in Seq(Threads) /\ numThreads_ \in Nat
        /\ cur = numThreads_ + 1 /\ Len(loops_) = cur - 1
        /\ loops_[i] = i /\ loops_[j] = j
    BY Numbers DEF PoolInv, Position, TypeOK
  <2>2. i \in 1 .. numThreads_ /\ j \in 1 .. numThreads_
    BY <2>1, LenProperties
  <2>3. PICK k \in Nat : \A t \in 1 .. numThreads_ :
                             given[t] = IF t <= next_ THEN k + 1 ELSE k
    BY DEF PoolInv, Dealt
  <2> QED
    BY <2>1, <2>2, <2>3
<1> QED
  BY <1>1, PoolInvariant, PTL
=============================================================================
