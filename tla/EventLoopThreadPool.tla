------------------------ MODULE EventLoopThreadPool ------------------------
(***************************************************************************)
(* net/EventLoopThreadPool, net/EventLoopThread, base/Thread and           *)
(* base/CountDownLatch: the base loop's thread starts numThreads_ threads  *)
(* one after another, each with an EventLoop on its stack, waits twice for *)
(* each of them, and then deals connections out among their loops, or      *)
(* keeps them for itself when there are none.                              *)
(*                                                                         *)
(* A critical section is one step and pthread_cond_wait is two, so that    *)
(* notify can come before, between and after; it may also return unasked.  *)
(* The waits belong to the base thread alone, base is its program counter. *)
(* A task is what newConnection hands to runInLoop; what becomes of it in  *)
(* the loop is EventLoop's matter.                                         *)
(***************************************************************************)
EXTENDS Naturals, Sequences

CONSTANTS NumThreads,   \* bound: the most that setThreadNum asks for
          MaxTasks      \* bound: tasks dealt to any one loop

ASSUME Numbers == NumThreads \in Nat /\ MaxTasks \in Nat

Threads == 1 .. NumThreads
BaseLoop == 0
Loops == Threads \cup {BaseLoop}

VARIABLES
    base,           \* "idle", in start(): "create", "latch", "latchWait",
                    \* "cond", "condWait", "push"; then "started"
    cur,            \* start()'s i, from 1
    numThreads_,
    started_,       \* Thread::started_, per thread
    tid_, count_,   \* Thread::tid_ is set; latch_'s count
    loop_,          \* EventLoopThread::loop_ is set
    child,          \* where the thread is
    loops_, next_,
    given,          \* tasks handed to each loop
    fault           \* "none", or the assert that failed

pool   == <<numThreads_, loops_, next_, given>>
thread == <<started_, tid_, count_, loop_, child>>
vars   == <<base, cur, pool, thread, fault>>

Init ==
    /\ base = "idle" /\ cur = 1 /\ numThreads_ = 0
    /\ started_ = [t \in Threads |-> FALSE] /\ tid_ = [t \in Threads |-> FALSE]
    /\ count_ = [t \in Threads |-> 1] /\ loop_ = [t \in Threads |-> FALSE]
    /\ child = [t \in Threads |-> "none"]
    /\ loops_ = <<>> /\ next_ = 0
    /\ given = [l \in Loops |-> 0]
    /\ fault = "none"

Up == fault = "none"

-----------------------------------------------------------------------------
(* The base thread: EventLoopThreadPool::start.                            *)

\* The base thread is not inside start().
BaseIsFree == Up /\ base \in {"idle", "started"}

\* setThreadNum; after start() nothing reads what it sets.
SetThreadNum ==
    /\ BaseIsFree /\ base = "idle"
    /\ numThreads_' \in 0 .. NumThreads
    /\ UNCHANGED <<base, cur, loops_, next_, given, thread, fault>>

StartNext(i) == IF i <= numThreads_ THEN "create" ELSE "started"

\* The pool's own started_ is base # "idle".
Start ==
    /\ BaseIsFree
    /\ IF base = "idle"
       THEN base' = StartNext(1) /\ UNCHANGED fault
       ELSE fault' = "EventLoopThreadPool.cc:23" /\ UNCHANGED base
    /\ UNCHANGED <<cur, pool, thread>>

\* startLoop calls Thread::start: the thread exists, or could not be created,
\* which startLoop does not learn.
ThreadStart ==
    /\ Up /\ base = "create"
    /\ IF started_[cur]
       THEN fault' = "Thread.cc:55" /\ UNCHANGED <<base, started_, child>>
       ELSE /\ \/ /\ started_' = [started_ EXCEPT ![cur] = TRUE]
                  /\ child' = [child EXCEPT ![cur] = "tid"]
                  /\ base' = "latch"
               \/ base' = "cond" /\ UNCHANGED <<started_, child>>
            /\ UNCHANGED fault
    /\ UNCHANGED <<cur, pool, tid_, count_, loop_>>

\* Slip: start() that does not wait for the thread.
LatchWaitSkipped ==
    /\ Up /\ base = "latch"
    /\ IF tid_[cur] THEN base' = "cond" /\ UNCHANGED fault
       ELSE fault' = "Thread.cc:66" /\ UNCHANGED base
    /\ UNCHANGED <<cur, pool, thread>>

\* CountDownLatch::wait, and Thread::start's assert when it returns.
LatchWait ==
    /\ Up /\ base = "latch"
    /\ IF count_[cur] > 0
       THEN base' = "latchWait" /\ UNCHANGED fault
       ELSE IF tid_[cur] THEN base' = "cond" /\ UNCHANGED fault
            ELSE fault' = "Thread.cc:66" /\ UNCHANGED base
    /\ UNCHANGED <<cur, pool, thread>>

\* Slip: startLoop() that does not wait for the loop.
LoopWaitSkipped ==
    /\ Up /\ base = "cond"
    /\ base' = "push"
    /\ UNCHANGED <<cur, pool, thread, fault>>

\* while (loop_ == NULL) cond_.wait().
LoopWait ==
    /\ Up /\ base = "cond"
    /\ base' = IF loop_[cur] THEN "push" ELSE "condWait"
    /\ UNCHANGED <<cur, pool, thread, fault>>

WakeSpuriously ==
    /\ Up
    /\ \/ base = "latchWait" /\ base' = "latch"
       \/ base = "condWait" /\ base' = "cond"
    /\ UNCHANGED <<cur, pool, thread, fault>>

\* startLoop returns loop_ and start() keeps it.
PushLoop ==
    /\ Up /\ base = "push"
    /\ loops_' = Append(loops_, cur)
    /\ cur' = cur + 1
    /\ base' = StartNext(cur + 1)
    /\ UNCHANGED <<numThreads_, next_, given, thread, fault>>

\* Slip: next_ stays at the last loop.
NextIndexSkips(i) == IF i + 1 >= Len(loops_) THEN Len(loops_) - 1 ELSE i + 1

NextIndex(i) == IF i + 1 >= Len(loops_) THEN 0 ELSE i + 1

NextLoop == IF loops_ = <<>> THEN BaseLoop ELSE loops_[next_ + 1]

\* getNextLoop, before start() or after it, and runInLoop on what it returns.
Dispatch ==
    /\ BaseIsFree /\ given[NextLoop] < MaxTasks
    /\ given' = [given EXCEPT ![NextLoop] = @ + 1]
    /\ next_' = IF loops_ = <<>> THEN next_ ELSE NextIndex(next_)
    /\ UNCHANGED <<base, cur, numThreads_, loops_, thread, fault>>

-----------------------------------------------------------------------------
(* The threads: ThreadData::runInThread and EventLoopThread::threadFunc.   *)

\* notify() and notifyAll(): the base thread is woken if it waits there for t.
Notify(t, waits, woken) ==
    base' = IF base = waits /\ cur = t THEN woken ELSE base

SetTid(t) ==
    /\ Up /\ child[t] = "tid"
    /\ tid_' = [tid_ EXCEPT ![t] = TRUE]
    /\ child' = [child EXCEPT ![t] = "count"]
    /\ UNCHANGED <<base, cur, pool, started_, count_, loop_, fault>>

\* Slip: nobody told that the count is zero.
CountDownSilent(t) ==
    /\ Up /\ child[t] = "count"
    /\ count_' = [count_ EXCEPT ![t] = @ - 1]
    /\ child' = [child EXCEPT ![t] = "construct"]
    /\ UNCHANGED <<base, cur, pool, started_, tid_, loop_, fault>>

CountDown(t) ==
    /\ Up /\ child[t] = "count"
    /\ count_' = [count_ EXCEPT ![t] = @ - 1]
    /\ IF count_[t] = 1 THEN Notify(t, "latchWait", "latch") ELSE UNCHANGED base
    /\ child' = [child EXCEPT ![t] = "construct"]
    /\ UNCHANGED <<cur, pool, started_, tid_, loop_, fault>>

\* EventLoop loop;
Construct(t) ==
    /\ Up /\ child[t] = "construct"
    /\ child' = [child EXCEPT ![t] = "publish"]
    /\ UNCHANGED <<base, cur, pool, started_, tid_, count_, loop_, fault>>

\* loop_ = &loop and the notify, under the mutex.
Publish(t) ==
    /\ Up /\ child[t] = "publish"
    /\ loop_' = [loop_ EXCEPT ![t] = TRUE]
    /\ Notify(t, "condWait", "cond")
    /\ child' = [child EXCEPT ![t] = "enter"]
    /\ UNCHANGED <<cur, pool, started_, tid_, count_, fault>>

\* loop.loop()
EnterLoop(t) ==
    /\ Up /\ child[t] = "enter"
    /\ child' = [child EXCEPT ![t] = "looping"]
    /\ UNCHANGED <<base, cur, pool, started_, tid_, count_, loop_, fault>>

\* epoll_wait in a running loop comes back with nothing.
PollTimesOut(t) == Up /\ child[t] = "looping" /\ UNCHANGED vars

\* A failed assert ends the process.
Ended == ~Up /\ UNCHANGED vars

BaseStep == ThreadStart \/ LatchWait \/ LoopWait \/ PushLoop

ThreadStep(t) ==
    SetTid(t) \/ CountDown(t) \/ Construct(t) \/ Publish(t) \/ EnterLoop(t)

Next ==
    \/ SetThreadNum \/ Start \/ BaseStep \/ Dispatch \/ WakeSpuriously \/ Ended
    \/ \E t \in Threads : ThreadStep(t) \/ PollTimesOut(t)

Spec == Init /\ [][Next]_vars

\* Every thread that exists is scheduled, the base thread while it is in
\* start().  Calls of the pool and spurious wake-ups are not owed.
FairSpec ==
    /\ Spec
    /\ WF_vars(BaseStep)
    /\ \A t \in Threads : WF_vars(ThreadStep(t))

-----------------------------------------------------------------------------
(* Properties.                                                             *)

TypeOK ==
    /\ base \in {"idle", "create", "latch", "latchWait", "cond", "condWait",
                 "push", "started"}
    /\ cur \in 1 .. NumThreads + 1 /\ numThreads_ \in 0 .. NumThreads
    /\ base \in {"idle", "started"} \/ cur \in Threads
    /\ started_ \in [Threads -> BOOLEAN] /\ tid_ \in [Threads -> BOOLEAN]
    /\ count_ \in [Threads -> {0, 1}] /\ loop_ \in [Threads -> BOOLEAN]
    /\ child \in [Threads -> {"none", "tid", "count", "construct", "publish",
                              "enter", "looping"}]
    /\ loops_ \in Seq(Threads) /\ next_ \in Nat
    /\ given \in [Loops -> 0 .. MaxTasks]
    /\ fault \in {"none", "Thread.cc:55", "Thread.cc:66",
                  "EventLoopThreadPool.cc:23"}

\* The asserts of Thread.cc:55 and 66: no Thread is started twice, and start()
\* returns only once the thread has told its tid, whichever of the two comes
\* to the latch first and however often the wait returns for nothing.  The
\* pool's own assert fails only for a caller that starts it a second time.
AssertsHold ==
    \/ fault = "none"
    \/ fault = "EventLoopThreadPool.cc:23" /\ base = "started"

\* EventLoopThread.cc:21-48.  A loop start() got hold of has been constructed,
\* by a thread that is going to run it or is running it, and getNextLoop
\* points at one of them.
LoopsAreReady ==
    /\ \A i \in DOMAIN loops_ : child[loops_[i]] \in {"enter", "looping"}
    /\ next_ < Len(loops_) \/ next_ = 0

\* EventLoopThreadPool.cc:36-52.  Connections are dealt out evenly: no loop of
\* the pool is ever two ahead of another, whatever went to the base loop before
\* there was a pool.
DealtEvenly ==
    base = "started" =>
        \A i, j \in DOMAIN loops_ : given[loops_[i]] <= given[loops_[j]] + 1

\* start() returns, unless a thread could not be created: Thread.cc:58-62
\* reports that to no one, and startLoop then waits for its loop for ever.
CreateFailed == base \in {"cond", "condWait"} /\ child[cur] = "none"

StartReturns == base # "idle" ~> (base = "started" \/ CreateFailed)
=============================================================================
