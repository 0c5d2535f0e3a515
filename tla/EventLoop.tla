----------------------------- MODULE EventLoop -----------------------------
(***************************************************************************)
(* net/EventLoop.cc: one thread in loop(), other threads that hand it      *)
(* functors with queueInLoop/runInLoop or stop it with quit().             *)
(*                                                                         *)
(* The owner thread is the program counter pc; every other thread is in    *)
(* caller.  A call from another thread is two steps, because the code      *)
(* releases the mutex (or has written quit_) before it writes to the       *)
(* eventfd.  Calls by the owner are one step: nothing the other threads do *)
(* can be seen between its push and its wakeUp.                            *)
(*                                                                         *)
(* A functor stands for one call of queueInLoop or runInLoop, so each is   *)
(* used at most once; Functors bounds the number of calls in a behaviour.  *)
(*                                                                         *)
(* A definition introduced as a "slip" is a mistake this code could have   *)
(* held.  It is in no next-state relation; substituting it for the         *)
(* definition after it is how the properties are seen to be able to fail.  *)
(***************************************************************************)
EXTENDS Naturals, Sequences, Functions

CONSTANTS Threads,              \* threads other than the one in loop()
          Functors              \* calls of queueInLoop and runInLoop

VARIABLES
    pc,                     \* where the owner thread is in loop()
    inCallback,             \* a user callback (handler or functor) is running
    quit_,
    runingPendingFunctors_, \* the source's spelling; no constructor sets it
    active,                 \* activeChannels_ not yet handled
    wakeup,                 \* the eventfd's counter is not zero
    pendingFunctors_,
    tempFunctors,           \* what is left of doPendingFunctors's local
    caller,                 \* per other thread: is its wakeUp still to come?
    unannounced,            \* history: queued outside loop() with no wake-up
    ran                     \* history: functors started, in order

vars == <<pc, inCallback, quit_, runingPendingFunctors_, active, wakeup,
          pendingFunctors_, tempFunctors, caller, unannounced,
          ran>>

owner == <<pc, inCallback, runingPendingFunctors_, active, tempFunctors>>
history == <<unannounced, ran>>

looping_ == pc # "outside"

Fresh(f) ==
    f \notin Range(pendingFunctors_) \cup Range(tempFunctors) \cup Range(ran)

Init ==
    /\ pc = "outside" /\ inCallback = FALSE
    /\ quit_ = FALSE
    /\ runingPendingFunctors_ \in BOOLEAN
    /\ active = {} /\ wakeup = FALSE
    /\ pendingFunctors_ = <<>> /\ tempFunctors = <<>>
    /\ caller = [t \in Threads |-> "idle"]
    /\ unannounced = {} /\ ran = <<>>

-----------------------------------------------------------------------------
(* The other threads.                                                      *)

\* Slip: the push without the wake-up.
QueueInLoopSilent(t, f) ==
    /\ caller[t] = "idle" /\ Fresh(f)
    /\ pendingFunctors_' = Append(pendingFunctors_, f)
    /\ UNCHANGED <<owner, quit_, wakeup, caller, history>>

\* queueInLoop from another thread, up to the end of the critical section.
QueueInLoop(t, f) ==
    /\ caller[t] = "idle" /\ Fresh(f)
    /\ pendingFunctors_' = Append(pendingFunctors_, f)
    /\ caller' = [caller EXCEPT ![t] = "wake"]
    /\ UNCHANGED <<owner, quit_, wakeup, history>>

\* Slip: quit() that only sets the flag.
QuitSilent(t) ==
    /\ caller[t] = "idle"
    /\ quit_' = TRUE
    /\ UNCHANGED <<owner, wakeup, pendingFunctors_, caller, history>>

\* quit() from another thread, up to the assignment.
Quit(t) ==
    /\ caller[t] = "idle"
    /\ quit_' = TRUE
    /\ caller' = [caller EXCEPT ![t] = "wake"]
    /\ UNCHANGED <<owner, wakeup, pendingFunctors_, history>>

\* wakeUp(): the write that ends either call.
WakeUp(t) ==
    /\ caller[t] = "wake"
    /\ wakeup' = TRUE
    /\ caller' = [caller EXCEPT ![t] = "idle"]
    /\ UNCHANGED <<owner, quit_, pendingFunctors_, history>>

-----------------------------------------------------------------------------
(* Calls of the owner thread, from a callback or from outside loop().      *)

OwnerMayCall == inCallback \/ ~looping_

\* Slip: the second case of EventLoop.cc:166 forgotten.
OwnerQueueInLoopSilent(f) ==
    /\ OwnerMayCall /\ Fresh(f)
    /\ pendingFunctors_' = Append(pendingFunctors_, f)
    /\ UNCHANGED <<owner, quit_, wakeup, caller, history>>

\* queueInLoop: wakes only when functors are being run.
OwnerQueueInLoop(f) ==
    /\ OwnerMayCall /\ Fresh(f)
    /\ pendingFunctors_' = Append(pendingFunctors_, f)
    /\ wakeup' = (wakeup \/ runingPendingFunctors_)
    /\ unannounced' = IF looping_ \/ runingPendingFunctors_
                      THEN unannounced ELSE unannounced \cup {f}
    /\ UNCHANGED <<owner, quit_, caller, ran>>

\* runInLoop: runs the functor inside the call.
OwnerRunInLoop(f) ==
    /\ OwnerMayCall /\ Fresh(f)
    /\ ran' = Append(ran, f)
    /\ UNCHANGED <<owner, quit_, wakeup, pendingFunctors_, caller, unannounced>>

OwnerQuit ==
    /\ OwnerMayCall
    /\ quit_' = TRUE
    /\ UNCHANGED <<owner, wakeup, pendingFunctors_, caller, history>>

-----------------------------------------------------------------------------
(* loop().                                                                 *)

EnterLoop ==
    /\ pc = "outside"
    /\ pc' = "test"
    /\ quit_' = FALSE
    /\ UNCHANGED <<inCallback, runingPendingFunctors_, active, wakeup,
                   pendingFunctors_, tempFunctors, caller, history>>

\* while (!quit_), and on the way out looping_ = false.
TestQuit ==
    /\ pc = "test"
    /\ pc' = IF quit_ THEN "outside" ELSE "poll"
    /\ UNCHANGED <<inCallback, quit_, runingPendingFunctors_, active, wakeup,
                   pendingFunctors_, tempFunctors, caller, history>>

\* epoller_->poll returns: with the eventfd if it is readable, with other
\* channels if some are ready, with nothing when the timeout expires.
PollReturns(ready) ==
    /\ pc = "poll"
    /\ active' = ready \cup (IF wakeup THEN {"wakeup"} ELSE {})
    /\ pc' = "dispatch"
    /\ UNCHANGED <<inCallback, quit_, runingPendingFunctors_, wakeup,
                   pendingFunctors_, tempFunctors, caller, history>>

PollWakeup  == wakeup /\ PollReturns({})
PollIO      == PollReturns({"io"})
PollTimeout == ~wakeup /\ PollReturns({})

\* The wakeup channel's callback, EventLoop::handleRead.
HandleRead ==
    /\ pc = "dispatch" /\ ~inCallback /\ "wakeup" \in active
    /\ active' = active \ {"wakeup"}
    /\ wakeup' = FALSE
    /\ UNCHANGED <<pc, inCallback, quit_, runingPendingFunctors_,
                   pendingFunctors_, tempFunctors, caller, history>>

\* Any other channel's callbacks start ...
HandlerBegins ==
    /\ pc = "dispatch" /\ ~inCallback /\ "io" \in active
    /\ active' = active \ {"io"}
    /\ inCallback' = TRUE
    /\ UNCHANGED <<pc, quit_, runingPendingFunctors_, wakeup,
                   pendingFunctors_, tempFunctors, caller, history>>

\* ... and return.
HandlerEnds ==
    /\ pc = "dispatch" /\ inCallback
    /\ inCallback' = FALSE
    /\ UNCHANGED <<pc, quit_, runingPendingFunctors_, active, wakeup,
                   pendingFunctors_, tempFunctors, caller, history>>

\* Slip: the vector copied instead of swapped.
SwapFunctorsCopies ==
    /\ pc = "dispatch" /\ ~inCallback /\ active = {}
    /\ pc' = "functors"
    /\ runingPendingFunctors_' = TRUE
    /\ tempFunctors' = pendingFunctors_
    /\ UNCHANGED <<inCallback, quit_, active, wakeup, pendingFunctors_, caller,
                   history>>

\* doPendingFunctors, up to the swap under the mutex.
SwapFunctors ==
    /\ pc = "dispatch" /\ ~inCallback /\ active = {}
    /\ pc' = "functors"
    /\ runingPendingFunctors_' = TRUE
    /\ tempFunctors' = pendingFunctors_
    /\ pendingFunctors_' = <<>>
    /\ UNCHANGED <<inCallback, quit_, active, wakeup, caller, history>>

\* tempFunctors[i]() starts; it lasts until the next one or until the end.
RunFunctor ==
    /\ pc = "functors" /\ tempFunctors # <<>>
    /\ ran' = Append(ran, Head(tempFunctors))
    /\ tempFunctors' = Tail(tempFunctors)
    /\ inCallback' = TRUE
    /\ UNCHANGED <<pc, quit_, runingPendingFunctors_, active, wakeup,
                   pendingFunctors_, caller, unannounced>>

EndFunctors ==
    /\ pc = "functors" /\ tempFunctors = <<>>
    /\ pc' = "test"
    /\ inCallback' = FALSE
    /\ runingPendingFunctors_' = FALSE
    /\ UNCHANGED <<quit_, active, wakeup, pendingFunctors_, tempFunctors,
                   caller, history>>

LoopStep ==
    \/ TestQuit \/ HandleRead \/ HandlerBegins \/ HandlerEnds
    \/ SwapFunctors \/ RunFunctor \/ EndFunctors

Next ==
    \/ \E t \in Threads, f \in Functors : QueueInLoop(t, f)
    \/ \E t \in Threads : Quit(t) \/ WakeUp(t)
    \/ \E f \in Functors : OwnerQueueInLoop(f) \/ OwnerRunInLoop(f)
    \/ OwnerQuit
    \/ EnterLoop \/ LoopStep
    \/ PollWakeup \/ PollIO \/ PollTimeout

Spec == Init /\ [][Next]_vars

\* The operating system runs the owner thread and lets a write() finish;
\* epoll_wait returns when the eventfd is readable.  Nothing promises that
\* another channel becomes ready, and the 10 s timeout is not counted on:
\* a wake-up that is lost shows.
Fairness ==
    /\ WF_vars(LoopStep)
    /\ WF_vars(PollWakeup)
    /\ \A t \in Threads : WF_vars(WakeUp(t))

FairSpec == Spec /\ Fairness

-----------------------------------------------------------------------------
(* Properties.                                                             *)

TypeOK ==
    /\ pc \in {"outside", "test", "poll", "dispatch", "functors"}
    /\ inCallback \in BOOLEAN /\ quit_ \in BOOLEAN
    /\ runingPendingFunctors_ \in BOOLEAN
    /\ active \subseteq {"wakeup", "io"}
    /\ wakeup \in BOOLEAN
    /\ pendingFunctors_ \in Seq(Functors)
    /\ tempFunctors \in Seq(Functors)
    /\ caller \in [Threads -> {"idle", "wake"}]
    /\ unannounced \subseteq Functors
    /\ ran \in Seq(Functors)

SomeoneWakes == wakeup \/ \E t \in Threads : caller[t] = "wake"

\* EventLoop.cc:164-171.  A functor that is waiting while the owner is on its
\* way into epoll_wait, or inside it, has a wake-up in the eventfd or a thread
\* about to write one, whichever thread queued it and whichever callback it
\* was queued from.  The one exception is what the owner queued before loop(),
\* which is neither of the two cases of the comment at 164-167: that is slept
\* on until something else ends the wait.
NoLostWakeup ==
    pc # "dispatch" /\ ~(Range(pendingFunctors_) \subseteq unannounced)
        => SomeoneWakes

\* EventLoop.cc:94-101.  A loop that blocks in epoll_wait after another thread
\* called quit() is going to be woken.
QuitIsNoticed == pc = "poll" /\ quit_ => SomeoneWakes

\* What the functors see: the vector swapped out and the vector filled
\* meanwhile are one queue, first in first out, and each functor runs once.
Queue == INSTANCE TaskQueue WITH
    Tasks <- Functors, todo <- tempFunctors \o pendingFunctors_, done <- ran

TaskQueueSpec == Queue!Spec

\* A functor handed to a loop is run, unless the loop is told to stop, without
\* the help of the poll timeout or of another channel; the exception is again
\* what the owner queued before loop() and nothing announced.
Waiting(f) == f \in Range(pendingFunctors_) \cup Range(tempFunctors)

EveryFunctorRuns ==
    \A f \in Functors :
        looping_ /\ Waiting(f) /\ f \notin unannounced
            ~> (f \in Range(ran) \/ ~looping_)

\* After quit() during loop(), loop() returns.
QuitStopsLoop == looping_ /\ quit_ ~> ~looping_
=============================================================================
