----------------------------- MODULE TimerQueue -----------------------------
(***************************************************************************)
(* net/TimerQueue.cc and net/Timer.cc inside one event loop: timers kept   *)
(* in a set ordered by expiration, one timerfd armed for the earliest.     *)
(*                                                                         *)
(* Times are wall-clock times (gettimeofday) counted from the present one, *)
(* in units of the 100 microseconds howMuchTimeFromNow clamps to: a time   *)
(* not greater than 0 has come.  The timerfd counts down on the monotonic  *)
(* clock, which the steps of the wall clock do not move.                   *)
(*                                                                         *)
(* All of TimerQueue runs in the loop thread.  A timer another thread adds *)
(* comes as a functor, some time after its expiration was computed, which  *)
(* is why Whens has times that are past.  Timestamp::valid() holds of      *)
(* every time after 1970, so it only tells an empty set here.              *)
(***************************************************************************)
EXTENDS Integers, FiniteSets, FiniteSetsExt

CONSTANTS Timers,       \* Timer objects; memory is used again
          Whens,        \* expirations callers ask for (RunOnTime, RunAfterTime)
          Intervals,    \* intervals callers ask for (RunEachInterval); 0 is one
                        \* that is shorter than the unit
          Jumps,        \* steps of the wall clock
          MaxJumps,     \* bound: how often it is stepped
          MaxLate,      \* bound: times longer past are not told apart
          None

ASSUME TimesAreIntegers ==
    /\ Whens \subseteq Int /\ Intervals \subseteq Nat /\ Jumps \subseteq Int
    /\ MaxLate \in Nat /\ MaxJumps \in Nat
    /\ \A w \in Whens : w >= -MaxLate

VARIABLES
    phase,          \* "outside", "poll", "dispatch", "io", "timers", "functors"
    active,         \* activeChannels_: "timer", "io"
    timer,          \* the Timer objects, or None
    timerLists_,    \* pairs <<expiration, Timer>>
    expired, todo,  \* handler's local vector, and what of it has not run
    running,        \* the timer whose callback is running, or None
    now_,           \* handler's local now
    left,           \* until the timerfd expires; 0: not armed
    readable,       \* it has expired and was not read or set since
    jumps           \* steps of the clock so far

loop  == <<phase, active, running>>
local == <<expired, todo, now_>>
fd    == <<left, readable>>
vars  == <<loop, local, fd, timer, timerLists_, jumps>>

Live == {t \in Timers : timer[t] # None}

Init ==
    /\ phase = "outside" /\ active = {} /\ running = None
    /\ timer = [t \in Timers |-> None]
    /\ timerLists_ = {} /\ expired = {} /\ todo = {} /\ now_ = 0
    /\ left = 0 /\ readable = FALSE
    /\ jumps = 0

-----------------------------------------------------------------------------
(* The clocks.                                                             *)

Later(x, d) == Max({x - d, -MaxLate})
AllLater(pairs, d) == {<<Later(p[1], d), p[2]>> : p \in pairs}

\* The wall clock moves by d: every Timestamp kept is d further in the past.
WallClock(d) ==
    /\ timer' = [t \in Timers |->
                    IF t \in Live THEN [timer[t] EXCEPT !.when = Later(@, d)]
                                  ELSE None]
    /\ timerLists_' = AllLater(timerLists_, d)
    /\ expired' = AllLater(expired, d) /\ todo' = AllLater(todo, d)
    /\ now_' = IF phase = "timers" THEN Later(now_, d) ELSE now_

Tick ==
    /\ WallClock(1)
    /\ left' = Max({left - 1, 0})
    /\ readable' = (readable \/ left = 1)
    /\ UNCHANGED <<loop, jumps>>

\* Somebody sets the wall clock.
Jump ==
    /\ jumps < MaxJumps
    /\ \E d \in Jumps : WallClock(d)
    /\ jumps' = jumps + 1
    /\ UNCHANGED <<loop, fd>>

-----------------------------------------------------------------------------
(* The timerfd.                                                            *)

\* Slip: no lower limit.
HowMuchTimeUnclamped(when) == when

HowMuchTimeFromNow(when) == Max({when, 1})

\* resetTimerfd.  timerfd_settime refuses a negative time, takes 0 for "off",
\* and forgets an expiration that was not read.
ResetTimerfd(when) ==
    LET time == HowMuchTimeFromNow(when)
    IN  /\ left' = IF time < 0 THEN left ELSE time
        /\ readable' = (time < 0 /\ readable)

-----------------------------------------------------------------------------
(* addTimer.                                                               *)

Earliest(pairs) == Min({p[1] : p \in pairs})

\* Slip: only the first timer counts as the earliest.
IsEarliestIfFirst(when) == timerLists_ = {}

\* What insert() returns.
IsEarliest(when) == timerLists_ = {} \/ when < Earliest(timerLists_)

\* RunOnTime and RunAfterTime make a timer that runs once, RunEachInterval one
\* that is first due an interval from now.
NewTimers ==
    {[when |-> w, interval |-> 0, repeat |-> FALSE] : w \in Whens} \cup
    {[when |-> i, interval |-> i, repeat |-> TRUE] : i \in Intervals}

MayCall == phase \in {"outside", "io", "functors"} \/ running # None

AddTimer(t) ==
    /\ MayCall /\ t \notin Live
    /\ \E tm \in NewTimers :
          /\ timer' = [timer EXCEPT ![t] = tm]
          /\ timerLists_' = timerLists_ \cup {<<tm.when, t>>}
          /\ IF IsEarliest(tm.when) THEN ResetTimerfd(tm.when)
                                    ELSE UNCHANGED fd
    /\ UNCHANGED <<loop, local, jumps>>

-----------------------------------------------------------------------------
(* handler(): the timerfd's read callback.                                 *)

\* Slip: timers taken one unit ahead of time.
GetExpiredAhead == {p \in timerLists_ : p[1] <= 1}

GetExpired == {p \in timerLists_ : p[1] <= 0}

\* now, the read, and getExpired.  If a callback of this round has armed the
\* timerfd again the read finds nothing, and the code goes on all the same.
Handler ==
    /\ phase = "dispatch" /\ "timer" \in active
    /\ phase' = "timers" /\ active' = active \ {"timer"}
    /\ now_' = 0
    /\ readable' = FALSE
    /\ expired' = GetExpired /\ todo' = GetExpired
    /\ timerLists_' = timerLists_ \ GetExpired
    /\ UNCHANGED <<running, left, timer, jumps>>

\* A callback runs until the next one starts or reset() does.
RunTimer ==
    /\ phase = "timers" /\ todo # {}
    /\ \E p \in todo :
          /\ p[1] = Earliest(todo)
          /\ todo' = todo \ {p}
          /\ running' = p[2]
    /\ UNCHANGED <<phase, active, expired, now_, fd, timer, timerLists_, jumps>>

\* Slip: the interval taken off.
RestartBackwards(tm) == [tm EXCEPT !.when = now_ - tm.interval]

\* Timer::restart, for a timer that repeats.
Restart(tm) == [tm EXCEPT !.when = now_ + tm.interval]

\* Slip: the set entered before the new expiration is computed.
ResetInsertsFirst ==
    /\ phase = "timers" /\ todo = {}
    /\ LET again == {p[2] : p \in {q \in expired : timer[q[2]].repeat}}
           once  == {p[2] : p \in expired} \ again
           lists == timerLists_ \cup {<<timer[t].when, t>> : t \in again}
       IN  /\ timer' = [t \in Timers |-> IF t \in once THEN None
                                         ELSE IF t \in again
                                              THEN Restart(timer[t])
                                              ELSE timer[t]]
           /\ timerLists_' = lists
           /\ IF lists # {} THEN ResetTimerfd(Earliest(lists)) ELSE UNCHANGED fd
    /\ phase' = "dispatch" /\ running' = None
    /\ expired' = {} /\ now_' = 0
    /\ UNCHANGED <<active, todo, jumps>>

\* Slip: the timerfd is left to addTimerInLoop.
ResetUnarmed ==
    /\ phase = "timers" /\ todo = {}
    /\ LET again == {p[2] : p \in {q \in expired : timer[q[2]].repeat}}
           once  == {p[2] : p \in expired} \ again
       IN  /\ timer' = [t \in Timers |-> IF t \in once THEN None
                                         ELSE IF t \in again
                                              THEN Restart(timer[t])
                                              ELSE timer[t]]
           /\ timerLists_' = timerLists_ \cup {<<timer'[t].when, t>> : t \in again}
    /\ phase' = "dispatch" /\ running' = None
    /\ expired' = {} /\ now_' = 0
    /\ UNCHANGED <<active, todo, fd, jumps>>

\* reset(): timers that repeat go back, the others are deleted, and the
\* timerfd is armed for whichever is now the earliest.
Reset ==
    /\ phase = "timers" /\ todo = {}
    /\ LET again == {p[2] : p \in {q \in expired : timer[q[2]].repeat}}
           once  == {p[2] : p \in expired} \ again
           lists == timerLists_ \cup {<<Restart(timer[t]).when, t>> : t \in again}
       IN  /\ timer' = [t \in Timers |-> IF t \in once THEN None
                                         ELSE IF t \in again
                                              THEN Restart(timer[t])
                                              ELSE timer[t]]
           /\ timerLists_' = lists
           /\ IF lists # {} THEN ResetTimerfd(Earliest(lists)) ELSE UNCHANGED fd
    /\ phase' = "dispatch" /\ running' = None
    /\ expired' = {} /\ now_' = 0
    /\ UNCHANGED <<active, todo, jumps>>

-----------------------------------------------------------------------------
(* The rest of the loop (EventLoop.cc:58-79).                              *)

Goes(from, to) ==
    /\ phase = from /\ phase' = to
    /\ UNCHANGED <<running, local, fd, timer, timerLists_, jumps>>

EnterLoop == Goes("outside", "poll") /\ UNCHANGED active

PollReturns(ready) ==
    /\ Goes("poll", "dispatch")
    /\ active' = ready \cup (IF readable THEN {"timer"} ELSE {})

PollTimer == readable /\ PollReturns({})
PollOther == PollReturns({"io"})

IoBegins == "io" \in active /\ Goes("dispatch", "io") /\ active' = active \ {"io"}
IoEnds   == Goes("io", "dispatch") /\ UNCHANGED active
FunctorsBegin == active = {} /\ Goes("dispatch", "functors") /\ UNCHANGED active
FunctorsEnd   == Goes("functors", "poll") /\ UNCHANGED active

LoopStep ==
    \/ Handler \/ RunTimer \/ Reset
    \/ IoBegins \/ IoEnds \/ FunctorsBegin \/ FunctorsEnd

Next ==
    \/ Tick \/ Jump
    \/ \E t \in Timers : AddTimer(t)
    \/ EnterLoop \/ PollTimer \/ PollOther \/ LoopStep

Spec == Init /\ [][Next]_vars

\* Time goes by, the loop thread is scheduled and enters loop(), and
\* epoll_wait returns when the timerfd is readable.
FairSpec ==
    /\ Spec
    /\ WF_vars(Tick) /\ WF_vars(EnterLoop) /\ WF_vars(LoopStep)
    /\ WF_vars(PollTimer)

-----------------------------------------------------------------------------
(* Properties.                                                             *)

Times  == {x \in Int : x >= -MaxLate}
Timer  == [when : Times, interval : Nat, repeat : BOOLEAN]
Pairs  == Times \X Timers

ASSUME NoneIsNoTimer == None \notin Timer

TypeOK ==
    /\ phase \in {"outside", "poll", "dispatch", "io", "timers", "functors"}
    /\ active \subseteq {"timer", "io"} /\ running \in Timers \cup {None}
    /\ \A t \in Live : timer[t] \in Timer
    /\ \A p \in timerLists_ \cup expired : p \in Pairs
    /\ todo \subseteq expired /\ now_ \in Times
    /\ left \in Nat /\ readable \in BOOLEAN /\ jumps \in 0 .. MaxJumps

\* TimerQueue.cc:94-163.  Outside handler() a timer that waits has the timerfd
\* behind it: expired, or going to expire no later than the earliest timer is
\* due, whichever callback added it and however late the loop is.  Steps of
\* the wall clock make it late or early, but never leave it unarmed.
TimerfdArmed ==
    phase # "timers" /\ timerLists_ # {} =>
        \/ readable \/ "timer" \in active
        \/ left > 0 /\ (jumps = 0 => left <= Max({Earliest(timerLists_), 1}))

\* TimerQueue.cc:85-178.  Every Timer object is in one place, the set or the
\* handler's vector, under the expiration it holds: none is leaked, deleted
\* twice, or filed under a time it no longer has.
FiledOnce ==
    /\ \A t \in Timers :
          Cardinality({p \in timerLists_ \cup expired : p[2] = t})
              = IF t \in Live THEN 1 ELSE 0
    /\ timerLists_ \cap expired = {}
    /\ \A p \in timerLists_ \cup expired : timer[p[2]].when = p[1]

\* TimerQueue.cc:123-133.  No callback runs before its time: what handler()
\* runs was due by the time handler() began.
NotEarly == \A p \in todo : p[1] <= now_

\* Every timer runs, and one that repeats runs again and again, although
\* callbacks add timers, callbacks outlast intervals and the clock is set.
ToRun(t) ==
    \/ \E p \in timerLists_ \cup todo : p[2] = t
    \/ t \in Live /\ timer[t].repeat

EveryTimerRuns == \A t \in Timers : ToRun(t) ~> running = t
=============================================================================
