-------------------------- MODULE TimerQueueProofs --------------------------
(***************************************************************************)
(* Theorems about TimerQueue, for any timers, expirations, intervals and   *)
(* steps of the wall clock.                                                *)
(***************************************************************************)
EXTENDS TimerQueue, FiniteSetTheorems, WellFoundedInduction, TLAPS

-----------------------------------------------------------------------------
(* Least and greatest.                                                     *)

\* A set of integers that are not below lo has a least one.
LEMMA LeastOf ==
    ASSUME NEW S \in SUBSET Int, S # {}, NEW lo \in Int, \A x \in S : lo <= x
    PROVE  Min(S) \in S /\ \A y \in S : Min(S) <= y
<1> DEFINE less == OpToRel(<, Nat)
           T == {x - lo : x \in S}
<1>1. T \in SUBSET Nat /\ T # {}
  <2>1. \A x \in S : x - lo \in Nat
    OBVIOUS
  <2> QED
    BY <2>1
<1>2. PICK n \in T : \A m \in T : ~(<<m, n>> \in less)
  <2> HIDE DEF less, T
  <2> QED
    BY <1>1, NatLessThanWellFounded, WFMin DEF less
<1>3. PICK x \in S : n = x - lo
  OBVIOUS
<1>4. \A y \in S : x <= y
  <2>1. ASSUME NEW y \in S, ~(x <= y) PROVE FALSE
    <3>1. y - lo \in T /\ y - lo \in Nat /\ n \in Nat /\ y - lo < n
      BY <1>3, <2>1
    <3>2. <<y - lo, n>> \in less
      BY <3>1 DEF OpToRel
    <3> HIDE DEF less, T
    <3> QED
      BY <1>2, <3>1, <3>2
  <2> QED
    BY <2>1
<1> HIDE DEF less, T
<1> QED
  BY <1>4 DEF Min

LEMMA MaxOfTwo ==
    ASSUME NEW a \in Int, NEW b \in Int
    PROVE  Max({a, b}) = IF a >= b THEN a ELSE b
<1>1. \A x \in {a, b} : (\A y \in {a, b} : x >= y)
                          <=> x = IF a >= b THEN a ELSE b
  OBVIOUS
<1> QED
  BY <1>1 DEF Max

\* A time that d later is still a time, no earlier by more than d, and the
\* order of two times is kept.
LEMMA LaterIsTime ==
    ASSUME NEW x \in Times, NEW d \in Int
    PROVE  /\ Later(x, d) \in Times /\ Later(x, d) >= x - d
           /\ \A y \in Times : y <= x => Later(y, d) <= Later(x, d)
<1>1. MaxLate \in Nat
  BY TimesAreIntegers
<1>2. \A y \in Times : y \in Int /\ y - d \in Int /\ -MaxLate \in Int
  BY <1>1 DEF Times
<1>3. \A y \in Times :
          Later(y, d) = IF y - d >= -MaxLate THEN y - d ELSE -MaxLate
  BY <1>2, MaxOfTwo DEF Later
<1> QED
  BY <1>1, <1>2, <1>3 DEF Times

\* The timerfd is never set to less than one unit.
LEMMA ArmedForAtLeastOne ==
    ASSUME NEW when \in Int, ResetTimerfd(when)
    PROVE  left' \in Nat /\ left' >= 1 /\ left' = Max({when, 1})
           /\ readable' = FALSE
<1>1. Max({when, 1}) = IF when >= 1 THEN when ELSE 1
  BY MaxOfTwo
<1>2. /\ HowMuchTimeFromNow(when) \in Nat /\ HowMuchTimeFromNow(when) >= 1
      /\ HowMuchTimeFromNow(when) = Max({when, 1})
  BY <1>1 DEF HowMuchTimeFromNow
<1>3. /\ left' = IF HowMuchTimeFromNow(when) < 0
                 THEN left ELSE HowMuchTimeFromNow(when)
      /\ readable' = (HowMuchTimeFromNow(when) < 0 /\ readable)
  BY DEF ResetTimerfd
<1>4. ~(HowMuchTimeFromNow(when) < 0)
  BY <1>2
<1>5. readable' = FALSE
  BY <1>3, <1>4, Zenon
<1> QED
  BY <1>2, <1>3, <1>4, <1>5

\* The earliest of some pairs is one of their times.
LEMMA EarliestOf ==
    ASSUME NEW S \in SUBSET Pairs, S # {}
    PROVE  /\ \E p \in S : Earliest(S) = p[1]
           /\ Earliest(S) \in Times
           /\ \A p \in S : Earliest(S) <= p[1]
<1> DEFINE T == {p[1] : p \in S}
<1>1. T \in SUBSET Times /\ T # {}
  BY DEF Pairs
<1>2. T \in SUBSET Int /\ -MaxLate \in Int /\ \A x \in T : -MaxLate <= x
  <2> HIDE DEF T
  <2> QED
    BY <1>1, TimesAreIntegers DEF Times
<1>3. Min(T) \in T /\ \A y \in T : Min(T) <= y
  <2> HIDE DEF T
  <2> QED
    BY <1>1, <1>2, LeastOf
<1> QED
  BY <1>1, <1>3 DEF Earliest

-----------------------------------------------------------------------------
(* The inductive invariant.                                                *)

PairOf(t) == <<timer[t].when, t>>

Typed ==
    /\ TypeOK /\ timer \in [Timers -> Timer \cup {None}]
    /\ timerLists_ \subseteq Pairs /\ expired \subseteq Pairs

\* A pair is that of a live timer, and each has its pair in one place.
Filed ==
    /\ \A p \in timerLists_ \cup expired : \E t \in Live : p = PairOf(t)
    /\ \A t \in Live : /\ PairOf(t) \in timerLists_ \cup expired
                       /\ PairOf(t) \notin timerLists_ \cap expired

\* The handler's vector is empty outside the handler, and every channel that
\* was reported has been handled before poll is called again.
PhasesOK ==
    /\ phase # "timers" => expired = {}
    /\ phase \in {"outside", "poll", "functors"} => active = {}

TimerInv == Typed /\ Filed /\ PhasesOK /\ NotEarly /\ TimerfdArmed

LEMMA LiveTimer ==
    ASSUME Typed, NEW t \in Live
    PROVE  /\ t \in Timers /\ timer[t] \in Timer /\ timer[t] # None
           /\ timer[t].when \in Times /\ timer[t].interval \in Nat
           /\ PairOf(t) \in Pairs /\ PairOf(t)[1] = timer[t].when
           /\ PairOf(t)[2] = t
<1>1. t \in Timers /\ timer[t] \in Timer /\ timer[t] # None
  BY DEF Live, Typed
<1>2. timer[t].when \in Times /\ timer[t].interval \in Nat
  BY <1>1 DEF Timer
<1> QED
  BY <1>1, <1>2 DEF PairOf, Pairs

\* timerfd armed for the earliest of what is now in the set.
LEMMA ArmedForEarliest ==
    ASSUME timerLists_' \in SUBSET Pairs, timerLists_' # {},
           ResetTimerfd(Earliest(timerLists_'))
    PROVE  left' \in Nat /\ readable' = FALSE /\ TimerfdArmed'
<1> PICK lists : lists = timerLists_'
  OBVIOUS
<1>1. lists \in SUBSET Pairs /\ lists # {} /\ ResetTimerfd(Earliest(lists))
  OBVIOUS
<1>2. Earliest(lists) \in Int
  BY <1>1, EarliestOf DEF Times
<1>3. /\ left' \in Nat /\ left' >= 1 /\ left' = Max({Earliest(lists), 1})
      /\ readable' = FALSE
  BY <1>1, <1>2, ArmedForAtLeastOne
<1>4. left' > 0 /\ left' <= Max({Earliest(lists), 1})
  BY <1>3
<1>5. Max({Earliest(timerLists_'), 1}) = Max({Earliest(lists), 1})
  OBVIOUS
<1> QED
  BY <1>3, <1>4, <1>5 DEF TimerfdArmed

LEMMA InitTimers == Init => TimerInv
<1> SUFFICES ASSUME Init PROVE TimerInv
  OBVIOUS
<1>1. Live = {}
  BY DEF Init, Live
<1>2. 0 \in Times /\ 0 \in 0 .. MaxJumps
  BY TimesAreIntegers DEF Times
<1>3. Typed
  BY <1>1, <1>2 DEF Init, Typed, TypeOK
<1>4. Filed /\ PhasesOK /\ NotEarly /\ TimerfdArmed
  BY <1>1 DEF Init, Filed, PhasesOK, NotEarly, TimerfdArmed
<1> QED
  BY <1>3, <1>4 DEF TimerInv

\* The wall clock: every pair and its timer move together.
LEMMA WallClockKeeps ==
    ASSUME Typed, Filed, PhasesOK, NotEarly, NEW d \in Int, WallClock(d),
           UNCHANGED loop, left' \in Nat, readable' \in BOOLEAN,
           jumps' \in 0 .. MaxJumps
    PROVE  Typed' /\ Filed' /\ PhasesOK' /\ NotEarly'
<1> DEFINE moved(t) == [timer[t] EXCEPT !.when = Later(@, d)]
<1>1. \A t \in Live : /\ moved(t) \in Timer /\ moved(t) # None
                      /\ moved(t).when = Later(timer[t].when, d)
  <2> TAKE t \in Live
  <2>1. timer[t] \in Timer /\ Later(timer[t].when, d) \in Times
    BY LiveTimer, LaterIsTime
  <2>2. moved(t) \in Timer /\ moved(t).when = Later(timer[t].when, d)
    BY <2>1 DEF Timer
  <2> QED
    BY <2>2, NoneIsNoTimer
<1>2. timer' = [t \in Timers |-> IF t \in Live THEN moved(t) ELSE None]
  BY DEF WallClock
<1> HIDE DEF moved
<1>3. timer' \in [Timers -> Timer \cup {None}]
  BY <1>1, <1>2
<1>4. Live' = Live /\ \A t \in Live : timer'[t] = moved(t)
  BY <1>1, <1>2 DEF Live
<1>5. ASSUME NEW S \in SUBSET Pairs
      PROVE  /\ AllLater(S, d) \in SUBSET Pairs
             /\ \A t \in Live : PairOf(t)' \in AllLater(S, d)
                                  <=> \E p \in S : /\ p[2] = t
                                                   /\ PairOf(t)' = <<Later(p[1], d), t>>
  <2>1. \A p \in S : p[1] \in Times /\ p[2] \in Timers
                       /\ Later(p[1], d) \in Times
    BY LaterIsTime DEF Pairs
  <2>2. \A p \in S : <<Later(p[1], d), p[2]>> \in Pairs
    BY <2>1 DEF Pairs
  <2>3. AllLater(S, d) \in SUBSET Pairs
    BY <2>2 DEF AllLater
  <2>4. \A t \in Live : PairOf(t)' = <<Later(timer[t].when, d), t>>
    BY <1>1, <1>4 DEF PairOf
  <2> QED
    BY <2>3, <2>4 DEF AllLater
<1>6. ASSUME NEW S \in SUBSET (timerLists_ \cup expired), NEW t \in Live
      PROVE  PairOf(t)' \in AllLater(S, d) <=> PairOf(t) \in S
  <2>1. PairOf(t)' = <<Later(timer[t].when, d), t>>
    BY <1>1, <1>4 DEF PairOf
  <2>2. S \in SUBSET Pairs
    BY DEF Typed
  <2>3. \A p \in S : p[2] = t => p = PairOf(t)
    BY LiveTimer DEF Filed
  <2>4. PairOf(t)[1] = timer[t].when /\ PairOf(t)[2] = t
    BY LiveTimer
  <2> QED
    BY <1>5, <2>1, <2>2, <2>3, <2>4
<1>7. ASSUME NEW S \in SUBSET (timerLists_ \cup expired), NEW q \in AllLater(S, d)
      PROVE  \E t \in Live' : q = PairOf(t)'
  <2>1. PICK p \in S : q = <<Later(p[1], d), p[2]>>
    BY DEF AllLater
  <2>2. PICK t \in Live : p = PairOf(t)
    BY DEF Filed
  <2>3. p[1] = timer[t].when /\ p[2] = t
    BY <2>2, LiveTimer
  <2>4. q = PairOf(t)'
    BY <1>1, <1>4, <2>1, <2>3 DEF PairOf
  <2> QED
    BY <1>4, <2>4
<1>8. /\ timerLists_' = AllLater(timerLists_, d)
      /\ expired' = AllLater(expired, d) /\ todo' = AllLater(todo, d)
      /\ now_' = IF phase = "timers" THEN Later(now_, d) ELSE now_
  BY DEF WallClock
<1>9. /\ timerLists_ \in SUBSET Pairs /\ expired \in SUBSET Pairs
      /\ todo \subseteq expired /\ now_ \in Times
  BY DEF Typed, TypeOK
<1>10. /\ timerLists_' \in SUBSET Pairs /\ expired' \in SUBSET Pairs
       /\ todo' \subseteq expired' /\ now_' \in Times
  <2>1. todo' \subseteq expired'
    BY <1>8, <1>9 DEF AllLater
  <2>2. now_' \in Times
    BY <1>8, <1>9, LaterIsTime
  <2> QED
    BY <1>5, <1>8, <1>9, <2>1, <2>2
<1>11. Typed'
  BY <1>3, <1>4, <1>10 DEF Typed, TypeOK, loop, Live
<1>12. Filed'
  <2>1. \A p \in timerLists_' \cup expired' : \E t \in Live' : p = PairOf(t)'
    BY <1>7, <1>8
  <2>2. \A t \in Live' : /\ PairOf(t)' \in timerLists_' \cup expired'
                         /\ PairOf(t)' \notin timerLists_' \cap expired'
    BY <1>4, <1>6, <1>8 DEF Filed
  <2> QED
    BY <2>1, <2>2 DEF Filed, PairOf
<1>13. PhasesOK'
  BY <1>8 DEF PhasesOK, AllLater, loop
<1>14. NotEarly'
  <2>1. ASSUME NEW q \in todo'
        PROVE  q[1] <= now_'
    <3>1. PICK p \in todo : q = <<Later(p[1], d), p[2]>>
      BY <1>8, <2>1 DEF AllLater
    <3>2. phase = "timers"
      BY <1>9, <3>1 DEF PhasesOK
    <3>3. p[1] \in Times /\ p[1] <= now_
      BY <1>9, <3>1 DEF Pairs, NotEarly
    <3> QED
      BY <1>8, <1>9, <3>1, <3>2, <3>3, LaterIsTime
  <2> QED
    BY <2>1 DEF NotEarly
<1> QED
  BY <1>11, <1>12, <1>13, <1>14

\* A unit of time: the timerfd counts down with the earliest timer.
LEMMA TickStep ==
    ASSUME TimerInv, Tick
    PROVE  TimerInv'
<1>1. Typed /\ Filed /\ PhasesOK /\ NotEarly /\ TimerfdArmed
  BY DEF TimerInv
<1>2. /\ WallClock(1) /\ left' = Max({left - 1, 0})
      /\ readable' = (readable \/ left = 1) /\ UNCHANGED <<loop, jumps>>
  BY DEF Tick
<1>3. left \in Nat /\ readable \in BOOLEAN /\ jumps \in 0 .. MaxJumps
  BY <1>1 DEF Typed, TypeOK
<1>4. left' = IF left >= 1 THEN left - 1 ELSE 0
  BY <1>2, <1>3, MaxOfTwo
<1>5. left' \in Nat /\ readable' \in BOOLEAN /\ jumps' \in 0 .. MaxJumps
  <2>1. readable' \in BOOLEAN
    BY <1>2, <1>3, Zenon
  <2> QED
    BY <1>2, <1>3, <1>4, <2>1
<1>6. Typed' /\ Filed' /\ PhasesOK' /\ NotEarly'
  BY <1>1, <1>2, <1>5, WallClockKeeps
<1>7. TimerfdArmed'
  <2> SUFFICES ASSUME phase' # "timers", timerLists_' # {},
                      ~readable', "timer" \notin active'
               PROVE  /\ left' > 0
                      /\ jumps' = 0 =>
                           left' <= Max({Earliest(timerLists_'), 1})
    BY DEF TimerfdArmed
  <2>1. timerLists_' = AllLater(timerLists_, 1)
    BY <1>2 DEF WallClock
  <2>2. phase # "timers" /\ "timer" \notin active /\ jumps' = jumps
    BY <1>2 DEF loop
  <2>3. timerLists_ # {}
    BY <2>1 DEF AllLater
  <2>4. ~readable /\ left # 1
    BY <1>2, Zenon
  <2>5. left > 0 /\ (jumps = 0 => left <= Max({Earliest(timerLists_), 1}))
    BY <1>1, <2>2, <2>3, <2>4 DEF TimerfdArmed
  <2>6. left' > 0
    BY <1>3, <1>4, <2>4, <2>5
  <2>7. ASSUME jumps' = 0
        PROVE  left' <= Max({Earliest(timerLists_'), 1})
    <3> PICK lists : lists = timerLists_'
      OBVIOUS
    <3>1. /\ timerLists_ \in SUBSET Pairs /\ lists \in SUBSET Pairs
          /\ lists # {}
      BY <1>1, <1>6 DEF Typed
    <3>2. /\ Earliest(timerLists_) \in Times /\ Earliest(lists) \in Times
          /\ \A p \in timerLists_ : Earliest(timerLists_) <= p[1]
      BY <2>3, <3>1, EarliestOf
    <3>3. PICK p \in timerLists_ : Earliest(lists) = Later(p[1], 1)
      <4>1. PICK q \in lists : Earliest(lists) = q[1]
        BY <3>1, EarliestOf
      <4> QED
        BY <2>1, <4>1 DEF AllLater
    <3>4. Earliest(lists) >= p[1] - 1
      <4>1. p[1] \in Times
        BY <3>1 DEF Pairs
      <4> QED
        BY <3>3, <4>1, LaterIsTime
    <3>5. p[1] \in Int /\ Earliest(timerLists_) \in Int /\ Earliest(lists) \in Int
      BY <3>1, <3>2 DEF Times, Pairs
    <3>6. left <= Earliest(timerLists_)
      <4>1. left <= Max({Earliest(timerLists_), 1})
        BY <2>2, <2>5, <2>7
      <4>2. Max({Earliest(timerLists_), 1}) =
              IF Earliest(timerLists_) >= 1 THEN Earliest(timerLists_) ELSE 1
        BY <3>5, MaxOfTwo
      <4> QED
        BY <1>3, <2>4, <2>5, <3>5, <4>1, <4>2
    <3>7. left' <= Earliest(lists)
      BY <1>3, <1>4, <2>5, <3>2, <3>4, <3>5, <3>6
    <3>8. Max({Earliest(lists), 1}) =
            IF Earliest(lists) >= 1 THEN Earliest(lists) ELSE 1
      BY <3>5, MaxOfTwo
    <3>9. left' <= Max({Earliest(lists), 1})
      BY <1>5, <3>5, <3>7, <3>8
    <3> QED
      BY <3>9
  <2> QED
    BY <2>6, <2>7
<1> QED
  BY <1>6, <1>7 DEF TimerInv

\* A step of the wall clock leaves the timerfd armed, if not on time.
LEMMA JumpStep ==
    ASSUME TimerInv, Jump
    PROVE  TimerInv'
<1>1. Typed /\ Filed /\ PhasesOK /\ NotEarly /\ TimerfdArmed
  BY DEF TimerInv
<1>2. PICK d \in Jumps : WallClock(d)
  BY DEF Jump
<1>3. jumps < MaxJumps /\ jumps' = jumps + 1 /\ UNCHANGED <<loop, fd>>
  BY DEF Jump
<1>4. d \in Int /\ MaxJumps \in Nat
  BY TimesAreIntegers
<1>5. left \in Nat /\ readable \in BOOLEAN /\ jumps \in 0 .. MaxJumps
  BY <1>1 DEF Typed, TypeOK
<1>6. left' \in Nat /\ readable' \in BOOLEAN /\ jumps' \in 0 .. MaxJumps
  BY <1>3, <1>4, <1>5 DEF fd
<1>7. Typed' /\ Filed' /\ PhasesOK' /\ NotEarly'
  BY <1>1, <1>2, <1>3, <1>4, <1>6, WallClockKeeps
<1>8. TimerfdArmed'
  <2>1. jumps' # 0
    BY <1>3, <1>5
  <2>2. timerLists_' # {} => timerLists_ # {}
    BY <1>2 DEF WallClock, AllLater
  <2>3. /\ phase' = phase /\ active' = active
        /\ left' = left /\ readable' = readable
    BY <1>3 DEF loop, fd
  <2> QED
    BY <1>1, <2>1, <2>2, <2>3 DEF TimerfdArmed
<1> QED
  BY <1>7, <1>8 DEF TimerInv

-----------------------------------------------------------------------------
(* The calls of the loop's thread.                                         *)

\* A new timer, which arms the timerfd if it is the earliest.
LEMMA AddTimerStep ==
    ASSUME TimerInv, NEW t \in Timers, AddTimer(t)
    PROVE  TimerInv'
<1>1. Typed /\ Filed /\ PhasesOK /\ NotEarly /\ TimerfdArmed
  BY DEF TimerInv
<1>2. t \notin Live /\ UNCHANGED <<loop, local, jumps>>
  BY DEF AddTimer
<1>3. PICK tm \in NewTimers :
          /\ timer' = [timer EXCEPT ![t] = tm]
          /\ timerLists_' = timerLists_ \cup {<<tm.when, t>>}
          /\ IF IsEarliest(tm.when) THEN ResetTimerfd(tm.when)
                                    ELSE UNCHANGED fd
  BY DEF AddTimer
<1>4. tm \in Timer /\ tm.when \in Times /\ tm # None
  <2>1. /\ \A w \in Whens : w \in Times
        /\ \A i \in Intervals : i \in Times /\ i \in Nat
        /\ 0 \in Nat
    BY TimesAreIntegers DEF Times
  <2>2. tm \in Timer
    <3>1. CASE \E w \in Whens :
                 tm = [when |-> w, interval |-> 0, repeat |-> FALSE]
      BY <2>1, <3>1 DEF Timer
    <3>2. CASE \E i \in Intervals :
                 tm = [when |-> i, interval |-> i, repeat |-> TRUE]
      BY <2>1, <3>2 DEF Timer
    <3> QED
      BY <3>1, <3>2 DEF NewTimers
  <2> QED
    BY <2>2, NoneIsNoTimer DEF Timer
<1>5. /\ timer' \in [Timers -> Timer \cup {None}]
      /\ timer'[t] = tm /\ \A u \in Timers \ {t} : timer'[u] = timer[u]
  BY <1>1, <1>3, <1>4 DEF Typed
<1>6. Live' = Live \cup {t}
  BY <1>4, <1>5 DEF Live
<1>7. PairOf(t)' = <<tm.when, t>> /\ \A u \in Live : PairOf(u)' = PairOf(u)
  BY <1>2, <1>5 DEF PairOf, Live
<1>8. timerLists_' \in SUBSET Pairs /\ timerLists_ \in SUBSET Pairs
  BY <1>1, <1>3, <1>4 DEF Typed, Pairs
<1>9. left' \in Nat /\ readable' \in BOOLEAN
  <2>1. tm.when \in Int
    BY <1>4 DEF Times
  <2>2. left \in Nat /\ readable \in BOOLEAN
    BY <1>1 DEF Typed, TypeOK
  <2> QED
    BY <1>3, <2>1, <2>2, ArmedForAtLeastOne DEF fd
<1>10. Typed'
  BY <1>1, <1>2, <1>5, <1>6, <1>8, <1>9 DEF Typed, TypeOK, loop, local, Live
<1>11. Filed'
  <2>1. \A p \in timerLists_ \cup expired : p # PairOf(t)'
    BY <1>1, <1>2, <1>7, LiveTimer DEF Filed, PairOf
  <2>2. \A p \in timerLists_' \cup expired' : \E u \in Live' : p = PairOf(u)'
    BY <1>1, <1>2, <1>3, <1>6, <1>7 DEF Filed, local
  <2>3. \A u \in Live' : /\ PairOf(u)' \in timerLists_' \cup expired'
                         /\ PairOf(u)' \notin timerLists_' \cap expired'
    <3> TAKE u \in Live'
    <3>1. CASE u = t
      BY <1>2, <1>3, <1>7, <2>1, <3>1 DEF local
    <3>2. CASE u # t
      <4>1. u \in Live /\ PairOf(u)' = PairOf(u) /\ PairOf(u) # PairOf(t)'
        BY <1>1, <1>6, <1>7, <2>1, <3>2 DEF Filed
      <4> QED
        BY <1>1, <1>2, <1>3, <1>7, <4>1 DEF Filed, local
    <3> QED
      BY <3>1, <3>2
  <2> QED
    BY <2>2, <2>3 DEF Filed, PairOf
<1>12. PhasesOK' /\ NotEarly'
  BY <1>1, <1>2 DEF PhasesOK, NotEarly, loop, local
<1>13. TimerfdArmed'
  <2> PICK lists : lists = timerLists_'
    OBVIOUS
  <2>1. lists \in SUBSET Pairs /\ lists # {}
    BY <1>3, <1>8
  <2>2. Earliest(lists) \in Int /\ tm.when \in Int
    BY <1>4, <2>1, EarliestOf DEF Times
  <2>3. PICK q \in lists : Earliest(lists) = q[1]
    BY <2>1, EarliestOf
  <2>4. CASE IsEarliest(tm.when)
    <3>1. /\ left' \in Nat /\ left' >= 1 /\ left' = Max({tm.when, 1})
      BY <1>3, <2>2, <2>4, ArmedForAtLeastOne
    <3>2. tm.when <= q[1]
      <4>1. CASE q = <<tm.when, t>>
        BY <2>2, <4>1
      <4>2. CASE q # <<tm.when, t>>
        <5>1. q \in timerLists_ /\ timerLists_ # {}
          BY <1>3, <2>3, <4>2
        <5>2. tm.when < Earliest(timerLists_)
          BY <2>4, <5>1 DEF IsEarliest
        <5>3. Earliest(timerLists_) <= q[1] /\ Earliest(timerLists_) \in Times
          BY <1>8, <5>1, EarliestOf
        <5> QED
          BY <2>2, <2>3, <5>2, <5>3 DEF Times
      <4> QED
        BY <4>1, <4>2
    <3>3. Max({tm.when, 1}) <= Max({Earliest(lists), 1})
      <4>1. /\ Max({tm.when, 1}) = IF tm.when >= 1 THEN tm.when ELSE 1
            /\ Max({Earliest(lists), 1}) =
                 IF Earliest(lists) >= 1 THEN Earliest(lists) ELSE 1
        BY <2>2, MaxOfTwo
      <4> QED
        BY <2>2, <2>3, <3>2, <4>1
    <3>4. left' > 0 /\ left' <= Max({Earliest(lists), 1})
      BY <3>1, <3>3
    <3> QED
      BY <3>4 DEF TimerfdArmed
  <2>5. CASE ~IsEarliest(tm.when)
    <3>1. timerLists_ # {} /\ ~(tm.when < Earliest(timerLists_))
      BY <2>5 DEF IsEarliest
    <3>2. /\ Earliest(timerLists_) \in Int
          /\ \A p \in timerLists_ : Earliest(timerLists_) <= p[1]
      BY <1>8, <3>1, EarliestOf DEF Times
    <3>3. Earliest(timerLists_) <= Earliest(lists)
      BY <1>3, <2>2, <2>3, <3>1, <3>2
    <3>4. Max({Earliest(timerLists_), 1}) <= Max({Earliest(lists), 1})
      <4>1. /\ Max({Earliest(timerLists_), 1}) =
                 IF Earliest(timerLists_) >= 1 THEN Earliest(timerLists_)
                                               ELSE 1
            /\ Max({Earliest(lists), 1}) =
                 IF Earliest(lists) >= 1 THEN Earliest(lists) ELSE 1
        BY <2>2, <3>2, MaxOfTwo
      <4> QED
        BY <2>2, <3>2, <3>3, <4>1
    <3>5. /\ phase' = phase /\ active' = active /\ jumps' = jumps
          /\ left' = left /\ readable' = readable
      BY <1>2, <1>3, <2>5 DEF loop, fd
    <3>6. left <= Max({Earliest(timerLists_), 1})
            => left <= Max({Earliest(lists), 1})
      <4>1. left \in Int /\ Max({Earliest(timerLists_), 1}) \in Int
            /\ Max({Earliest(lists), 1}) \in Int
        BY <1>1, <2>2, <3>2, MaxOfTwo DEF Typed, TypeOK
      <4> QED
        BY <3>4, <4>1
    <3>7. phase # "timers" =>
            \/ readable \/ "timer" \in active
            \/ left > 0 /\ (jumps = 0 => left <= Max({Earliest(timerLists_), 1}))
      BY <1>1, <3>1 DEF TimerfdArmed
    <3>8. phase' # "timers" =>
            \/ readable' \/ "timer" \in active'
            \/ left' > 0 /\ (jumps' = 0 => left' <= Max({Earliest(lists), 1}))
      BY <3>5, <3>6, <3>7
    <3> QED
      BY <3>8 DEF TimerfdArmed
  <2> QED
    BY <2>4, <2>5
<1> QED
  BY <1>10, <1>11, <1>12, <1>13 DEF TimerInv

\* handler() begins: what is due moves from the set to the vector.
LEMMA HandlerStep ==
    ASSUME TimerInv, Handler
    PROVE  TimerInv'
<1>1. Typed /\ Filed /\ PhasesOK
  BY DEF TimerInv
<1>2. /\ phase = "dispatch" /\ phase' = "timers"
      /\ active' = active \ {"timer"} /\ now_' = 0 /\ readable' = FALSE
      /\ expired' = GetExpired /\ todo' = GetExpired
      /\ timerLists_' = timerLists_ \ GetExpired
      /\ UNCHANGED <<running, left, timer, jumps>>
  BY DEF Handler
<1>3. Live' = Live /\ \A t : PairOf(t)' = PairOf(t)
  BY <1>2 DEF Live, PairOf
<1>4. GetExpired \subseteq timerLists_ /\ expired = {}
  BY <1>1, <1>2 DEF GetExpired, PhasesOK
<1>5. Typed'
  <2>1. 0 \in Times
    BY TimesAreIntegers DEF Times
  <2> QED
    BY <1>1, <1>2, <1>3, <1>4, <2>1 DEF Typed, TypeOK, Live
<1>6. Filed'
  <2>1. \A p \in timerLists_' \cup expired' : \E t \in Live' : p = PairOf(t)'
    BY <1>1, <1>2, <1>3, <1>4 DEF Filed
  <2>2. \A t \in Live' : /\ PairOf(t)' \in timerLists_' \cup expired'
                         /\ PairOf(t)' \notin timerLists_' \cap expired'
    BY <1>1, <1>2, <1>3, <1>4 DEF Filed
  <2> QED
    BY <2>1, <2>2 DEF Filed, PairOf
<1>7. PhasesOK' /\ TimerfdArmed'
  BY <1>2 DEF PhasesOK, TimerfdArmed
<1>8. NotEarly'
  BY <1>2 DEF NotEarly, GetExpired
<1> QED
  BY <1>5, <1>6, <1>7, <1>8 DEF TimerInv

LEMMA RunTimerStep ==
    ASSUME TimerInv, RunTimer
    PROVE  TimerInv'
<1>1. Typed /\ Filed /\ PhasesOK /\ NotEarly
  BY DEF TimerInv
<1>2. /\ phase = "timers"
      /\ UNCHANGED <<phase, active, expired, now_, fd, timer, timerLists_,
                     jumps>>
  BY DEF RunTimer
<1>3. PICK p \in todo : todo' = todo \ {p} /\ running' = p[2]
  BY DEF RunTimer
<1>4. p[2] \in Timers
  BY <1>1 DEF Typed, TypeOK, Pairs
<1>5. Live' = Live
  BY <1>2 DEF Live
<1>6. Typed'
  BY <1>1, <1>2, <1>3, <1>4, <1>5 DEF Typed, TypeOK, fd, Live
<1>7. Filed' /\ PhasesOK' /\ NotEarly' /\ TimerfdArmed'
  BY <1>1, <1>2, <1>3, <1>5
     DEF Filed, PhasesOK, NotEarly, TimerfdArmed, PairOf
<1> QED
  BY <1>6, <1>7 DEF TimerInv

\* reset(): the timers that ran are deleted or go back under a new time.
LEMMA ResetStep ==
    ASSUME TimerInv, Reset
    PROVE  TimerInv'
<1> DEFINE again == {p[2] : p \in {q \in expired : timer[q[2]].repeat}}
           once  == {p[2] : p \in expired} \ again
           lists == timerLists_ \cup {<<Restart(timer[t]).when, t>> : t \in again}
<1>1. Typed /\ Filed /\ PhasesOK
  BY DEF TimerInv
<1>2. /\ phase = "timers" /\ phase' = "dispatch" /\ todo = {}
      /\ timer' = [t \in Timers |-> IF t \in once THEN None
                                    ELSE IF t \in again
                                         THEN Restart(timer[t])
                                         ELSE timer[t]]
      /\ timerLists_' = lists
      /\ IF lists # {} THEN ResetTimerfd(Earliest(lists)) ELSE UNCHANGED fd
      /\ running' = None /\ expired' = {} /\ now_' = 0
      /\ UNCHANGED <<active, todo, jumps>>
  BY DEF Reset
<1>3. \A t : t \in again \cup once <=> \E p \in expired : p[2] = t
  OBVIOUS
<1>4. again \cap once = {}
  OBVIOUS
<1>5. \A t \in again \cup once : t \in Live /\ PairOf(t) \in expired
  <2> HIDE DEF again, once
  <2> QED
    BY <1>1, <1>3, LiveTimer DEF Filed
<1>6. \A t \in Live : t \in again \cup once <=> PairOf(t) \in expired
  <2> HIDE DEF again, once
  <2> QED
    BY <1>1, <1>3, <1>5, LiveTimer
<1>7. \A t \in Live : /\ Restart(timer[t]) \in Timer
                      /\ Restart(timer[t]).when \in Times
                      /\ Restart(timer[t]) # None
  <2> TAKE t \in Live
  <2>1. timer[t] \in Timer /\ timer[t].interval \in Nat
    BY <1>1, LiveTimer
  <2>2. now_ + timer[t].interval \in Times
    BY <1>1, <2>1, TimesAreIntegers DEF Typed, TypeOK, Times
  <2>3. Restart(timer[t]) \in Timer
    BY <2>1, <2>2 DEF Restart, Timer
  <2> QED
    BY <2>3, NoneIsNoTimer DEF Timer
<1>8. lists \in SUBSET Pairs
  <2>1. \A t \in again : <<Restart(timer[t]).when, t>> \in Pairs
    <3> HIDE DEF again
    <3> QED
      BY <1>1, <1>5, <1>7, LiveTimer DEF Pairs
  <2>2. timerLists_ \in SUBSET Pairs
    BY <1>1 DEF Typed
  <2> HIDE DEF again
  <2> QED
    BY <2>1, <2>2
<1>9. \A p : p \in lists <=> \/ p \in timerLists_
                             \/ \E t \in again : p = <<Restart(timer[t]).when, t>>
  <2> HIDE DEF again
  <2> QED
    OBVIOUS
<1> HIDE DEF again, once, lists
<1>10. /\ timer' \in [Timers -> Timer \cup {None}]
       /\ Live' = Live \ once
       /\ \A t \in Live' : timer'[t] = IF t \in again THEN Restart(timer[t])
                                                      ELSE timer[t]
  <2>1. timer' \in [Timers -> Timer \cup {None}]
    BY <1>1, <1>2, <1>5, <1>7 DEF Typed
  <2>2. \A t \in Timers : timer'[t] = IF t \in once THEN None
                                      ELSE IF t \in again
                                           THEN Restart(timer[t])
                                           ELSE timer[t]
    BY <1>2
  <2>3. Live' = Live \ once
    BY <1>5, <1>7, <2>2 DEF Live
  <2> QED
    BY <2>1, <2>2, <2>3 DEF Live
<1>11. /\ left' \in Nat /\ readable' \in BOOLEAN
       /\ timerLists_' # {} => TimerfdArmed'
  <2>1. CASE lists = {}
    BY <1>1, <1>2, <2>1 DEF Typed, TypeOK, fd
  <2>2. CASE lists # {}
    <3>1. /\ timerLists_' \in SUBSET Pairs /\ timerLists_' # {}
          /\ ResetTimerfd(Earliest(timerLists_'))
      BY <1>2, <1>8, <2>2
    <3> QED
      BY <3>1, ArmedForEarliest
  <2> QED
    BY <2>1, <2>2
<1>12. TimerfdArmed'
  BY <1>11 DEF TimerfdArmed
<1>13. Typed'
  <2>1. 0 \in Times
    BY TimesAreIntegers DEF Times
  <2> QED
    BY <1>1, <1>2, <1>8, <1>10, <1>11, <2>1 DEF Typed, TypeOK, Live
<1>14. \A t \in Live' : PairOf(t)' = IF t \in again
                                     THEN <<Restart(timer[t]).when, t>>
                                     ELSE PairOf(t)
  BY <1>10 DEF PairOf
<1>15. Filed'
  <2>1. ASSUME NEW p \in timerLists_'
        PROVE  \E t \in Live' : p = PairOf(t)'
    <3>1. CASE p \in timerLists_
      <4>1. PICK t \in Live : p = PairOf(t)
        BY <1>1, <3>1 DEF Filed
      <4>2. t \notin again \cup once
        BY <1>1, <1>6, <3>1, <4>1 DEF Filed
      <4> QED
        BY <1>10, <1>14, <4>1, <4>2
    <3>2. CASE \E t \in again : p = <<Restart(timer[t]).when, t>>
      <4>1. PICK t \in again : p = <<Restart(timer[t]).when, t>>
        BY <3>2
      <4>2. t \in Live'
        BY <1>4, <1>5, <1>10
      <4> QED
        BY <1>14, <4>1, <4>2
    <3> QED
      BY <1>2, <1>9, <3>1, <3>2
  <2>2. ASSUME NEW t \in Live'
        PROVE  PairOf(t)' \in timerLists_'
    <3>1. t \in Live /\ t \notin once
      BY <1>10
    <3>2. CASE t \in again
      BY <1>2, <1>9, <1>14, <3>2
    <3>3. CASE t \notin again
      <4>1. PairOf(t) \in timerLists_
        BY <1>1, <1>6, <3>1, <3>3 DEF Filed
      <4> QED
        BY <1>2, <1>9, <1>14, <3>3, <4>1
    <3> QED
      BY <3>2, <3>3
  <2> QED
    BY <1>2, <2>1, <2>2 DEF Filed, PairOf
<1>16. PhasesOK' /\ NotEarly'
  BY <1>2 DEF PhasesOK, NotEarly
<1> QED
  BY <1>12, <1>13, <1>15, <1>16 DEF TimerInv

\* The rest of the loop.
LEMMA GoesStep ==
    ASSUME TimerInv, NEW from, NEW to, Goes(from, to),
           from # "timers",
           to \in {"poll", "dispatch", "io", "functors"},
           active' \subseteq {"timer", "io"},
           "timer" \in active => "timer" \in active',
           to \in {"poll", "functors"} => active' = {}
    PROVE  TimerInv'
<1>1. Typed /\ Filed /\ PhasesOK /\ NotEarly /\ TimerfdArmed
  BY DEF TimerInv
<1>2. /\ phase = from /\ phase' = to
      /\ UNCHANGED <<running, expired, todo, now_, left, readable, timer,
                     timerLists_, jumps>>
  BY DEF Goes, local, fd
<1>3. Live' = Live
  BY <1>2 DEF Live
<1>4. Typed'
  BY <1>1, <1>2, <1>3 DEF Typed, TypeOK, Live
<1>5. Filed' /\ NotEarly'
  BY <1>1, <1>2, <1>3 DEF Filed, NotEarly, PairOf
<1>6. PhasesOK'
  BY <1>1, <1>2 DEF PhasesOK
<1>7. TimerfdArmed'
  BY <1>1, <1>2 DEF TimerfdArmed
<1> QED
  BY <1>4, <1>5, <1>6, <1>7 DEF TimerInv

LEMMA NextTimers == TimerInv /\ [Next]_vars => TimerInv'
<1> SUFFICES ASSUME TimerInv, [Next]_vars PROVE TimerInv'
  OBVIOUS
<1>1. active \subseteq {"timer", "io"} /\ PhasesOK
  BY DEF TimerInv, Typed, TypeOK
<1>2. CASE EnterLoop
  BY <1>1, <1>2, GoesStep DEF EnterLoop, Goes, PhasesOK
<1>3. CASE PollTimer \/ PollOther
  <2>1. PICK ready \in {{}, {"io"}} : PollReturns(ready)
    BY <1>3 DEF PollTimer, PollOther
  <2>2. active' \subseteq {"timer", "io"} /\ active = {}
    BY <1>1, <2>1 DEF PollReturns, Goes, PhasesOK
  <2> QED
    BY <2>1, <2>2, GoesStep DEF PollReturns
<1>4. CASE IoBegins \/ IoEnds
  BY <1>1, <1>4, GoesStep DEF IoBegins, IoEnds
<1>5. CASE FunctorsBegin
  BY <1>1, <1>5, GoesStep DEF FunctorsBegin
<1>6. CASE FunctorsEnd
  BY <1>1, <1>6, GoesStep DEF FunctorsEnd, Goes, PhasesOK
<1>7. CASE UNCHANGED vars
  <2>1. /\ UNCHANGED <<phase, active, running, expired, todo, now_, left,
                       readable, timer, timerLists_, jumps>>
    BY <1>7 DEF vars, loop, local, fd
  <2>2. Live' = Live
    BY <2>1 DEF Live
  <2> QED
    BY <2>1, <2>2 DEF TimerInv, Typed, TypeOK, Live, Filed, PairOf, PhasesOK,
                      NotEarly, TimerfdArmed
<1> QED
  BY <1>2, <1>3, <1>4, <1>5, <1>6, <1>7, TickStep, JumpStep, AddTimerStep,
     HandlerStep, RunTimerStep, ResetStep DEF Next, LoopStep

\* The invariant the next four are parts of.
THEOREM TimerInvariant == Spec => []TimerInv
BY InitTimers, NextTimers, PTL DEF Spec

\* Timers, the sets of TimerQueue and the timerfd keep their types.
THEOREM TypeCorrect == Spec => []TypeOK
BY TimerInvariant, PTL DEF TimerInv, Typed

\* TimerQueue.cc:94-163: outside handler() a timer that waits has the timerfd
\* behind it, expired or set to expire no later than it is due.
THEOREM AlwaysArmed == Spec => []TimerfdArmed
BY TimerInvariant, PTL DEF TimerInv

\* TimerQueue.cc:123-133: what handler() runs was due when it began.
THEOREM NeverEarly == Spec => []NotEarly
BY TimerInvariant, PTL DEF TimerInv

\* TimerQueue.cc:85-178: every Timer object is in one place, under the
\* expiration it holds.
THEOREM TimersFiledOnce == Spec => []FiledOnce
<1>1. TimerInv => FiledOnce
  <2> SUFFICES ASSUME TimerInv PROVE FiledOnce
    OBVIOUS
  <2>1. Typed /\ Filed
    BY DEF TimerInv
  <2>2. ASSUME NEW t \in Timers
        PROVE  Cardinality({p \in timerLists_ \cup expired : p[2] = t})
                 = IF t \in Live THEN 1 ELSE 0
    <3>1. CASE t \in Live
      <4>1. {p \in timerLists_ \cup expired : p[2] = t} = {PairOf(t)}
        BY <2>1, <3>1, LiveTimer DEF Filed
      <4> QED
        BY <3>1, <4>1, FS_Singleton
    <3>2. CASE t \notin Live
      <4>1. {p \in timerLists_ \cup expired : p[2] = t} = {}
        BY <2>1, <3>2, LiveTimer DEF Filed
      <4> QED
        BY <3>2, <4>1, FS_EmptySet
    <3> QED
      BY <3>1, <3>2
  <2>3. timerLists_ \cap expired = {}
    BY <2>1 DEF Filed
  <2>4. \A p \in timerLists_ \cup expired : timer[p[2]].when = p[1]
    BY <2>1, LiveTimer DEF Filed
  <2> QED
    BY <2>2, <2>3, <2>4 DEF FiledOnce
<1> QED
  BY <1>1, TimerInvariant, PTL
=============================================================================
