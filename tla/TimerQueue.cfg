CONSTANTS
    Timers = {t1, t2}
    Whens <- MCWhens
    Intervals <- MCIntervals
    Jumps <- MCJumps
    MaxJumps = 1
    MaxLate = 2
    None = None
SPECIFICATION FairSpec
INVARIANTS
    TypeOK
    TimerfdArmed
    FiledOnce
    NotEarly
PROPERTY
    EveryTimerRuns
