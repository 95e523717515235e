SPECIFICATION FairSpec
CONSTANTS
    t1 = t1
    t2 = t2
    p1 = p1
    p2 = p2
    e1 = e1
    Timers = {t1, t2}
    Recurring = {t2}
    Periods = {1, 2}
    Pollers = {p1}
    Externals = {}
    MAX_TIMEOUT = 2
    IntRange = 64
    Hour = 1
    ClockSet = {0, 3}
    Signals = TRUE
    MaxTime = 3
    MaxOps = 2
INVARIANTS OneShotOnce
PROPERTIES DueTimersFire
