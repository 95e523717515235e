SPECIFICATION Spec
CONSTANTS
    t1 = t1
    t2 = t2
    p1 = p1
    p2 = p2
    e1 = e1
    Timers = {t1, t2}
    Recurring = {t2}
    Periods = {1, 3}
    Pollers = {p1, p2}
    Externals = {e1}
    MAX_TIMEOUT = 2
    IntRange = 64
    Hour = 0
    ClockSet = {}
    Signals = FALSE
    MaxTime = 2
    MaxOps = 1
SYMMETRY Symmetry
INVARIANTS CbMeansQueued NoMissedWake
