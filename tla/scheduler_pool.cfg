SPECIFICATION FairSpec
CONSTANTS
    w1 = w1
    w2 = w2
    c1 = c1
    a = a
    b = b
    c = c
    Main = Main
    AnyThread = AnyThread
    Workers = {w1, w2}
    Callers = {c1}
    Tasks = {a, b}
    Calls <- PoolCalls
    Awaiters = {}
    MaxYields = 1
INVARIANTS OneRunner NoLostTask StopDrains
PROPERTIES StopReturns
