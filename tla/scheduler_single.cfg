SPECIFICATION FairSpec
CONSTANTS
    w1 = w1
    w2 = w2
    c1 = c1
    a = a
    b = b
    c = c
    Main = Main
    AnyThread = AnyThread
    Workers = {}
    Callers = {c1}
    Tasks = {a, b}
    Calls <- SingleCalls
    Awaiters = {a}
    MaxYields = 2
PROPERTIES EndedStays
