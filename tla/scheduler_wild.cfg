SPECIFICATION Spec
CONSTANTS
    w1 = w1
    w2 = w2
    c1 = c1
    a = a
    b = b
    c = c
    Main = Main
    AnyThread = AnyThread
    Workers = {w1, w2}
    Callers = {}
    Tasks = {a, b}
    Calls <- WildCalls
    Awaiters = {a}
    MaxYields = 1
INVARIANTS CountersExact
