SPECIFICATION Spec
CONSTANTS
    t1 = t1
    t2 = t2
    t3 = t3
    Threads = {t1}
    Fds = {2, 4}
    Closable = {2}
    InitialSize = 2
    MaxAdds = 5
INVARIANTS TriggerAsserts
