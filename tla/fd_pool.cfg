SPECIFICATION Spec
CONSTANTS
    t1 = t1
    t2 = t2
    t3 = t3
    Threads = {t1, t2, t3}
    Fds = {0, 2}
    Closable = {}
    InitialSize = 2
    MaxAdds = 3
SYMMETRY Symmetry
INVARIANTS PendingExact ContextMatches KernelMatches
