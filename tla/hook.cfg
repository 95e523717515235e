SPECIFICATION FairSpec
CONSTANTS
    f1 = f1
    f2 = f2
    NoFiber = NoFiber
    NoCtx = NoCtx
    Fds = {1, 3}
    InitialSize = 2
    Fibers = {f1, f2}
    Calls <- MixedCalls
    InitialOpen = {1}
    Pools <- SmallPools
    MaxCalls <- CallBounds
CHECK_DEADLOCK FALSE
INVARIANTS NoLostWaiter NoOrphanEvent NonblockKept
PROPERTIES ConnectTrue TimedCallReturns
