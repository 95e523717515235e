SPECIFICATION FairSpec
CONSTANTS
    f1 = f1
    f2 = f2
    Fibers = {f1, f2}
    Direct = {f2}
    MaxConns = 2
    m_maxRequest = 2
    m_maxAliveTime = 1
    Now = 2
    BuffSize = 5
    Shapes <- TwoShapes
    MaxRequests <- ThreeRequests
    MaxTimeouts = 1
CHECK_DEADLOCK FALSE
INVARIANTS OneOwner TotalExact IdleClean AnswerMatches
PROPERTIES RequestEnds
