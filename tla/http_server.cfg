SPECIFICATION FairSpec
CONSTANTS
    a1 = a1
    a2 = a2
    c1 = c1
    c2 = c2
    u1 = u1
    p1 = p1
    p2 = p2
    s1 = s1
    s2 = s2
    NoServlet = NoServlet
    NotFound = NotFound
    Addrs = {a1, a2}
    Clients = {c1, c2}
    Paths = {u1}
    Patterns = {p1, p2}
    Servlets = {s1, s2}
    Matches <- BothMatch
    Dial <- TwoDials
    Script <- TwoScripts
    Launches <- SomeLaunches
    BuffSize = 4
    MaxTimeouts = 1
    MaxEvents = 3
    MaxCrashes = 1
    MaxBindFails = 1
CHECK_DEADLOCK FALSE
INVARIANTS AnswersInOrder DispatchRef
PROPERTIES StopEnds SessionEnds Recovers
