SPECIFICATION Spec
CONSTANTS
    t1 = t1
    t2 = t2
    n1 = n1
    n2 = n2
    g1 = g1
    f1 = f1
    Root = Root
    Names <- TwoNames
    DefaultPattern <- Default
    ShortPatterns <- Short
    Threads = {t1, t2}
    VarNames <- SomeNames
    Logs <- LogsName
    KindOf <- Kinds
    Texts <- SomeTexts
    Samples <- SomeSamples
    ValidKeys = {"logs", "a", "k"}
    Files <- OneFile
    Contents <- SomeContents
    InitialContent <- FullFile
    Formats <- Patterns2
    MaxListeners = 2
    MaxOps = 3
    MaxTime = 2
CHECK_DEADLOCK FALSE
INVARIANTS ListenersKnow LoggersFollow FormatInherited EditsSeen RoundTrip PatternKept
PROPERTIES NoEventLost
