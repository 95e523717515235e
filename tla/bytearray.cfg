SPECIFICATION Spec
CONSTANTS
    BaseSize = 3
    VarintBits = 2
    Samples <- TypedSamples
    RawSizes = {0, 4}
    Positions = {0, 3, 5, 10}
    JunkBytes = {0}
    MaxBlocks = 3
    MaxOps = 4
    FixSizes = {3}
    MaxFix = 3
    MaxWire = 3
    MaxErrors = 1
CHECK_DEADLOCK FALSE
INVARIANTS CurMatches ReadBack FixSizeExact
PROPERTIES FlatBufferSpec
