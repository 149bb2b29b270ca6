SPECIFICATION FairSpec
CONSTANTS
    a = a
    b = b
    s1 = s1
    s2 = s2
    Ends <- TwoEnds
    Streams <- TwoStreams
    Opener <- EachOpens
    Bounds <- WithFaults
INVARIANTS
    TypeOK
    EndsReachOther
    UnknownHaveEnded
PROPERTIES
    EndedAreRemoved
    AbortEndsBoth
CHECK_DEADLOCK FALSE
