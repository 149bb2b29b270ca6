SPECIFICATION Spec
CONSTANTS
    a = a
    b = b
    s1 = s1
    s2 = s2
    Ends <- TwoEnds
    Streams <- TwoStreams
    Opener <- EachOpens
    Bounds <- NoFaults
INVARIANTS
    ClosingClosesOne
CHECK_DEADLOCK FALSE
