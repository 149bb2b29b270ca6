SPECIFICATION Spec
CONSTANTS
    p1 = p1
    o1 = o1
    o2 = o2
    o3 = o3
    c1 = c1
    c2 = c2
    r1 = r1
    NoStreams = NoStreams
    NoCall = NoCall
    NoPeer = NoPeer
    Peers <- OnePeer
    Topics = {"t"}
    Streams <- TwoStreams
    Calls <- TwoCalls
    Readers <- OneReader
    MaxStops = 1
SYMMETRY Symmetry
INVARIANTS
    StopClosesStreams
CHECK_DEADLOCK FALSE
