SPECIFICATION Spec
CONSTANTS
    p1 = p1
    p2 = p2
    k1 = k1
    k2 = k2
    c1 = c1
    c2 = c2
    c3 = c3
    NoPeer = NoPeer
    NoEntry = NoEntry
    NoKey = NoKey
    NoRecord = NoRecord
    NoOutcome = NoOutcome
    OwnKey <- OwnKeys
    PeerIds <- OnePeer
    Addrs = {"a", "b"}
    Protos = {"x"}
    MetaKeys = {"m"}
    Values = {1}
    PubKeys <- TwoKeys
    MaxSeq = 2
    Clients <- OneClient
INVARIANTS
    ListenersUpToDate
