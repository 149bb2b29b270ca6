SPECIFICATION Spec
CONSTANTS
    p1 = p1
    p2 = p2
    k1 = k1
    k2 = k2
    c1 = c1
    c2 = c2
    c3 = c3
    NoPeer = NoPeer
    NoEntry = NoEntry
    NoKey = NoKey
    NoRecord = NoRecord
    NoOutcome = NoOutcome
    OwnKey <- NoOwnKeys
    PeerIds <- TwoPeers
    Addrs = {"a"}
    Protos = {}
    MetaKeys = {}
    Values = {}
    PubKeys <- NoKeys
    MaxSeq = 0
    Clients <- ThreeClients
SYMMETRY Symmetry
INVARIANTS
    TypeOK
    LockInOrder
    ChangesInHand
    ReadsAreSnapshots
    ListenersUpToDate
PROPERTIES
    ImplementsAtomic
