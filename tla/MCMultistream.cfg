SPECIFICATION FairSpec
CONSTANTS
    x = x
    y = y
    z = z
    Protocols <- ThreeProtocols
    Requests <- UpToThree
    ProtocolId = ProtocolId
    Ls = Ls
    Na = Na
    Data = Data
    Pending = Pending
    Refused = Refused
    Failed = Failed
    MaxLists = 2
INVARIANTS
    TypeOK
    StreamsAreClean
    AnswersInOrder
PROPERTIES
    SelectionEnds
    ImplementsChoice
CHECK_DEADLOCK FALSE
