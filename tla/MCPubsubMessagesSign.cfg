SPECIFICATION Spec
CONSTANTS
    topic = topic
    f = f
    g = g
    o = o
    Topics <- OneTopic
    Change = change
    Callbacks <- TwoCallbacks
    Listeners <- ThreeListeners
    Messages <- NoMessages
    Objects <- OneObject
    Absent = Absent
    None = None
    Configs <- SigningConfig
    Concurrency = 1
    MaxMessages = 2
    MaxListeners = 2
INVARIANTS
    SignaturesVerify
CHECK_DEADLOCK FALSE
