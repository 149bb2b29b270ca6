SPECIFICATION FairSpec
CONSTANTS
    topic = topic
    f = f
    g = g
    o = o
    Topics <- OneTopic
    Change = change
    Callbacks <- TwoCallbacks
    Listeners <- ThreeListeners
    Messages <- ThreeMessages
    Objects <- NoObjects
    Absent = Absent
    None = None
    Configs <- TwoConfigs
    Concurrency = 1
    MaxMessages = 2
    MaxListeners = 2
INVARIANTS
    TypeOK
    CountsAgree
    EntitledHear
PROPERTIES
    TopicsKeepListeners
    QueueDrains
CHECK_DEADLOCK FALSE
