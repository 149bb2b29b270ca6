SPECIFICATION Spec
CONSTANTS
    rsa1 = rsa1
    rsa2 = rsa2
    ed1 = ed1
    secp1 = secp1
    secp2 = secp2
    RSAKeys <- RSA
    Ed25519Keys <- Ed25519
    Secp256k1Keys <- Secp256k1
    Samples <- AllSamples
    Others <- AllOthers
    Entries <- SomeEntries
    SeqNumbers <- TwoSeqNumbers
    AddressLists <- FewAddressLists
    Domains <- TwoDomains
    Codec = Codec
    Null = Null
    ProtocolError = ProtocolError
    Invalid = Invalid
    MaxLiberties = 1
INVARIANTS
    MessagesArrive
    ObjectsAgree
    EntriesKept
    SealsHold
    IdsAreKept
CHECK_DEADLOCK FALSE
