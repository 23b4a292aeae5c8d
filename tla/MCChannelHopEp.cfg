SPECIFICATION FairHopSpec
CONSTANTS
    Channels = {c1, c2, c3}
    INVALID = INVALID
    Rendezvous = c1
    BurstCount = 2
    RdvEvery = 1
    ByteMod = 4
INVARIANTS
    ActiveIsDriven
    HandshakeDriven
PROPERTIES
    DeadLinkLeft
