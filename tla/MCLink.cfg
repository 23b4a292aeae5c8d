SPECIFICATION FairLinkSpec
CONSTANTS
    TxDepth = 2
    PidCount = 2
    NoPdu = NoPdu
    DongleIds = {d1, d2}
    KeyboardIds = {kb}
    KbId = kb
    NoId = NoId
    NoPkt = NoPkt
    MyId = d1
    AckDepth = 8
    RxPids <- MCRxPids
    PrxStarted = TRUE
    Scenarios <- LinkScenarios
    InitPeers = {d2}
INVARIANTS
    ReplyBacklogBounded
    StoredPeerKnowsUs
    HidNeverDropped
PROPERTIES
    ReconnectUnderLoss
