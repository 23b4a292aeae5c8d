SPECIFICATION FairLinkSpec
CONSTANTS
    TxDepth = 3
    PidCount = 4
    NoPdu = NoPdu
    DongleIds = {d1, d2}
    KeyboardIds = {kb}
    KbId = kb
    NoId = NoId
    NoPkt = NoPkt
    MyId = d1
    AckDepth = 8
    RxPids <- MCRxPids
    PrxStarted = TRUE
    Scenarios <- Undisturbed
    InitPeers = {d1}
PROPERTIES
    RepairsAfterDisconnect
CHECK_DEADLOCK FALSE
