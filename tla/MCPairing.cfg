SPECIFICATION PairingSpec
CONSTANTS
    TxDepth = 2
    PidCount = 2
    NoPdu = NoPdu
    DongleIds = {d1, d2}
    KeyboardIds = {kb}
    KbId = kb
    NoId = NoId
    NoPkt = NoPkt
INVARIANTS
    TypeOK
    NeverSilent
    RecordAgrees
    ConnectedPeerAnswered
    InactiveNeverConnected
PROPERTIES
    RecordNeverSwaps
