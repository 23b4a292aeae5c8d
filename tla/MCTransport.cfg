SPECIFICATION TransportSpec
CONSTANTS
    FifoDepth = 3
    RingSize = 2
    Cap = 1
    Int16Max = 1
    Deltas = {0, 1}
    Channels = {ch, rdv}
    Rendezvous = rdv
    HeardAnyway = {FALSE, TRUE}
    MaxSends = 4
    NoPdu = NoPdu
    NoSend = NoSend
INVARIANTS
    TransportTypeOK
    BookkeepingInStep
    ChannelAsIntended
    SideTripOver
PROPERTIES
    InOrder
