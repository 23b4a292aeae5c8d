SPECIFICATION ChannelHopSpec
CONSTANTS
    ChannelCount = 5
    INVALID = 255
    MinDistance = 2
    Half = 4
    Holds = {1, 3}
    MaxUptime = 2
INVARIANTS
    HeldLongEnough
    FreedOnTime
    PickIsBest
