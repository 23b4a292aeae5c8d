SPECIFICATION FairHidSpec
CONSTANTS
    shift = shift
    a = a
    A = A
    b = b
    vol = vol
    sys = sys
    Shift = Shift
    KeyA = KeyA
    KeyB = KeyB
    Vol = Vol
    Sys = Sys
    Positions <- MCPositions
    Mods = {Shift}
    Usages = {Shift, KeyA, KeyB, Vol, Sys}
    page <- MCPage
    usage <- MCUsage
    emods <- MCExplicit
    imods <- MCImplicit
    KeySlots = 1
    ConsSlots = 1
    KbDepth = 2
    ConsDepth = 1
INVARIANTS
    ReportIsTruth
    HostCatchesUp
    TapsNotSwallowed
PROPERTIES
    ReportsAreDeferred
    DeferredDelivered
