SPECIFICATION FairIpSpec
CONSTANTS
    left = left
    right = right
    Buttons = {left, right}
    QueueDepth = 2
INVARIANT
    ButtonsCatchUp
PROPERTIES
    PointerIsDeferred
    EdgesDelivered
