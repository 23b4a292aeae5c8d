SPECIFICATION FairEndpointSpec
CONSTANTS
    MsgqDepth = 3
    Outcomes <- Failing
INVARIANTS
    RadioReturned
    AdvertisingInSync
PROPERTIES
    SlotFollowsCalmUser
