\* Two peers, two messages: a bucket left out of smsgInv may be one the peer lacks.
CONSTANTS
    n1 = n1
    n2 = n2
    NoPeer = NoPeer
    Nodes <- MCNodes
    Msgs <- MCMsgs2
    SendDelay = 2
    IgnoreTime = 2
    LockTicks = 3
    BunchCap = 2
    MaxInFlight = 2
    RetrieveFails = FALSE
INIT Init
NEXT Next

INVARIANT SkippedBucketIsHeld
