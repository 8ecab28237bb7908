\* Two peers, two messages, SecureMsgRetrieve may fail: types and the flood
\* refinement.
CONSTANTS
    n1 = n1
    n2 = n2
    NoPeer = NoPeer
    Nodes <- MCNodes
    Msgs <- MCMsgs2
    SendDelay = 2
    IgnoreTime = 2
    LockTicks = 3
    BunchCap = 2
    MaxInFlight = 2
    RetrieveFails = TRUE
INIT Init
NEXT Next
INVARIANT TypeOK
PROPERTY FloodSpec
SYMMETRY NodePerms
