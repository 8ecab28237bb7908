\* Bucket store, one slot, with SecureMsgScanBuckets called by the user.
\* The store is passive once its bounded writes are done: deadlock is not
\* checked.
CONSTANTS
    Junk = Junk
    Msgs = {1, 2, 3}
    HdrLen = 2
    SampleLen = 2
    PayloadLens = {2, 3}
    LateMsgs = {1}
    TornWrites = FALSE
    MaxWrites = 3
    MaxRestarts = 2
CHECK_DEADLOCK FALSE
INIT Init
NEXT NextWithScan
INVARIANT IndexFaithful
