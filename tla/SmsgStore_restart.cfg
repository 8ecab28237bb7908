\* Bucket store, one slot: restart
CONSTANTS
    Junk = Junk
    Msgs = {1, 2, 3}
    HdrLen = 2
    SampleLen = 2
    PayloadLens = {2, 3}
    LateMsgs = {1}
    TornWrites = FALSE
    MaxWrites = 3
    MaxRestarts = 2
CHECK_DEADLOCK FALSE
INIT Init
NEXT Next
INVARIANT TypeOK
INVARIANT IndexFaithful
