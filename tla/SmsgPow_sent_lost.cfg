\* Send queue and PoW thread with the heap reusing freed addresses and crashes
\* Deadlock is not checked: after the last allowed restart a stopped node
\* is idle for good, and a hung SecureMsgDisable is the subject of its own run.
CONSTANTS
    None = None
    a1 = a1
    a2 = a2
    Msgs = {1, 2}
    Addrs = {a1, a2}
    MaxTime = 1
    ReuseAddrs = TRUE
    Crashes = TRUE
    MaxRestarts = 1
CHECK_DEADLOCK FALSE
INIT Init
NEXT Next
INVARIANT SentNotLost
