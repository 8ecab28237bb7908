\* PoW thread under fairness, with the heap reusing freed addresses, a crash and a restart
\* Deadlock is not checked: after the last allowed restart a stopped node
\* is idle for good, and a hung SecureMsgDisable is the subject of its own run.
CONSTANTS
    None = None
    a1 = a1
    a2 = a2
    Msgs = {1, 2}
    Addrs = {a1, a2}
    MaxTime = 1
    ReuseAddrs = TRUE
    Crashes = TRUE
    MaxRestarts = 1
CHECK_DEADLOCK FALSE
SPECIFICATION Spec
INVARIANT TypeOK
PROPERTY QueueDrains
