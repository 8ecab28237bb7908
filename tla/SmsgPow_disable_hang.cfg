\* SecureMsgDisable joining the PoW thread while holding cs_smsg
\* Deadlock is not checked: after the last allowed restart a stopped node
\* is idle for good, and a hung SecureMsgDisable is the subject of its own run.
CONSTANTS
    None = None
    a1 = a1
    a2 = a2
    Msgs = {1, 2}
    Addrs = {a1, a2}
    MaxTime = 1
    ReuseAddrs = TRUE
    Crashes = FALSE
    MaxRestarts = 1
CHECK_DEADLOCK FALSE
SPECIFICATION Spec
PROPERTY DisableCompletes
