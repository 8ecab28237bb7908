\* Messages reach this node through SecureMsgReceive and the PoW thread; the
\* wallet may be locked at any time, also while a rescan runs.  A node with
\* no messages left to receive may stop: deadlock is not checked.
CONSTANTS
    Msgs = {1, 2, 3}
    None = None
    MaxUnlocks = 2
SPECIFICATION SpecWithPow
PROPERTY ScanCompletes
CHECK_DEADLOCK FALSE
