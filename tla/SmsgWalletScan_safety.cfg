\* Messages reach this node through SecureMsgReceive (under cs_smsg);
\* the wallet may be locked again while a rescan runs.
\* A node that has received every message and finished its rescans may
\* stop: deadlock is not checked.
CONSTANTS
    Msgs = {1, 2, 3}
    None = None
    MaxUnlocks = 2
INIT Init
NEXT Next
INVARIANT NotLost
CHECK_DEADLOCK FALSE
