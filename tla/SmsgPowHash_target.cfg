\* SecureMsgSetHash over three nonces and every digest of them, against the
\* target of the spec; the search ends, so final states have no successor.
CONSTANTS
    None = None
    MaxNonce = 2
CHECK_DEADLOCK FALSE
INIT Init
NEXT Next
INVARIANT SolvedMeetsSpecTarget
