\* One smsgMsg of up to two records; headers of 2 bytes and payloads of up
\* to 3 bytes stand for SMSG_HDR_LEN and SMSG_MAX_MSG_WORST.  The call
\* returns, so deadlock is not checked.
CONSTANTS
    HdrLen = 2
    MaxPayload = 3
    MaxSize = 20
    MaxBunch = 2
    SizeMod = 1024
INIT Init
NEXT Next
INVARIANT ReadsInBuffer
CHECK_DEADLOCK FALSE
