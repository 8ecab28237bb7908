-------------------------- MODULE SmsgReceiveBunch --------------------------
(***************************************************************************)
(* SecureMsgReceive: one smsgMsg from a peer, a bunch of messages for one *)
(* bucket packed into vchData.  After a 12-byte prefix (nBunch and        *)
(* bktTime) come nBunch records, each a SMSG_HDR_LEN-byte header followed *)
(* by nPayload bytes of payload, nPayload being a field of the header.   *)
(*                                                                         *)
(* The loop checks that a header fits in what is left of the buffer, and  *)
(* passes the header's nPayload to SecureMsgValidate, which hashes that   *)
(* many payload bytes.  The model records the furthest byte the loop      *)
(* reads.  The bytes of a header are the peer's choice, and are the same  *)
(* each time the loop reads the same offset.  A proof of work is valid    *)
(* and a checksum match only over bytes the peer sent: a payload running  *)
(* past the buffer is hashed over bytes nobody chose, and fails both.     *)
(* The bucket lock released at the end of the call is modelled in         *)
(* SmsgSync (ReceiveMsg).                                                  *)
(***************************************************************************)
EXTENDS Naturals

CONSTANTS
    HdrLen,     \* SMSG_HDR_LEN
    MaxPayload, \* SMSG_MAX_MSG_WORST
    MaxSize,    \* bound on vchData.size()
    MaxBunch,   \* bound on nBunch; nBunch = 0 stands for every invalid count
    SizeMod     \* 2^64, the modulus of size_t; any value above MaxSize
                \* gives the same comparisons

ASSUME HdrLen \in Nat \ {0} /\ MaxPayload \in Nat /\ MaxBunch \in Nat
ASSUME MaxSize \in Nat /\ SizeMod > MaxSize

\* The 12 bytes of nBunch and bktTime.
Prefix == 12

\* What a header says: version[0] = 2, its nPayload (MaxPayload + 1 stands
\* for every larger value), whether the HMAC under its nonce meets the
\* target, and whether the HMAC's first 4 bytes match its hash field.
Headers == [verOk : BOOLEAN, len : 0 .. MaxPayload + 1, powOk : BOOLEAN,
            sumOk : BOOLEAN]

VARIABLES
    size,    \* vchData.size()
    nBunch,  \* the bunch count the peer sent
    inWindow,\* bktTime within [now - SMSG_RETENTION, now + SMSG_TIME_LEEWAY]
    pc,      \* "start", "loop", "done"
    i,       \* loop index
    n,       \* offset of the next record (uint32_t n)
    hdr,     \* header read at offset hdrAt
    hdrAt,   \* offset hdr was read at, or 0 for none
    readEnd, \* one past the furthest byte of vchData read so far
    stored,  \* messages passed to SecureMsgStore
    score    \* Misbehaving() points given to the peer in this call

vars == <<size, nBunch, inWindow, pc, i, n, hdr, hdrAt, readEnd, stored, score>>

\* vchData.size() - n, computed in size_t.
SizeSub(a, b) == (a - b) % SizeMod

ReadTo(e) == readEnd' = IF e > readEnd THEN e ELSE readEnd

\* The headers the loop can find at offset o: any the peer can send, but
\* one that validates only if its payload ends within the buffer; a header
\* re-read at the same offset is the same header.
HeaderAt(o) ==
    IF hdrAt = o THEN {hdr}
    ELSE {h \in Headers : h.powOk /\ h.sumOk => o + HdrLen + h.len <= size}

\* SecureMsgValidate's result: 4 bad version, 5 payload too large,
\* 3 checksum mismatch (tested last, so it overrides the others),
\* 2 proof of work not met, 0 valid.
ValidateRv(h) ==
    CASE ~h.verOk              -> 4
      [] h.len > MaxPayload    -> 5
      [] ~h.sumOk              -> 3
      [] ~h.powOk              -> 2
      [] OTHER                 -> 0

\* SecureMsgValidate hashes the header and, unless it returned early, the
\* nPayload bytes after it.
ValidateReadEnd(o, h) ==
    IF ValidateRv(h) \in {4, 5} THEN o + HdrLen ELSE o + HdrLen + h.len

Init ==
    /\ size \in 0 .. MaxSize
    /\ nBunch \in 0 .. MaxBunch
    /\ inWindow \in BOOLEAN
    /\ pc = "start"
    /\ i = 0 /\ n = 0
    /\ hdr = [verOk |-> FALSE, len |-> 0, powOk |-> FALSE, sumOk |-> FALSE]
    /\ hdrAt = 0
    /\ readEnd = 0 /\ stored = 0 /\ score = 0

\* The early returns: less than 12 bytes, bktTime out of the window, or an
\* invalid bunch count (Misbehaving 1).
Reject ==
    /\ pc = "start"
    /\ size < Prefix \/ ~inWindow \/ nBunch = 0
    /\ pc' = "done"
    /\ readEnd' = IF size < Prefix THEN 0 ELSE Prefix
    /\ score' = IF size >= Prefix /\ inWindow THEN 1 ELSE 0
    /\ UNCHANGED <<size, nBunch, inWindow, i, n, hdr, hdrAt, stored>>

Start ==
    /\ pc = "start"
    /\ size >= Prefix /\ inWindow /\ nBunch # 0
    /\ pc' = "loop" /\ n' = Prefix /\ readEnd' = Prefix
    /\ UNCHANGED <<size, nBunch, inWindow, i, hdr, hdrAt, stored, score>>

\* if (vchData.size() - n < SMSG_HDR_LEN) break;
NotEnoughData ==
    /\ pc = "loop" /\ i < nBunch
    /\ SizeSub(size, n) < HdrLen
    /\ pc' = "done"
    /\ UNCHANGED <<size, nBunch, inWindow, i, n, hdr, hdrAt, readEnd, stored, score>>

\* SecureMsgValidate fails: Misbehaving, and continue without advancing n.
Invalid ==
    /\ pc = "loop" /\ i < nBunch
    /\ SizeSub(size, n) >= HdrLen
    /\ \E h \in HeaderAt(n) :
          /\ ValidateRv(h) # 0
          /\ hdr' = h /\ hdrAt' = n
          /\ ReadTo(ValidateReadEnd(n, h))
          /\ score' = score + (IF ValidateRv(h) = 2 THEN 10 ELSE 1)
    /\ i' = i + 1
    /\ UNCHANGED <<size, nBunch, inWindow, pc, n, stored>>

\* SecureMsgValidate succeeds; under cs_smsg SecureMsgStore (break on
\* failure) and SecureMsgScanMessage, then n += SMSG_HDR_LEN + nPayload.
Valid ==
    /\ pc = "loop" /\ i < nBunch
    /\ SizeSub(size, n) >= HdrLen
    /\ \E h \in HeaderAt(n), storeOk \in BOOLEAN :
          /\ ValidateRv(h) = 0
          /\ hdr' = h /\ hdrAt' = n
          /\ ReadTo(n + HdrLen + h.len)
          /\ stored' = stored + 1
          /\ IF storeOk
             THEN /\ n' = n + HdrLen + h.len /\ i' = i + 1
                  /\ UNCHANGED pc
             ELSE /\ pc' = "done"
                  /\ UNCHANGED <<n, i>>
    /\ UNCHANGED <<size, nBunch, inWindow, score>>

LoopEnd ==
    /\ pc = "loop" /\ i = nBunch
    /\ pc' = "done"
    /\ UNCHANGED <<size, nBunch, inWindow, i, n, hdr, hdrAt, readEnd, stored, score>>

Next == Reject \/ Start \/ NotEnoughData \/ Invalid \/ Valid \/ LoopEnd

Spec == Init /\ [][Next]_vars

-----------------------------------------------------------------------------
\* SecureMsgReceive reads only bytes of vchData: no header and no payload
\* it passes to SecureMsgValidate or SecureMsgStore lies past the end of
\* the buffer the peer sent.
ReadsInBuffer == readEnd <= size
=============================================================================
