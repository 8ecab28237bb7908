---------------------------- MODULE SmsgStoreScan ----------------------------
(***************************************************************************)
(* The bucket store of SmsgStore together with SecureMsgScanBuckets, the   *)
(* rescan of every stored message for this node's keys.  The rescan      *)
(* reads each bucket file and passes every record to SecureMsgScanMessage  *)
(* (whose inbox writes are not part of this model), and then removes the   *)
(* file it has read; it does not touch smsgBuckets.                        *)
(***************************************************************************)
EXTENDS SmsgStore

\* SecureMsgScanBuckets with the wallet unlocked: an expired file is removed
\* unread; any other file, _wl files excepted, is read under cs_smsg and
\* removed after its last record.
SecureMsgScanBuckets ==
    /\ file # <<>>
    /\ file' = <<>>
    /\ UNCHANGED <<index, msgLen, phase, stored, writes, restarts>>

NextWithScan == Next \/ SecureMsgScanBuckets
=============================================================================
