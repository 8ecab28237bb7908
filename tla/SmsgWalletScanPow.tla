-------------------------- MODULE SmsgWalletScanPow --------------------------
(***************************************************************************)
(* SmsgWalletScan with the proof-of-work thread's own messages: it stores *)
(* a message under cs_smsg, then calls SecureMsgScanMessage without it,    *)
(* which tests IsLocked() and, with the wallet locked, appends the message *)
(* to the _wl file (SecureMsgStoreUnscanned).  Every step of the network   *)
(* thread, the wallet and the rescan is a step of SmsgWalletScan that      *)
(* leaves the PoW thread where it is.                                      *)
(***************************************************************************)
EXTENDS SmsgWalletScan

VARIABLES
    powPc,     \* PoW thread after its store: "idle", "scan", "append"
    powMsg     \* the message the PoW thread is scanning

powVars == <<powPc, powMsg>>
allVars == <<vars, powVars>>

\* ThreadSecureMsgPow: under cs_smsg, SecureMsgStore.
PowStore(m) ==
    /\ powPc = "idle"
    /\ m \notin arrived
    /\ csOwner = None
    /\ arrived' = arrived \cup {m}
    /\ powPc' = "scan"
    /\ powMsg' = m
    /\ UNCHANGED <<locked, wl, inbox, scanPc, csOwner, unlocks>>

\* Then, without cs_smsg, SecureMsgScanMessage tests IsLocked() ...
PowScan ==
    /\ powPc = "scan"
    /\ IF locked
       THEN powPc' = "append" /\ UNCHANGED <<inbox, powMsg>>
       ELSE /\ inbox' = inbox \cup {powMsg}
            /\ powPc' = "idle" /\ powMsg' = None
    /\ UNCHANGED <<locked, wl, arrived, scanPc, csOwner, unlocks>>

\* ... and SecureMsgStoreUnscanned appends to the _wl file.
PowAppend ==
    /\ powPc = "append"
    /\ wl' = Append(wl, powMsg)
    /\ powPc' = "idle"
    /\ powMsg' = None
    /\ UNCHANGED <<locked, inbox, arrived, scanPc, csOwner, unlocks>>

InitWithPow == Init /\ powPc = "idle" /\ powMsg = None

NextWithPow ==
    \/ Next /\ UNCHANGED powVars
    \/ \E m \in Msgs : PowStore(m)
    \/ PowScan \/ PowAppend

\* Both threads run; the rescan's steps as in SmsgWalletScan.
FairnessWithPow ==
    /\ WF_allVars(PowScan) /\ WF_allVars(PowAppend)
    /\ WF_allVars(ScanBegin /\ UNCHANGED powVars)
    /\ WF_allVars(ScanRead /\ UNCHANGED powVars)
    /\ WF_allVars(ScanEof /\ UNCHANGED powVars)
    /\ WF_allVars(ScanRemove /\ UNCHANGED powVars)

SpecWithPow == InitWithPow /\ [][NextWithPow]_allVars /\ FairnessWithPow

-----------------------------------------------------------------------------
\* Messages the PoW thread has stored but not yet scanned.
PendingScan == IF powPc # "idle" THEN {powMsg} ELSE {}

\* No message for this node is lost, with both threads scanning: every
\* stored message is in the inbox, still in the _wl file, or about to be
\* scanned by the PoW thread.
NotLostWithPow == \A m \in arrived : m \in inbox \cup Range(wl) \cup PendingScan
=============================================================================
