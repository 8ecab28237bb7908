--------------------------- MODULE SmsgWalletScan ---------------------------
(***************************************************************************)
(* Scanning messages for this node while the wallet is locked and after   *)
(* it is unlocked.                                                         *)
(*                                                                         *)
(* SecureMsgScanMessage decrypts a message into the inbox, or, with the   *)
(* wallet locked, appends it to the bucket's _wl file                      *)
(* (SecureMsgStoreUnscanned).  This module has the network thread, which  *)
(* scans under cs_smsg (SecureMsgReceive); SmsgWalletScanPow adds the PoW  *)
(* thread, which scans without it.                                         *)
(* SecureMsgWalletUnlocked, called when the wallet is unlocked, reads the *)
(* _wl file record by record under cs_smsg, scans each record, and then    *)
(* removes the file.  All messages modelled are addressed to this node.   *)
(*                                                                         *)
(* wl is the part of the file the reader has not yet passed: the records  *)
(* before its position have been scanned already, so a read takes the     *)
(* head of the sequence, and a scan that appends puts a record at its end. *)
(***************************************************************************)
EXTENDS Naturals, Sequences

CONSTANTS
    Msgs,           \* messages for this node
    None,           \* no message
    MaxUnlocks      \* bound on the unlocks of the wallet

ASSUME None \notin Msgs
ASSUME MaxUnlocks \in Nat

VARIABLES
    locked,    \* pwalletSmsg->IsLocked()
    wl,        \* records of <slot>_01_wl.dat not yet passed by the reader
    inbox,     \* messages in the inbox database
    arrived,   \* messages placed in the bucket store so far
    scanPc,    \* SecureMsgWalletUnlocked: "idle", "begin", "reading", "removing"
    csOwner,   \* "scan" while SecureMsgWalletUnlocked holds cs_smsg, else None
    unlocks    \* unlocks so far (bounded)

vars == <<locked, wl, inbox, arrived, scanPc, csOwner, unlocks>>

Range(s) == {s[i] : i \in DOMAIN s}

\* The fread of the next header fails: the reader is at the end of the file.
AtEofEarly(w) == Len(w) <= 1

AtEof(w) == w = <<>>

\* The records after the one just read.
Unread(w) == Tail(w)

\* SecureMsgScanMessage(m): append to the _wl file when locked, else
\* decrypt into the inbox (a message already there is not written again).
ScanInto(m) ==
    IF locked THEN /\ wl' = Append(wl, m) /\ UNCHANGED inbox
              ELSE /\ inbox' = inbox \cup {m} /\ UNCHANGED wl

Init ==
    /\ locked \in BOOLEAN
    /\ wl = <<>>
    /\ inbox = {}
    /\ arrived = {}
    /\ scanPc = "idle"
    /\ csOwner = None
    /\ unlocks = 0

\* SecureMsgReceive: under cs_smsg, store the message and scan it.
ReceiveMsg(m) ==
    /\ m \notin arrived
    /\ csOwner = None
    /\ arrived' = arrived \cup {m}
    /\ ScanInto(m)
    /\ UNCHANGED <<locked, scanPc, csOwner, unlocks>>

\* walletlock, or the timeout of walletpassphrase, at any time.
LockWallet ==
    /\ ~locked
    /\ locked' = TRUE
    /\ UNCHANGED <<wl, inbox, arrived, scanPc, csOwner, unlocks>>

\* walletpassphrase: the unlock notifies SecureMsgWalletUnlocked.
UnlockWallet ==
    /\ locked
    /\ unlocks < MaxUnlocks
    /\ locked' = FALSE
    /\ scanPc' = IF scanPc = "idle" THEN "begin" ELSE scanPc
    /\ unlocks' = unlocks + 1
    /\ UNCHANGED <<wl, inbox, arrived, csOwner>>

\* SecureMsgWalletUnlocked: return 1 if the wallet is locked again, else
\* LOCK(cs_smsg) and open the _wl file.
ScanBegin ==
    /\ scanPc = "begin"
    /\ csOwner = None
    /\ IF locked THEN scanPc' = "idle" /\ UNCHANGED csOwner
                 ELSE scanPc' = "reading" /\ csOwner' = "scan"
    /\ UNCHANGED <<locked, wl, inbox, arrived, unlocks>>

\* Read one record and scan it with SecureMsgScanMessage.
ScanRead ==
    /\ scanPc = "reading"
    /\ ~AtEof(wl)
    /\ LET m == Head(wl) IN
         IF locked THEN /\ wl' = Append(Unread(wl), m) /\ UNCHANGED inbox
                   ELSE /\ inbox' = inbox \cup {m} /\ wl' = Unread(wl)
    /\ UNCHANGED <<locked, arrived, scanPc, csOwner, unlocks>>

ScanEof ==
    /\ scanPc = "reading"
    /\ AtEof(wl)
    /\ scanPc' = "removing"
    /\ UNCHANGED <<locked, wl, inbox, arrived, csOwner, unlocks>>

\* fclose, fs::remove of the _wl file, release cs_smsg.
ScanRemove ==
    /\ scanPc = "removing"
    /\ wl' = <<>>
    /\ scanPc' = "idle"
    /\ csOwner' = None
    /\ UNCHANGED <<locked, inbox, arrived, unlocks>>

Next ==
    \/ \E m \in Msgs : ReceiveMsg(m)
    \/ LockWallet \/ UnlockWallet
    \/ ScanBegin \/ ScanRead \/ ScanEof \/ ScanRemove

\* The rescan runs once called; messages arriving and the user locking or
\* unlocking the wallet are not forced.
Fairness ==
    /\ WF_vars(ScanBegin) /\ WF_vars(ScanRead) /\ WF_vars(ScanEof)
    /\ WF_vars(ScanRemove)

Spec == Init /\ [][Next]_vars /\ Fairness

-----------------------------------------------------------------------------
\* No message for this node is lost by the locked-wallet path: every stored
\* message is in the inbox or still in the _wl file.
NotLost == \A m \in arrived : m \in inbox \cup Range(wl)

\* SecureMsgWalletUnlocked returns (and releases cs_smsg) once called.
ScanCompletes == (scanPc # "idle") ~> (scanPc = "idle")
=============================================================================
