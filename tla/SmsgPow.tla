------------------------------ MODULE SmsgPow ------------------------------
(***************************************************************************)
(* The send queue, the proof-of-work thread and the lifecycle that starts  *)
(* and stops it.                                                           *)
(*                                                                         *)
(* SecureMsgSend writes the envelope to the queue database under the key  *)
(* "qm" ++ timestamp ++ 8 bytes copied from &smsg.pPayload: the key holds *)
(* the address of the payload buffer, freed when SecureMsgSend returns.   *)
(* ThreadSecureMsgPow walks a leveldb iterator (a snapshot of the queue),  *)
(* solves each envelope with cs_smsg released, erases its key, then takes *)
(* cs_smsg to store it.  SecureMsgDisable takes cs_smsg and, holding it,   *)
(* runs SecureMsgShutdown, which clears fSecMsgEnabled and joins the       *)
(* thread; SecureMsgShutdown alone (node exit) joins without cs_smsg.      *)
(***************************************************************************)
EXTENDS Integers, FiniteSets

CONSTANTS
    Msgs,          \* envelopes a user may send
    Addrs,         \* heap addresses new[] may return for pPayload
    None,          \* no envelope / nobody
    MaxTime,       \* last second of the clock (GetTime)
    ReuseAddrs,    \* whether new[] may return an address freed earlier
    Crashes,       \* whether the process may crash and start again
    MaxRestarts    \* bound on starts after the first (Enable, crash)

ASSUME ReuseAddrs \in BOOLEAN /\ Crashes \in BOOLEAN
ASSUME MaxTime \in Nat /\ MaxRestarts \in Nat /\ None \notin Msgs

VARIABLES
    queue,     \* send-queue database: key -> envelope
    now,       \* GetTime()
    allocated, \* addresses new[] has returned so far
    enabled,   \* fSecMsgEnabled
    powPc,     \* where ThreadSecureMsgPow is
    snap,      \* the queue as the thread's iterator sees it
    seen,      \* keys the iterator has passed
    key,       \* chKey of the envelope in hand
    msg,       \* smsgStored of the envelope in hand
    ctlPc,     \* the caller of SecureMsgDisable / SecureMsgShutdown
    csOwner,   \* holder of cs_smsg across a blocking call
    stored,    \* envelopes placed in the bucket store
    sent,      \* envelopes SecureMsgSend queued (returned 0)
    dropped,   \* envelopes the thread removed with a logged error
    restarts   \* starts after the first (bounded)

vars == <<queue, now, allocated, enabled, powPc, snap, seen, key, msg,
          ctlPc, csOwner, stored, sent, dropped, restarts>>

Keys == (0..MaxTime) \X Addrs

PowPcs == {"idle", "iter", "solve", "erased", "stopped"}

Queued(q) == {q[k] : k \in {x \in Keys : q[x] # None}}

\* The envelope the thread holds in memory only (erased, not yet stored).
InHand == IF powPc = "erased" THEN {msg} ELSE {}

\* Addresses new[] can return: every buffer of an earlier SecureMsgSend has
\* been freed, so any address, or only fresh ones when reuse is excluded.
AllocAddrs == IF ReuseAddrs THEN Addrs ELSE Addrs \ allocated

\* NextSmesg moves over the keys present in the iterator's snapshot.
RemainingAll(s, passed) == {k \in Keys : k \notin passed}

Remaining(s, passed) == {k \in Keys : s[k] # None /\ k \notin passed}

\* EraseSmesg(chKey) deletes whatever the database holds at chKey now.
EraseKeyNot(q, k) == q

EraseKey(q, k) == [q EXCEPT ![k] = None]

\* SecureMsgSetHash returned 2 (shutdown): break, leaving the entry.
CancelKeeps(q, k) == q

Init ==
    /\ queue = [k \in Keys |-> None]
    /\ now = 0
    /\ allocated = {}
    /\ enabled = TRUE
    /\ powPc = "idle"
    /\ snap = [k \in Keys |-> None]
    /\ seen = {}
    /\ key = None
    /\ msg = None
    /\ ctlPc = "idle"
    /\ csOwner = None
    /\ stored = {}
    /\ sent = {}
    /\ dropped = {}
    /\ restarts = 0

powVars == <<powPc, snap, seen, key, msg>>

(***************************************************************************)
(* SecureMsgSend: encrypt (new[] returns the payload buffer), write the    *)
(* envelope under "qm" ++ timestamp ++ &pPayload, return, free the buffer. *)
(* pwalletSmsg is set by SecureMsgStart and cleared at the end of         *)
(* SecureMsgShutdown, after the join: a send is accepted during the join.  *)
(***************************************************************************)
SecureMsgSend(m) ==
    /\ enabled \/ ctlPc = "joining"
    /\ m \notin sent
    /\ \E a \in AllocAddrs :
          /\ queue' = [queue EXCEPT ![<<now, a>>] = m]
          /\ allocated' = allocated \cup {a}
    /\ sent' = sent \cup {m}
    /\ UNCHANGED <<now, enabled, powVars, ctlPc, csOwner, stored, dropped,
                   restarts>>

Tick ==
    /\ now < MaxTime
    /\ now' = now + 1
    /\ UNCHANGED <<queue, allocated, enabled, powVars, ctlPc, csOwner,
                   stored, sent, dropped, restarts>>

\* Top of the while (fSecMsgEnabled) loop: open the queue, new iterator.
PowBegin ==
    /\ powPc = "idle"
    /\ enabled
    /\ powPc' = "iter"
    /\ snap' = queue
    /\ seen' = {}
    /\ UNCHANGED <<queue, now, allocated, enabled, key, msg, ctlPc, csOwner,
                   stored, sent, dropped, restarts>>

\* The loop test fails (or MilliSleep is interrupted): the thread ends.
PowExit ==
    /\ powPc = "idle"
    /\ ~enabled
    /\ powPc' = "stopped"
    /\ UNCHANGED <<queue, now, allocated, enabled, snap, seen, key, msg,
                   ctlPc, csOwner, stored, sent, dropped, restarts>>

\* NextSmesg under cs_smsgDB: the next envelope, or the end (delete it, sleep).
PowNext ==
    /\ powPc = "iter"
    /\ IF Remaining(snap, seen) = {}
       THEN /\ powPc' = "idle"
            /\ UNCHANGED <<seen, key, msg>>
       ELSE \E k \in Remaining(snap, seen) :
              /\ powPc' = "solve"
              /\ seen' = seen \cup {k}
              /\ key' = k
              /\ msg' = snap[k]
    /\ UNCHANGED <<queue, now, allocated, enabled, snap, ctlPc, csOwner,
                   stored, sent, dropped, restarts>>

\* SecureMsgSetHash, then EraseSmesg under cs_smsgDB.  It returns 2 when
\* fSecMsgEnabled is clear at its end, else 0 or 1 (no nonce found).
PowSolve ==
    /\ powPc = "solve"
    /\ IF ~enabled
       THEN /\ queue' = CancelKeeps(queue, key)
            /\ powPc' = "idle"
            /\ UNCHANGED dropped
       ELSE \E rv \in {0, 1} :
              /\ queue' = EraseKey(queue, key)
              /\ powPc' = IF rv = 0 THEN "erased" ELSE "iter"
              /\ dropped' = IF rv = 0 THEN dropped ELSE dropped \cup {msg}
    /\ UNCHANGED <<now, allocated, enabled, snap, seen, key, msg, ctlPc,
                   csOwner, stored, sent, restarts>>

\* LOCK(cs_smsg); SecureMsgStore; it may fail (file I/O) and the envelope
\* is then gone.  SecureMsgScanMessage follows outside cs_smsg.
PowStore ==
    /\ powPc = "erased"
    /\ csOwner = None
    /\ \/ stored' = stored \cup {msg} /\ UNCHANGED dropped
       \/ dropped' = dropped \cup {msg} /\ UNCHANGED stored
    /\ powPc' = "iter"
    /\ UNCHANGED <<queue, now, allocated, enabled, snap, seen, key, msg,
                   ctlPc, csOwner, sent, restarts>>

(***************************************************************************)
(* SecureMsgDisable (LOCK(cs_smsg), then SecureMsgShutdown) and            *)
(* SecureMsgShutdown alone: clear fSecMsgEnabled, interrupt_all, join_all. *)
(***************************************************************************)
StopBegin(withLock) ==
    /\ ctlPc = "idle"
    /\ enabled
    /\ csOwner = None
    /\ enabled' = FALSE
    /\ ctlPc' = "joining"
    /\ csOwner' = IF withLock THEN "ctl" ELSE None
    /\ UNCHANGED <<queue, now, allocated, powVars, stored, sent, dropped,
                   restarts>>

\* join_all returns once the thread has ended; Disable then clears the
\* buckets and releases cs_smsg.
StopJoined ==
    /\ ctlPc = "joining"
    /\ powPc = "stopped"
    /\ ctlPc' = "idle"
    /\ csOwner' = None
    /\ UNCHANGED <<queue, now, allocated, enabled, powVars, stored, sent,
                   dropped, restarts>>

\* SecureMsgEnable -> SecureMsgStart: set fSecMsgEnabled, create the thread.
SecureMsgEnable ==
    /\ ctlPc = "idle"
    /\ ~enabled
    /\ csOwner = None
    /\ restarts < MaxRestarts
    /\ enabled' = TRUE
    /\ powPc' = "idle"
    /\ restarts' = restarts + 1
    /\ UNCHANGED <<queue, now, allocated, snap, seen, key, msg, ctlPc,
                   csOwner, stored, sent, dropped>>

\* The process dies at any point and starts again: memory is lost, the
\* queue database and the bucket files remain.
CrashRestart ==
    /\ Crashes
    /\ restarts < MaxRestarts
    /\ enabled' = TRUE
    /\ powPc' = "idle"
    /\ snap' = [k \in Keys |-> None]
    /\ seen' = {}
    /\ key' = None
    /\ msg' = None
    /\ ctlPc' = "idle"
    /\ csOwner' = None
    /\ restarts' = restarts + 1
    /\ UNCHANGED <<queue, now, allocated, stored, sent, dropped>>

Next ==
    \/ \E m \in Msgs : SecureMsgSend(m)
    \/ Tick
    \/ PowBegin \/ PowExit \/ PowNext \/ PowSolve \/ PowStore
    \/ \E b \in BOOLEAN : StopBegin(b)
    \/ StopJoined
    \/ SecureMsgEnable
    \/ CrashRestart

\* The threads run: each step of the PoW thread and the join happen once
\* they can.  Sending, the clock, Disable, Enable and crashes are not forced.
Fairness ==
    /\ WF_vars(PowBegin) /\ WF_vars(PowExit) /\ WF_vars(PowNext)
    /\ WF_vars(PowSolve) /\ WF_vars(PowStore) /\ WF_vars(StopJoined)

Spec == Init /\ [][Next]_vars /\ Fairness

-----------------------------------------------------------------------------
TypeOK ==
    /\ queue \in [Keys -> Msgs \cup {None}]
    /\ now \in 0..MaxTime
    /\ allocated \subseteq Addrs
    /\ enabled \in BOOLEAN
    /\ powPc \in PowPcs
    /\ snap \in [Keys -> Msgs \cup {None}]
    /\ seen \subseteq Keys
    /\ powPc \in {"solve", "erased"} => key \in Keys /\ msg \in Msgs
    /\ ctlPc \in {"idle", "joining"}
    /\ csOwner \in {None, "ctl"}
    /\ stored \cup dropped \subseteq sent
    /\ restarts \in 0..MaxRestarts

\* No envelope SecureMsgSend accepted disappears without a trace: it is in
\* the queue database, in the PoW thread's hands between EraseSmesg and
\* SecureMsgStore, in the bucket store, or was removed with a logged error.
SentNotLost ==
    \A m \in sent : m \in Queued(queue) \cup InHand \cup stored \cup dropped

\* Every queued envelope leaves the queue while secure messaging stays
\* enabled: the PoW thread's loop over fresh iterators reaches every key.
QueueDrains ==
    \A k \in Keys : (queue[k] # None) ~> (queue[k] = None \/ ~enabled)

\* SecureMsgDisable returns: once it has begun to join the threads, the
\* join completes.
DisableCompletes == (ctlPc = "joining") ~> (ctlPc = "idle")
=============================================================================
