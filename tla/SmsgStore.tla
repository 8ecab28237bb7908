----------------------------- MODULE SmsgStore -----------------------------
(***************************************************************************)
(* One bucket of the message store: the append-only file                  *)
(* smsgstore/<slot>_01.dat, the in-memory token set smsgBuckets[slot], and *)
(* what a restart rebuilds from the file (SecureMsgBuildBucketSet).         *)
(*                                                                         *)
(* The file is a sequence of bytes.  A byte is named by the message it    *)
(* was written for, the part of the record (header or payload) and its     *)
(* index there, so a read at any offset sees what a real read would.       *)
(* HdrLen stands for SMSG_HDR_LEN (104) and SampleLen for the 8 payload    *)
(* bytes a token samples.  A token is the message it names and the offset  *)
(* of its record; a header read from the middle of a record is garbage,   *)
(* whose timestamp names no message (Junk) and whose nPayload is any value.*)
(***************************************************************************)
EXTENDS Integers, Sequences, FiniteSets

CONSTANTS
    Msgs,          \* message identities (timestamp, sample)
    Junk,          \* the identity read from a garbage header
    HdrLen,        \* SMSG_HDR_LEN
    SampleLen,     \* bytes of payload in token.sample
    PayloadLens,   \* the nPayload values messages may have
    LateMsgs,      \* messages timestamped late enough in the slot to be
                   \* inside the retention window after the slot is not
    TornWrites,    \* whether fwrite may fail part way (disk full, crash)
    MaxWrites,     \* bound on calls of SecureMsgStore that write
    MaxRestarts    \* bound on process restarts

ASSUME HdrLen \in Nat \ {0} /\ SampleLen \in Nat \ {0}
ASSUME PayloadLens \subseteq Nat /\ TornWrites \in BOOLEAN
ASSUME MaxWrites \in Nat /\ MaxRestarts \in Nat /\ Junk \notin Msgs
ASSUME LateMsgs \subseteq Msgs

VARIABLES
    file,       \* contents of <slot>_01.dat
    index,      \* smsgBuckets[slot].setTokens as [m, ofs] records
    msgLen,     \* nPayload of each message (fixed by its sender)
    phase,      \* "live"; "slotOld": slot < now - SMSG_RETENTION;
                \* "allOld": every message of the slot is older too
    stored,     \* messages for which SecureMsgStore returned 0
    writes,     \* number of writes so far (bounded)
    restarts    \* number of restarts so far (bounded)

vars == <<file, index, msgLen, phase, stored, writes, restarts>>

Byte == [m : Msgs, part : {"hdr", "pay"}, i : Nat \ {0}]
Token == [m : Msgs \cup {Junk}, ofs : Nat]

\* The bytes fwrite puts down for message m: header then payload.
Record(m) ==
    [i \in 1..HdrLen |-> [m |-> m, part |-> "hdr", i |-> i]]
    \o [i \in 1..msgLen[m] |-> [m |-> m, part |-> "pay", i |-> i]]

\* Bytes o+1 .. o+n of f (offsets count from 0 as ftell does).
Bytes(f, o, n) == SubSeq(f, o + 1, o + n)

\* The headers a fread of SMSG_HDR_LEN bytes at offset o can yield.
HeadersAt(f, o) ==
    IF \E m \in Msgs : Bytes(f, o, HdrLen) = SubSeq(Record(m), 1, HdrLen)
    THEN {[m |-> m, len |-> msgLen[m]] :
            m \in {x \in Msgs : Bytes(f, o, HdrLen) = SubSeq(Record(x), 1, HdrLen)}}
    ELSE {[m |-> Junk, len |-> g] : g \in 0..Len(f)}

\* std::set::insert keeps the token already present with the same identity.
InsertToken(t, s) == {t} \cup {u \in s : u.m # t.m \/ u.m = Junk}

\* The skip after the sample: fseek(fp, smsg.nPayload - 8, SEEK_CUR).
NextRecordOfsPlus(o, h) == o + HdrLen + SampleLen + h.len

NextRecordOfs(o, h) == o + HdrLen + h.len

\* The loop of SecureMsgBuildBucketSet over one file, from offset o: the
\* set of token sets it can build (a garbage nPayload is any value).
RECURSIVE LoadFrom(_, _), LoadRecord(_, _, _)
LoadFrom(f, o) ==
    IF o + HdrLen > Len(f) THEN {{}}                 \* short header: break
    ELSE UNION {LoadRecord(f, o, h) : h \in HeadersAt(f, o)}

LoadRecord(f, o, h) ==
    IF h.len < SampleLen THEN LoadFrom(f, o + HdrLen)  \* continue, no skip
    ELSE IF o + HdrLen + SampleLen > Len(f) THEN {{}}  \* short sample: break
    ELSE {InsertToken([m |-> h.m, ofs |-> o], s) :
            s \in LoadFrom(f, NextRecordOfs(o, h))}

\* SecureMsgRetrieve(token) returns the bytes of token's own message.
RetrieveOK(f, t) ==
    /\ t.m \in Msgs
    /\ t.ofs + HdrLen + msgLen[t.m] <= Len(f)
    /\ Bytes(f, t.ofs, HdrLen + msgLen[t.m]) = Record(t.m)

Held == {t.m : t \in index}

\* ftell after fopen("ab") and fseek(fp, 0, SEEK_END), before the fwrite.
StoreOffsetNoSeek(f) == 0

StoreOffsetOffByOne(f) == Len(f) - 1

StoreOffset(f) == Len(f)

\* The retention-window test of SecureMsgStore: a message timestamp older
\* than now - SMSG_RETENTION is refused.  It tests the message, not the
\* slot, so a late message of a slot that has expired passes.
InWindow(m) == phase = "live" \/ (phase = "slotOld" /\ m \in LateMsgs)

Init ==
    /\ file = <<>>
    /\ index = {}
    /\ msgLen \in [Msgs -> PayloadLens]
    /\ phase = "live"
    /\ stored = {}
    /\ writes = 0
    /\ restarts = 0

(***************************************************************************)
(* SecureMsgStore(m) under cs_smsg, from ThreadSecureMsgPow or             *)
(* SecureMsgReceive.  A message outside the retention window, or one whose *)
(* token is already held, returns 1 with nothing changed.  Otherwise both *)
(* fwrites succeed and the token is inserted at the pre-write ftell, or   *)
(* one fails after k bytes and the store returns 1, leaving them.          *)
(***************************************************************************)
SecureMsgStore(m) ==
    /\ writes < MaxWrites
    /\ InWindow(m)
    /\ m \notin Held
    /\ \/ /\ file' = file \o Record(m)
          /\ index' = index \cup {[m |-> m, ofs |-> StoreOffset(file)]}
          /\ stored' = stored \cup {m}
       \/ /\ TornWrites
          /\ \E k \in 0..(HdrLen + msgLen[m] - 1) :
                file' = file \o SubSeq(Record(m), 1, k)
          /\ UNCHANGED <<index, stored>>
    /\ writes' = writes + 1
    /\ UNCHANGED <<msgLen, phase, restarts>>

\* Time passes the slot's start, then its last message, by SMSG_RETENTION.
Age ==
    /\ phase # "allOld"
    /\ phase' = IF phase = "live" THEN "slotOld" ELSE "allOld"
    /\ UNCHANGED <<file, index, msgLen, stored, writes, restarts>>

(***************************************************************************)
(* The expiry sweep of ThreadSecureMsg (under cs_smsg): a bucket whose    *)
(* slot is older than now - SMSG_RETENTION is erased and its file removed. *)
(***************************************************************************)
SweepExpired ==
    /\ phase # "live"
    /\ index # {} \/ file # <<>>
    /\ file' = <<>>
    /\ index' = {}
    /\ stored' = {}
    /\ UNCHANGED <<msgLen, phase, writes, restarts>>

(***************************************************************************)
(* The process stops at any point and SecureMsgStart runs                  *)
(* SecureMsgBuildBucketSet: the in-memory set is rebuilt from the file,   *)
(* or the file is removed when its slot has expired.                       *)
(***************************************************************************)
Restart ==
    /\ restarts < MaxRestarts
    /\ IF phase = "live"
       THEN index' \in LoadFrom(file, 0) /\ UNCHANGED <<file, stored>>
       ELSE file' = <<>> /\ index' = {} /\ stored' = {}
    /\ restarts' = restarts + 1
    /\ UNCHANGED <<msgLen, phase, writes>>

Next ==
    \/ \E m \in Msgs : SecureMsgStore(m)
    \/ Age
    \/ SweepExpired
    \/ Restart

Spec == Init /\ [][Next]_vars

-----------------------------------------------------------------------------
TypeOK ==
    /\ file \in Seq(Byte)
    /\ index \subseteq Token
    /\ msgLen \in [Msgs -> PayloadLens]
    /\ phase \in {"live", "slotOld", "allOld"}
    /\ stored \subseteq Msgs
    /\ writes \in 0..MaxWrites
    /\ restarts \in 0..MaxRestarts

\* The token set describes the file: every token SecureMsgRetrieve is
\* given (by smsgWant) reads back its own message at the recorded offset,
\* and the node holds exactly the messages SecureMsgStore accepted, before
\* and after SecureMsgBuildBucketSet rebuilds the set at a restart.
IndexFaithful ==
    /\ \A t \in index : RetrieveOK(file, t)
    /\ Held = stored
=============================================================================
