------------------------------ MODULE SmsgSync ------------------------------
(***************************************************************************)
(* The bucket synchronisation protocol of secure messaging                 *)
(* (src/src/smsg/smessage.cpp): SecureMsgSendData, the smsg* verbs of      *)
(* SecureMsgReceiveData, SecureMsgReceive, the lock sweep of               *)
(* ThreadSecureMsg and the store of ThreadSecureMsgPow, for ONE bucket     *)
(* (time slot) that every node holds.                                      *)
(*                                                                         *)
(* Data abstraction.  A message is a natural number; the ordering of       *)
(* SecMsgToken (timestamp, sample) is the ordering of the numbers.  The    *)
(* XXH32 bucket hash is the token set itself (no collisions).              *)
(*                                                                         *)
(* Time abstraction.  The code compares seconds from GetTime() only in     *)
(* these ways, and the model keeps exactly those comparisons:              *)
(*   now - lastSeen < SMSG_SEND_DELAY   lastSeenAge = min(now-lastSeen, D) *)
(*   now < ignoreUntil                  ignoreLeft  = max(ignoreUntil-now,0)*)
(*   bkt.timeChanged < lastMatched      matchOrder  = sign(lastMatched -   *)
(*                                                         timeChanged)    *)
(* plus changedNow (timeChanged = now) and matchedNow (lastMatched = now), *)
(* which decide the sign when one of the two is set to now.  Tick is one   *)
(* second passing.  All nodes read the same clock.                         *)
(***************************************************************************)
EXTENDS Integers, Sequences, FiniteSets
LOCAL INSTANCE SequencesExt

CONSTANTS
    Nodes,          \* connected peers running secure messaging
    Msgs,           \* the messages of the bucket (a finite set of naturals)
    NoPeer,         \* nLockPeerId of an unlocked bucket
    SendDelay,      \* SMSG_SEND_DELAY, in Ticks
    IgnoreTime,     \* SMSG_TIME_IGNORE, in Ticks
    LockTicks,      \* nLockCount given to a bucket by smsgHave (3)
    BunchCap,       \* the 500-message cap of one smsgMsg
    MaxInFlight,    \* model bound: messages queued between two peers
    RetrieveFails   \* whether SecureMsgRetrieve may fail (file read errors)

ASSUME Msgs \subseteq Nat /\ NoPeer \notin Nodes
ASSUME RetrieveFails \in BOOLEAN
ASSUME {SendDelay, IgnoreTime, LockTicks, BunchCap, MaxInFlight} \subseteq Nat \ {0}

Never == -1         \* lastSeen = 0: no smsgPing sent yet

VARIABLES
    tokens,         \* tokens[n]: the bucket's setTokens at node n
    hash,           \* hash[n]: the bucket's hash as last computed by hashBucket
    changedNow,     \* changedNow[n]: the bucket's timeChanged is the current second
    lockCount,      \* lockCount[n]: the bucket's nLockCount
    lockPeerId,     \* lockPeerId[n]: the bucket's nLockPeerId
    fEnabled,       \* fEnabled[n][p]: n's smsgData.fEnabled for peer p
    lastSeenAge,    \* seconds since n's smsgData.lastSeen for p, capped, or Never
    matchedNow,     \* n's smsgData.lastMatched for p is the current second
    matchOrder,     \* sign of (lastMatched for p) - (timeChanged of n's bucket)
    ignoreLeft,     \* seconds until n's smsgData.ignoreUntil for p
    chan,           \* chan[n][p]: messages pushed by n to p, not yet processed
    timedOut,       \* timedOut[n]: ThreadSecureMsg's vTimedOutLocks, not yet notified
    created         \* messages already stored by the proof-of-work thread

bucketVars == <<tokens, hash, changedNow, lockCount, lockPeerId>>
peerVars   == <<fEnabled, lastSeenAge, matchedNow, matchOrder, ignoreLeft>>
vars == <<bucketVars, peerVars, chan, timedOut, created>>

-----------------------------------------------------------------------------
(* Wire messages.  A bucket entry of smsgInv is (nMessages, hash); smsgShow *)
(* names the one bucket; smsgHave and smsgWant carry token sets and smsgMsg *)
(* the messages in token order.  smsgIgnore carries ignoreUntil as seconds  *)
(* left.                                                                    *)
InvMsg(cnt, h)  == [type |-> "inv", count |-> cnt, hash |-> h]
ShowMsg         == [type |-> "show"]
HaveMsg(s)      == [type |-> "have", tokens |-> s]
WantMsg(s)      == [type |-> "want", tokens |-> s]
BunchMsg(s)     == [type |-> "msg", bunch |-> s]
MatchMsg        == [type |-> "match"]
PingMsg         == [type |-> "ping"]
PongMsg         == [type |-> "pong"]
IgnoreMsg(left) == [type |-> "ignore", left |-> left]

WireMsgs ==
    {InvMsg(c, h) : c \in 1..Cardinality(Msgs), h \in SUBSET Msgs}
    \cup {ShowMsg, MatchMsg, PingMsg, PongMsg}
    \cup {HaveMsg(s) : s \in SUBSET Msgs} \cup {WantMsg(s) : s \in SUBSET Msgs}
    \cup {BunchMsg(s) : s \in BoundedSeq(Msgs, BunchCap)} \cup {IgnoreMsg(l) : l \in 0..IgnoreTime}

InFlight(n, p) == Len(chan[n][p]) + Len(chan[p][n])

Push(c, n, p, m) == [c EXCEPT ![n][p] = Append(@, m)]

\* Process the head of p's queue to n, with no reply.
Consume(n, p) == chan' = [chan EXCEPT ![p][n] = Tail(@)]

\* Process the head of p's queue to n and push reply r back to p.
Reply(n, p, r) == chan' = [chan EXCEPT ![p][n] = Tail(@), ![n][p] = Append(@, r)]

-----------------------------------------------------------------------------
(* SecMsgBucket::hashBucket: recompute the hash of n's bucket over newTokens;*)
(* only when it differs is timeChanged set to now.                          *)
HashBucket(n, newTokens) ==
    /\ hash' = [hash EXCEPT ![n] = newTokens]
    /\ IF newTokens # hash[n]
         THEN /\ changedNow' = [changedNow EXCEPT ![n] = TRUE]
              /\ matchOrder' = [matchOrder EXCEPT ![n] =
                                 [p \in Nodes |-> IF matchedNow[n][p] THEN 0 ELSE -1]]
         ELSE UNCHANGED <<changedNow, matchOrder>>

\* SecureMsgSendData: "bkt.timeChanged < pto->smsgData.lastMatched", the
\* bucket is left out of smsgInv to p.
SkippedFor(n, p) == matchOrder[n][p] > 0

-----------------------------------------------------------------------------
Init ==
    /\ tokens = [n \in Nodes |-> {}]
    /\ hash = [n \in Nodes |-> {}]
    /\ changedNow = [n \in Nodes |-> FALSE]
    /\ lockCount = [n \in Nodes |-> 0]
    /\ lockPeerId = [n \in Nodes |-> NoPeer]
    /\ fEnabled = [n \in Nodes |-> [p \in Nodes |-> FALSE]]
    /\ lastSeenAge = [n \in Nodes |-> [p \in Nodes |-> Never]]
    /\ matchedNow = [n \in Nodes |-> [p \in Nodes |-> FALSE]]
    /\ matchOrder = [n \in Nodes |-> [p \in Nodes |-> 0]]
    /\ ignoreLeft = [n \in Nodes |-> [p \in Nodes |-> 0]]
    /\ chan = [n \in Nodes |-> [p \in Nodes |-> <<>>]]
    /\ timedOut = [n \in Nodes |-> {}]
    /\ created = {}

-----------------------------------------------------------------------------
(* One second passes: lastSeen ages, ignore periods run down (also the     *)
(* ignoreUntil carried by smsgIgnore messages still queued), and no         *)
(* timeChanged or lastMatched is "now" any more.                            *)
\* Mutant of AgeMsg: the carried time runs below zero.
AgeMsgNoFloor(m) == IF m.type = "ignore" THEN [m EXCEPT !.left = @ - 1] ELSE m

AgeMsg(m) == IF m.type = "ignore" /\ m.left > 0 THEN [m EXCEPT !.left = @ - 1] ELSE m

Tick ==
    /\ lastSeenAge' = [n \in Nodes |-> [p \in Nodes |->
                         IF lastSeenAge[n][p] \in {Never, SendDelay} THEN lastSeenAge[n][p]
                         ELSE lastSeenAge[n][p] + 1]]
    /\ ignoreLeft' = [n \in Nodes |-> [p \in Nodes |->
                        IF ignoreLeft[n][p] > 0 THEN ignoreLeft[n][p] - 1 ELSE 0]]
    /\ changedNow' = [n \in Nodes |-> FALSE]
    /\ matchedNow' = [n \in Nodes |-> [p \in Nodes |-> FALSE]]
    /\ chan' = [n \in Nodes |-> [p \in Nodes |-> [i \in DOMAIN chan[n][p] |-> AgeMsg(chan[n][p][i])]]]
    /\ UNCHANGED <<tokens, hash, lockCount, lockPeerId, fEnabled, matchOrder, timedOut, created>>

(* ThreadSecureMsgPow, after SecureMsgSetHash succeeded: SecureMsgStore     *)
(* with fUpdateBucket, which inserts the token and rehashes the bucket.     *)
(* Each message is created once, at one node.                               *)
PowStore(n, m) ==
    /\ m \notin created
    /\ created' = created \cup {m}
    /\ tokens' = [tokens EXCEPT ![n] = @ \cup {m}]
    /\ HashBucket(n, tokens[n] \cup {m})
    /\ UNCHANGED <<lockCount, lockPeerId, fEnabled, lastSeenAge, matchedNow, ignoreLeft,
                   chan, timedOut>>

(* SecureMsgSendData(pto = p) on node n.  First contact sends smsgPing.     *)
(* Otherwise, if p is enabled, SMSG_SEND_DELAY has passed and p is not      *)
(* ignored, the bucket is shown in smsgInv unless it is empty or unchanged  *)
(* since lastMatched; then lastSeen and lastMatched become now.             *)
SecureMsgSendData(n, p) ==
    /\ n # p
    /\ \/ /\ lastSeenAge[n][p] = Never
          /\ InFlight(n, p) < MaxInFlight
          /\ chan' = Push(chan, n, p, PingMsg)
          /\ lastSeenAge' = [lastSeenAge EXCEPT ![n][p] = 0]
          /\ UNCHANGED <<matchedNow, matchOrder>>
       \/ /\ lastSeenAge[n][p] # Never
          /\ fEnabled[n][p]
          /\ lastSeenAge[n][p] >= SendDelay
          /\ ignoreLeft[n][p] = 0
          /\ LET shown == tokens[n] # {} /\ ~SkippedFor(n, p) IN
               /\ shown => InFlight(n, p) < MaxInFlight
               /\ chan' = IF shown
                            THEN Push(chan, n, p, InvMsg(Cardinality(tokens[n]), hash[n]))
                            ELSE chan
          /\ lastSeenAge' = [lastSeenAge EXCEPT ![n][p] = 0]
          /\ matchedNow' = [matchedNow EXCEPT ![n][p] = TRUE]
          /\ matchOrder' = [matchOrder EXCEPT ![n][p] = IF changedNow[n] THEN 0 ELSE 1]
    /\ UNCHANGED <<bucketVars, fEnabled, ignoreLeft, timedOut, created>>

-----------------------------------------------------------------------------
(* SecureMsgReceiveData on node n for the head message from peer p.         *)

\* smsgInv: dropped while n ignores p.  A locked bucket is counted and not
\* requested; a bucket with fewer tokens, or as many and another hash, is
\* requested with smsgShow; with nothing requested and nothing locked n
\* answers smsgMatch.
ReceiveInv(n, p) ==
    LET m == Head(chan[p][n]) IN
    /\ m.type = "inv"
    /\ IF ignoreLeft[n][p] > 0 \/ lockCount[n] > 0
         THEN Consume(n, p)
       ELSE IF \/ Cardinality(tokens[n]) < m.count
               \/ Cardinality(tokens[n]) = m.count /\ hash[n] # m.hash
         THEN Reply(n, p, ShowMsg)
       ELSE Reply(n, p, MatchMsg)
    /\ UNCHANGED <<bucketVars, peerVars, timedOut, created>>

\* smsgShow: answer smsgHave with every token of the bucket.
ReceiveShow(n, p) ==
    /\ Head(chan[p][n]).type = "show"
    /\ Reply(n, p, HaveMsg(tokens[n]))
    /\ UNCHANGED <<bucketVars, peerVars, timedOut, created>>

\* smsgHave: ignored while the bucket is locked; otherwise, if p has tokens
\* n lacks, lock the bucket to p for LockTicks sweeps and send smsgWant.
\* Mutant of MissingTokens: the set difference taken the wrong way round.
MissingTokensSwapped(n, have) == tokens[n] \ have

MissingTokens(n, have) == have \ tokens[n]

ReceiveHave(n, p) ==
    LET m == Head(chan[p][n])
        missing == MissingTokens(n, m.tokens) IN
    /\ m.type = "have"
    /\ IF lockCount[n] = 0 /\ missing # {}
         THEN /\ lockCount' = [lockCount EXCEPT ![n] = LockTicks]
              /\ lockPeerId' = [lockPeerId EXCEPT ![n] = p]
              /\ Reply(n, p, WantMsg(missing))
         ELSE /\ Consume(n, p)
              /\ UNCHANGED <<lockCount, lockPeerId>>
    /\ UNCHANGED <<tokens, hash, changedNow, peerVars, timedOut, created>>

\* smsgWant: retrieve the wanted tokens n has, in token order, stopping
\* once BunchCap are in the bunch; a token SecureMsgRetrieve fails on is
\* logged and left out.  Send smsgMsg if the bunch is not empty.
WantedBunch(n, want, failed) ==
    LET found == SetToSortSeq((want \cap tokens[n]) \ failed, <) IN
    SubSeq(found, 1, IF Len(found) < BunchCap THEN Len(found) ELSE BunchCap)

\* The tokens whose record SecureMsgRetrieve cannot read this time.
RetrieveFailures(n, want) ==
    IF RetrieveFails THEN SUBSET (want \cap tokens[n]) ELSE {{}}

ReceiveWant(n, p) ==
    LET m == Head(chan[p][n]) IN
    /\ m.type = "want"
    /\ \E failed \in RetrieveFailures(n, m.tokens) :
          LET bunch == WantedBunch(n, m.tokens, failed) IN
          IF bunch # <<>> THEN Reply(n, p, BunchMsg(bunch)) ELSE Consume(n, p)
    /\ UNCHANGED <<bucketVars, peerVars, timedOut, created>>

\* smsgMsg (SecureMsgReceive): store the messages one by one without
\* rehashing; the first one SecureMsgStore refuses (already held) ends the
\* loop.  Then the bucket is unlocked, whoever it was locked to, and hashed.
StoredPrefix(n, bunch) ==
    LET dup == SelectInSeq(bunch, LAMBDA t : t \in tokens[n]) IN
    IF dup = 0 THEN bunch ELSE SubSeq(bunch, 1, dup - 1)

\* Mutant of Merged: the bucket's token set rebuilt from the bunch alone.
MergedReplace(n, stored) == stored

\* tokenSet.insert of each stored message into the bucket's set.
Merged(n, stored) == tokens[n] \cup stored

ReceiveMsg(n, p) ==
    LET m == Head(chan[p][n])
        newTokens == Merged(n, ToSet(StoredPrefix(n, m.bunch))) IN
    /\ m.type = "msg"
    /\ tokens' = [tokens EXCEPT ![n] = newTokens]
    /\ lockCount' = [lockCount EXCEPT ![n] = 0]
    /\ lockPeerId' = [lockPeerId EXCEPT ![n] = NoPeer]
    /\ HashBucket(n, newTokens)
    /\ Consume(n, p)
    /\ UNCHANGED <<fEnabled, lastSeenAge, matchedNow, ignoreLeft, timedOut, created>>

\* smsgMatch is obsolete: the time is only logged.
ReceiveMatch(n, p) ==
    /\ Head(chan[p][n]).type = "match"
    /\ Consume(n, p)
    /\ UNCHANGED <<bucketVars, peerVars, timedOut, created>>

ReceivePing(n, p) ==
    /\ Head(chan[p][n]).type = "ping"
    /\ Reply(n, p, PongMsg)
    /\ UNCHANGED <<bucketVars, peerVars, timedOut, created>>

ReceivePong(n, p) ==
    /\ Head(chan[p][n]).type = "pong"
    /\ fEnabled' = [fEnabled EXCEPT ![n][p] = TRUE]
    /\ Consume(n, p)
    /\ UNCHANGED <<bucketVars, lastSeenAge, matchedNow, matchOrder, ignoreLeft, timedOut, created>>

\* smsgIgnore: p ignores n until the given time; n ignores p too.
ReceiveIgnore(n, p) ==
    LET m == Head(chan[p][n]) IN
    /\ m.type = "ignore"
    /\ ignoreLeft' = [ignoreLeft EXCEPT ![n][p] = m.left]
    /\ Consume(n, p)
    /\ UNCHANGED <<bucketVars, fEnabled, lastSeenAge, matchedNow, matchOrder, timedOut, created>>

ReceiveData(n, p) ==
    /\ n # p
    /\ chan[p][n] # <<>>
    /\ \/ ReceiveInv(n, p)   \/ ReceiveShow(n, p)  \/ ReceiveHave(n, p)
       \/ ReceiveWant(n, p)  \/ ReceiveMsg(n, p)   \/ ReceiveMatch(n, p)
       \/ ReceivePing(n, p)  \/ ReceivePong(n, p)  \/ ReceiveIgnore(n, p)

-----------------------------------------------------------------------------
(* ThreadSecureMsg, first half, under cs_smsg: tick down nLockCount; a lock *)
(* reaching zero is timed out and its peer collected in vTimedOutLocks.     *)
SweepLocks(n) ==
    /\ timedOut[n] = {}
    /\ lockCount[n] > 0
    /\ lockCount' = [lockCount EXCEPT ![n] = @ - 1]
    /\ IF lockCount[n] = 1
         THEN /\ timedOut' = [timedOut EXCEPT ![n] = {lockPeerId[n]}]
              /\ lockPeerId' = [lockPeerId EXCEPT ![n] = NoPeer]
         ELSE UNCHANGED <<timedOut, lockPeerId>>
    /\ UNCHANGED <<tokens, hash, changedNow, peerVars, chan, created>>

(* ThreadSecureMsg, second half, after cs_smsg is released: ignore each     *)
(* timed-out peer for SMSG_TIME_IGNORE and tell it with smsgIgnore.         *)
NotifyTimedOut(n) ==
    /\ timedOut[n] # {}
    /\ \E p \in timedOut[n] :
         /\ ignoreLeft' = [ignoreLeft EXCEPT ![n][p] = IgnoreTime]
         /\ chan' = Push(chan, n, p, IgnoreMsg(IgnoreTime))
    /\ timedOut' = [timedOut EXCEPT ![n] = {}]
    /\ UNCHANGED <<bucketVars, fEnabled, lastSeenAge, matchedNow, matchOrder, created>>

-----------------------------------------------------------------------------
Next ==
    \/ Tick
    \/ \E n \in Nodes, m \in Msgs : PowStore(n, m)
    \/ \E n, p \in Nodes : SecureMsgSendData(n, p) \/ ReceiveData(n, p)
    \/ \E n \in Nodes : SweepLocks(n) \/ NotifyTimedOut(n)

Spec == Init /\ [][Next]_vars

-----------------------------------------------------------------------------
TypeOK ==
    /\ tokens \in [Nodes -> SUBSET Msgs]
    /\ hash \in [Nodes -> SUBSET Msgs]
    /\ changedNow \in [Nodes -> BOOLEAN]
    /\ lockCount \in [Nodes -> 0..LockTicks]
    /\ lockPeerId \in [Nodes -> Nodes \cup {NoPeer}]
    /\ fEnabled \in [Nodes -> [Nodes -> BOOLEAN]]
    /\ lastSeenAge \in [Nodes -> [Nodes -> {Never} \cup 0..SendDelay]]
    /\ matchedNow \in [Nodes -> [Nodes -> BOOLEAN]]
    /\ matchOrder \in [Nodes -> [Nodes -> {-1, 0, 1}]]
    /\ ignoreLeft \in [Nodes -> [Nodes -> 0..IgnoreTime]]
    /\ chan \in [Nodes -> [Nodes -> Seq(WireMsgs)]]
    /\ timedOut \in [Nodes -> SUBSET Nodes]
    /\ created \subseteq Msgs

-----------------------------------------------------------------------------
(* Properties.                                                              *)

Queued(n, p, type) == \E i \in 1..Len(chan[n][p]) : chan[n][p][i].type = type

(* A lock is never stranded: while n's bucket is locked to p (smsgHave      *)
(* set nLockCount), n's smsgWant is still queued to p or p's smsgMsg is     *)
(* queued to n, so the lock ends by an answer and not only by the sweeper's *)
(* timeout, which would have n ignore a peer that did nothing wrong.        *)
LockAnswered ==
    \A n \in Nodes : lockCount[n] > 0 =>
        LET p == lockPeerId[n] IN
        p \in Nodes /\ (Queued(n, p, "want") \/ Queued(p, n, "msg"))

(* Two peers are quiet when nothing is queued between them, neither has     *)
(* its bucket locked and neither ignores the other.                         *)
Quiet(n, p) ==
    /\ chan[n][p] = <<>> /\ chan[p][n] = <<>>
    /\ lockCount[n] = 0 /\ lockCount[p] = 0
    /\ ignoreLeft[n][p] = 0 /\ ignoreLeft[p][n] = 0

(* SecureMsgSendData leaves a bucket out of smsgInv when its timeChanged is *)
(* older than lastMatched, with the comment "peer was last sent all buckets *)
(* at time of lastMatched. It should have this bucket".  So when n skips    *)
(* its bucket for p and the two are quiet, p holds every token n holds.     *)
SkippedBucketIsHeld ==
    \A n, p \in Nodes :
        (n # p /\ SkippedFor(n, p) /\ Quiet(n, p)) => tokens[n] \subseteq tokens[p]

(* The protocol implements SmsgFlood with each node's token set as the set *)
(* it holds: PowStore is Create, and SecureMsgReceive only adds to n's set  *)
(* messages that the sending peer held when it answered smsgWant, so no    *)
(* node loses a message and none gains one that was never created.         *)
Flood == INSTANCE SmsgFlood WITH holds <- tokens, created <- created

FloodSpec == Flood!Spec
=============================================================================
