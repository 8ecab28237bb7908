# TLA+ models of the secure-messaging subsystem (`src/src/smsg/smessage.cpp`)

## The system

The SMSG subsystem is a store-and-forward encrypted messaging layer that runs
over the peer-to-peer network. Its parts, all in `smessage.cpp`:

| Part | Code | State it changes |
|------|------|------------------|
| Bucket index | `smsgBuckets`, `SecMsgBucket::hashBucket` | one token set per time bucket, an XXH32 hash of it, `timeChanged`, a lock (`nLockCount`, `nLockPeerId`) |
| Bucket files | `SecureMsgStore`, `SecureMsgRetrieve`, `SecureMsgBuildBucketSet`, `SecureMsgStoreUnscanned` | `smsgstore/<time>_01.dat` append-only files, `_wl` files for the wallet-locked case |
| Sync protocol | `SecureMsgSendData`, `SecureMsgReceiveData`, `SecureMsgReceive` | per-peer `smsgData` (`lastSeen`, `lastMatched`, `ignoreUntil`, `fEnabled`), bucket locks |
| Sweeper thread | `ThreadSecureMsg` | expires buckets and files, ticks locks down, ignores peers whose lock timed out and sends `smsgIgnore` |
| Proof-of-work thread | `ThreadSecureMsgPow`, `SecureMsgSetHash`, `SecureMsgValidate` | the send queue in the message database, then the bucket store |
| Scan and dispatch | `SecureMsgScanMessage`, `SecureMsgWalletUnlocked`, `SecureMsgScanBuckets` | the inbox database, the `_wl` files |
| Sending | `SecureMsgSend`, `SecureMsgEncrypt` | the outbox and the send queue |
| Receiving | `SecureMsgDecrypt` | nothing: pure crypto |
| Lifecycle | `SecureMsgStart`, `SecureMsgShutdown`, `SecureMsgEnable`, `SecureMsgDisable` | `fSecMsgEnabled`, the thread group, `smsgBuckets` |
| Addresses | `SecureMsgReadIni`/`WriteIni`, `SecureMsgAddWalletAddresses`, `ScanChainForPublicKeys` | `smsgAddresses`, the pubkey database |

They interact like this:
- The network message-handler thread calls `SecureMsgSendData` for every peer on each pass, and `SecureMsgReceiveData` for every `smsg*` message received.
- The sweeper and PoW threads run beside it.
- They share the bucket index under `cs_smsg`. Each peer's `smsgData` is guarded by its own `cs_smsg_net`.

A sync round between a sender A and a receiver B runs in this order:
1. A sends `smsgInv` listing (bucket, count, hash).
2. B answers `smsgShow` for the buckets it lacks, or `smsgMatch` when none differ and none are locked.
3. A answers `smsgHave` with its tokens.
4. B locks the bucket to A and answers `smsgWant` for the tokens it is missing.
5. A answers `smsgMsg` with up to 500 messages.
6. B stores them, unlocks the bucket and rehashes it.

If A never answers, the sweeper times the lock out after three ticks. B then ignores A for `SMSG_TIME_IGNORE` and sends it `smsgIgnore`.

## Modules

### `SmsgSync`: the sync protocol for one bucket

The module is parameterised by these CONSTANTS:
- `Nodes`: the peers.
- `Msgs`: the messages. A message is its token, and tokens order as numbers.
- `NoPeer`: `nLockPeerId = 0`.
- `SendDelay`: `SMSG_SEND_DELAY`.
- `IgnoreTime`: `SMSG_TIME_IGNORE`.
- `LockTicks`: the `nLockCount = 3` set at the lock.
- `BunchCap`: the 500-message cap of `smsgWant`.
- `MaxInFlight`: a bound on the messages queued between two peers.

The state, as VARIABLES:
- Per node, mirroring the bucket: `tokens`, `hash`, `lockCount`, `lockPeerId`.
- Per ordered pair, mirroring `smsgData`: `fEnabled`, `lastSeenAge`, `ignoreLeft`, `matchOrder`.
- `chan[n][p]`: FIFO channels of wire messages.
- `timedOut`: locks the sweeper collected but has not yet notified.
- `created`: the messages made so far.

Time is relative. The code only compares times to each other and to `now`, so the model keeps what those comparisons need and nothing else:
- `lastSeenAge` is `now - lastSeen`, capped at `SendDelay`. `Never` stands for `lastSeen == 0`.
- `ignoreLeft` is `max(ignoreUntil - now, 0)`.
- `matchOrder` is the sign of `lastMatched - timeChanged`.
- `changedNow` and `matchedNow` record which of the two times was set in the current second.
- `Tick` is one second passing. It ages all of these, including the `ignoreUntil` carried by queued `smsgIgnore` messages.

The bucket hash is the token set itself, so XXH32 collisions are not modelled.

Actions, each the whole handler:

| Action | Code |
|--------|------|
| `PowStore(n, m)` | `ThreadSecureMsgPow` storing a new message via `SecureMsgStore` (token insert and `hashBucket`) |
| `SecureMsgSendData(n, p)` | first-contact `smsgPing`, or the `smsgInv` of every non-skipped, non-empty bucket, then `lastSeen = lastMatched = now` |
| `ReceiveInv` … `ReceiveIgnore` | the branches of `SecureMsgReceiveData`; `ReceiveMsg` is `SecureMsgReceive`, including its stop at the first message already held |
| `SweepLocks(n)` | the `cs_smsg` part of `ThreadSecureMsg`: tick the lock down and collect a timeout |
| `NotifyTimedOut(n)` | the second part: set `ignoreUntil` and push `smsgIgnore` |
| `Tick` | `GetTime()` advancing |

Each handler action is one atomic step, because the code runs every handler on the single message-handler thread. The sweeper's two steps are separate actions, because the code releases `cs_smsg` between them.

`ReceiveWant` lets `SecureMsgRetrieve` fail on any subset of the wanted tokens when `RetrieveFails` is TRUE, which is what the code allows (it logs and `continue`s at line 1230). `sync_safety` and `sync_lock_stranded` set it to TRUE. `sync_skipped_bucket` sets it to FALSE, because its trace needs no failure and the smaller state space keeps the run short. The find-fails return of `smsgWant` (lines 1205–1208) cannot happen in a model of one bucket that always exists. `BunchCap` stands for whichever of the 500-message and 96000-byte caps is reached first.

`SmsgFlood` is the promise of the protocol for one bucket:
- `Create(n, m)`: a message enters the network once, at one node.
- `Copy(n, p)`: a node gains some of the messages a peer holds.

`SmsgSync` maps onto it by `holds <- tokens`, and `FloodSpec` checks the refinement.

`MCSmsgSync` gives the two peers as model values and sets the message sets. `NodePerms` lets `sync_safety` treat the peers as interchangeable: no action or property names a particular peer, so every permutation of them is a symmetry of the state graph.

### `SmsgSync` runs

| Run | Config | Expect | Shows |
|-----|--------|--------|-------|
| `sync_safety` | `SmsgSync_safety.cfg` | pass | `TypeOK` and `FloodSpec` hold with retrieve failures (about 2 million states, with symmetry). The protocol refines `SmsgFlood`: no node ever loses a message, and none gains a message that was never created, whatever the order of `smsgInv`, `smsgWant`, `smsgMsg`, lock timeouts and `smsgIgnore`. |
| `sync_lock_stranded` | `SmsgSync_lock_stranded.cfg` | violation | `LockAnswered` fails in 12 states. The holder's `SecureMsgRetrieve` fails for every wanted token, so `SecureMsgReceiveData` sends no `smsgMsg` (line 1230). The requester's lock is then left until the sweeper times it out and ignores the honest peer. |
| `sync_skipped_bucket` | `SmsgSync_skipped.cfg` | violation | `SkippedBucketIsHeld` fails. A bucket that changed while the peer had it locked is advertised once, dropped, and then skipped forever although the peer lacks a message. |

The trace for `sync_skipped_bucket` takes 18 states:
1. n1 creates message 1. n2 pulls it and locks its bucket to n1.
2. n1 creates message 2 and sends `smsgInv`. n2 drops it, because the bucket is locked.
3. n1 sets `lastMatched = now`.
4. n2 receives message 1 and unlocks.

Afterwards n1 skips the bucket for n2, because its `timeChanged` is older than `lastMatched`. n2's own `smsgInv` shows fewer tokens, which only makes n1 ask n2 for messages and never makes n1 push. The code comment "It should have this bucket" (line 1433) and the spec's "the peer retries later" do not hold. A liveness property that every created message reaches every peer fails on this trace, so it is listed as a hazard and not run.

### `SmsgSync` bounds
- There are two peers. Every sync step is between a pair, and the lock is owned by one peer. Three peers took more than 20 minutes without finishing.
- There are two messages in every run. That is enough for one message to be created during a pull of the other.
- `SendDelay = 2` and `IgnoreTime = 2` let a send wait, and let an ignore outlast a tick.
- `LockTicks = 3` is the code's value.
- `BunchCap = 2` is not reached with two messages. The 500-message cap is a hazard still to isolate.
- `MaxInFlight = 2` bounds only the sends that start traffic (`smsgPing`, `smsgInv`). Replies are never blocked.

### `SmsgStore`: one bucket file and its load

`SmsgStore` models `smsgstore/<slot>_01.dat` as a sequence of bytes. Each byte is a record `[m, part, i]`, so a read at any offset sees what a real read would. `HdrLen` stands for `SMSG_HDR_LEN` and `SampleLen` for the 8-byte token sample; both are 2. A header read from the middle of a record is garbage: its message is `Junk` and its `nPayload` is any value up to the file length.

| Definition | Code |
|------------|------|
| `SecureMsgStore(m)` | `SecureMsgStore`: the retention test (`InWindow`), the "already have" test, `fopen("ab")`/`fseek`/`ftell` (`StoreOffset`), both `fwrite`s, the token insert. With `TornWrites`, a `fwrite` may stop after any prefix. |
| `LoadFrom`, `LoadRecord` (RECURSIVE) | the read loop of `SecureMsgBuildBucketSet`: header, `nPayload < 8` continue, 8-byte sample, `fseek` by `nPayload - 8`, `std::set::insert` (`InsertToken` keeps the first token of an identity) |
| `Restart` | a stop at any point, then `SecureMsgBuildBucketSet`: the file is reloaded, or removed if its slot has expired |
| `Age`, `SweepExpired` | time passing the slot and the expiry sweep of `ThreadSecureMsg` |
| `RetrieveOK` | what `SecureMsgRetrieve` reads at a token's offset |

The retention test of `SecureMsgStore` is on the message timestamp, not on the slot. `phase` therefore has three values: `live`, `slotOld` (the sweeper drops the slot, but the messages in `LateMsgs` still pass the test) and `allOld`.

### `SmsgPow`: the send queue, the PoW thread and stopping it

| Action | Code |
|--------|------|
| `SecureMsgSend(m)` | the queue write under `"qm" ++ timestamp ++ &pPayload`. The address is any address `new[]` may return (`AllocAddrs`); with `ReuseAddrs`, which every run sets, a freed address may be returned again. It is accepted while `fSecMsgEnabled` is set and also during the join of a stop, since `pwalletSmsg` is cleared only after the join. |
| `PowBegin`, `PowNext` | a new leveldb iterator (a snapshot of the queue, `snap`), then `NextSmesg` in any order |
| `PowSolve` | `SecureMsgSetHash`. On 2 (shutdown) it breaks and leaves the entry (`CancelKeeps`); otherwise `EraseSmesg` runs, and on 1 the message is dropped. |
| `PowStore` | `LOCK(cs_smsg)`, then `SecureMsgStore` (which may fail) |
| `PowExit` | the `while (fSecMsgEnabled)` test failing |
| `StopBegin(withLock)`, `StopJoined` | `SecureMsgDisable` (`withLock`: `cs_smsg` held) or `SecureMsgShutdown` alone: clear `fSecMsgEnabled`, join |
| `SecureMsgEnable`, `CrashRestart` | a new start; a crash keeps the queue database and loses memory |

### `SmsgPowHash`: the nonce search and its check

`digest` is an arbitrary function from nonce to the bytes the target tests, chosen in `Init`. Every digest function over `0..MaxNonce` is explored.
- `SetHashStep` is one pass of the `for (;;)` loop of `SecureMsgSetHash`.
- `SetHashReturn` is its return.
- `Shutdown` clears `fSecMsgEnabled` at any point.
- `SetHashReturn` sets the header's hash field to the digest of the nonce last written (the `memcpy` of `sha256Hash`).

`Complement32` models C's `~` on the promoted int. 16 bits are enough because `& 7` follows.

### `SmsgStoreScan`: the store with `SecureMsgScanBuckets`

`SmsgStoreScan` extends `SmsgStore`. `SecureMsgScanBuckets` is one step: every bucket file except the `_wl` files is read under `cs_smsg`, passed to `SecureMsgScanMessage` and then removed, and `smsgBuckets` is left alone. The inbox writes of the scan are not part of this model. `NextWithScan` is the store's `Next` plus this call.

### `SmsgReceiveBunch`: parsing a peer's `smsgMsg`

`SmsgReceiveBunch` models one call of `SecureMsgReceive` byte offset by byte offset, for a buffer `vchData` of `size` bytes sent by a peer.
- `Reject` is the early returns: fewer than 12 bytes, `bktTime` out of the window, or a bunch count of 0 or above 500 (with a `Misbehaving` point).
- `Start` sets `n = 12`.
- `NotEnoughData` is the `vchData.size() - n < SMSG_HDR_LEN` break. `SizeSub` computes the subtraction modulo `SizeMod`, because it is done in `size_t`.
- `Invalid` and `Valid` read the header at `n` and call `SecureMsgValidate`, whose results (4, 5, 3, 2, 0, in the code's order) are `ValidateRv`.
  - A rejected record scores the peer and `continue`s with `n` unchanged.
  - A valid one is stored, which may fail and break the loop, and `n` advances by the header and its declared payload.
- `LoopEnd` leaves the loop after `nBunch` records.

A header's fields are the peer's choice and stay the same when the same offset is read again. A header validates only if its payload lies within the buffer, because proof of work and checksum are computed over bytes the peer cannot choose beyond it. `readEnd` is the furthest byte any of these reads touches. The bucket unlock and rehash after the loop belong to `SmsgSync`'s `ReceiveMsg`.

### `SmsgWalletScan`: scanning with the wallet locked

`wl` is the part of the `_wl` file that `SecureMsgWalletUnlocked` has not yet read past. A read takes its head, and an append puts a record at its end.
- `ReceiveMsg` is `SecureMsgReceive` storing and scanning under `cs_smsg`.
- `ScanBegin`, `ScanRead`, `ScanEof` and `ScanRemove` are `SecureMsgWalletUnlocked`: test `IsLocked`, lock `cs_smsg`, read and scan each record, reach the end, remove the file and unlock.
- `LockWallet` and `UnlockWallet` are the host wallet, which is not under `src/`. The wallet may be locked at any time, during a rescan included. An unlock starts a rescan. `MaxUnlocks` bounds the unlocks.

### `SmsgWalletScanPow`: the PoW thread's scan beside the rescan

`SmsgWalletScanPow` extends `SmsgWalletScan` with the PoW thread's own messages. `PowStore`, `PowScan` and `PowAppend` are its store under `cs_smsg`, then `SecureMsgScanMessage`'s `IsLocked` test and `SecureMsgStoreUnscanned`'s append, both without `cs_smsg`. Every step of `SmsgWalletScan` leaves the PoW thread where it is.

Every modelled message is addressed to this node.

## Runs

| Run | Config | Expect | Shows |
|-----|--------|--------|-------|
| `store_restart` | `SmsgStore_restart.cfg` | pass | `TypeOK` and `IndexFaithful` hold for 3 messages, up to 3 stores, 2 restarts and the slot ageing: every token in the index reads back its own record at its offset, before and after a restart reloads the file. |
| `pow_drain` | `SmsgPow_drain.cfg` | pass | `TypeOK` and `QueueDrains` hold under fairness of the PoW thread, with address reuse and crashes: every queued envelope leaves the queue while messaging stays enabled. |
| `pow_sent_lost` | `SmsgPow_sent_lost.cfg` | violation | `SentNotLost` fails in 3 states. Two sends in one second get the same freed payload address, so they share a queue key (line 3043) and the second overwrites the first. A crash between `EraseSmesg` (line 286) and the store loses an envelope the same way. |
| `pow_disable_hang` | `SmsgPow_disable_hang.cfg` | violation | `DisableCompletes` fails. The PoW thread has erased an envelope and waits for `cs_smsg`, while `SecureMsgDisable` holds `cs_smsg` and joins it. |
| `powhash_target` | `SmsgPowHash_target.cfg` | violation | `SolvedMeetsSpecTarget` fails with byte 29 = 1. `SecureMsgSetHash` and `SecureMsgValidate` accept a digest when any of the three low bits of byte 29 is clear (lines 2672, 2743); the spec requires all three to be zero. |
| `wl_safety` | `SmsgWalletScan_safety.cfg` | pass | `NotLost` holds when only the network thread (under `cs_smsg`) scans: every stored message is in the inbox or still in the `_wl` file, even when the wallet is locked again during a rescan. |
| `wl_relock_hang` | `SmsgWalletScan_relock_hang.cfg` | violation | `ScanCompletes` fails with a lasso. With the wallet locked again during a rescan, each record read is appended back to the file being read (line 1956). The rescan never ends and holds `cs_smsg`. |
| `store_scan_buckets` | `SmsgStoreScan_rescan.cfg` | violation | `IndexFaithful` fails after a single store and a call of `SecureMsgScanBuckets` (3 states). The rescan scans each bucket file and then deletes it, under a comment that speaks of `_wl` files (line 1825). `smsgBuckets` still lists the messages, but `SecureMsgRetrieve` can no longer read them, and they are gone after the next start. |
| `receive_overread` | `SmsgReceiveBunch_overread.cfg` | violation | `ReadsInBuffer` fails in 3 states. A 14-byte `smsgMsg` holds one header that exactly fills the bytes after the prefix, and the header declares a 1-byte payload. The size check at line 2405 passes, and `SecureMsgValidate` hashes the payload (line 2667) from past the end of `vchData`. `nPayload` is bounded only by `SMSG_MAX_MSG_WORST`, so any peer can make the node read that much heap beyond the buffer. |

The `SmsgSync` runs are listed above.

### Disagreements reached by changing a constant

These are recorded as hazards in `PROJECT.json` and were checked by hand with the setting shown; none is kept as a run.
- `SmsgStore` with `TornWrites = TRUE`, `MaxRestarts = 1`: `IndexFaithful` fails. After a partial `fwrite` (line 2607) and a restart, the load yields a token whose payload is incomplete.
- `SmsgStore` with `PayloadLens = {1, 2}`: `IndexFaithful` fails. A message with `nPayload < 8` is stored but not reloaded (line 437). The spec says the loader skips `nPayload - 8`.
- `SmsgWalletScanPow` under `INIT InitWithPow`, `NEXT NextWithPow`, `INVARIANT NotLostWithPow`: it fails. The PoW thread sees the wallet locked and scans without `cs_smsg` (line 306). Its append to the `_wl` file lands after the rescan has read to the end of the file and before the file is removed, so the message is lost.

### Bounds
- `SmsgStore`:
  - three messages, so that a record can follow another one;
  - payload lengths 2 and 3, so that both sample and skip occur;
  - `MaxWrites = 3`, `MaxRestarts = 2`.
- `SmsgPow`:
  - two messages, two addresses and two seconds (`MaxTime = 1`): enough for two sends in one second, and for one send in each second;
  - `MaxRestarts = 1`.
- `SmsgPowHash`: three nonces, with all 32 digest values each.
- `SmsgWalletScan`:
  - three messages;
  - `MaxUnlocks = 2`.
- `SmsgReceiveBunch`:
  - `HdrLen = 2` and `MaxPayload = 3` stand for `SMSG_HDR_LEN` and `SMSG_MAX_MSG_WORST`;
  - buffers of up to 20 bytes and bunches of up to 2 records. This is enough for two records that fit, a record whose payload runs past the end, and a header that does not fit;
  - `SizeMod = 1024` stands for 2^64. Any modulus larger than the buffer gives the same comparisons.

### Fairness
- `SmsgPow`: weak fairness of every step of the PoW thread and of the join. Sending, the clock, Disable, Enable and crashes are user or environment events and are not forced.
- `SmsgWalletScan`: weak fairness of the rescan's steps; `SmsgWalletScanPow` adds the PoW thread's scan and append. Once begun, each runs to its next step: the network thread and the PoW thread are never parked except on `cs_smsg`. Receiving, locking and unlocking are not forced.
- `SmsgSync`, `SmsgStore`, `SmsgPowHash` and `SmsgReceiveBunch` are checked for safety only and assume no fairness.

## Not modelled, and why
1. The outbox key reuses the payload pointer (line 3115). The outbox has no reader in `smessage.cpp`. The same key bug is modelled on the send queue (`ReuseAddrs`), where it loses a message (`pow_sent_lost`).
2. `SmsgSync` models one bucket and honest peers. It leaves out:
   - `smsgDisabled` and the `fSecMsgEnabled` short-circuit;
   - several buckets at once;
   - a peer's malformed bunch releasing another peer's lock (line 2397). That is a hazard without a run.
3. The sweeper thread's join in `SecureMsgShutdown`. The PoW thread's join, which is the one that can hang, is in `SmsgPow`.
4. The inbox side of `SecureMsgScanBuckets`.
5. The open of the send-queue database failing in `SecureMsgSend` (line 3063): `SecMsgDB::Open` is not under `src/`, so whether it can fail there is not modelled. It is a hazard without a run.
6. The repeated validation of a rejected record in `SecureMsgReceive` (line 2424). `SmsgReceiveBunch` reaches it, but no run checks it, because every run slot is taken.

The crypto envelope (`SecureMsgEncrypt`/`Decrypt`), the LZ4 and XXH32 code, and the address/ini/pubkey registry are pure data transformation or host I/O. They are left out.
