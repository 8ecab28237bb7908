---------------------------- MODULE SmsgPowHash ----------------------------
(***************************************************************************)
(* SecureMsgSetHash, the nonce search of the proof of work, and            *)
(* SecureMsgValidate, which a receiver runs on the result.                 *)
(*                                                                         *)
(* The HMAC-SHA256 digest of header and payload under a nonce is an       *)
(* arbitrary function of the nonce, fixed in Init.  Only the bytes the     *)
(* target tests are kept: byte 29 by its three low bits (the only ones    *)
(* tested), bytes 30 and 31 as zero or not.  The first four digest bytes  *)
(* (the header's hash field) are named by the nonce they come from; two    *)
(* nonces whose digests agree on them are not modelled.  The C expression *)
(* ~(sha256Hash[29]) promotes the byte to an int before ~.                  *)
(***************************************************************************)
EXTENDS Integers, Bitwise

CONSTANTS
    MaxNonce,   \* the last nonce tried (4294967295 in the code)
    None        \* no hash written yet

ASSUME MaxNonce \in Nat /\ None \notin 0..MaxNonce

VARIABLES
    digest,     \* nonce -> the digest bytes the target looks at
    nonce,      \* the loop counter
    hdrNonce,   \* psmsg->nonce
    hdrHash,    \* psmsg->hash: first 4 bytes of the digest of this nonce
    found,      \* the loop met the target
    pc,         \* "loop", "after" (the loop has ended), "done"
    rv,         \* return value of SecureMsgSetHash
    enabled     \* fSecMsgEnabled

vars == <<digest, nonce, hdrNonce, hdrHash, found, pc, rv, enabled>>

Nonces == 0..MaxNonce
Digest == [b29 : 0..7, b30 : 0..1, b31 : 0..1]

\* ~x on the int that x : uint8_t is promoted to.  The ones ~ puts above
\* bit 7 are cleared by the & 7 that follows, so 16 bits of the 32 suffice.
Complement32(x) == (2^16 - 1) - x

\* sha256Hash[31] == 0 && sha256Hash[30] == 0 && (~(sha256Hash[29]) & 7)
TargetMet(d) == d.b31 = 0 /\ d.b30 = 0 /\ (Complement32(d.b29) & 7) # 0

\* The counter kept when the target is met: the loop breaks before nonce++.
NonceAfterMatch(n) == n

Init ==
    /\ digest \in [Nonces -> Digest]
    /\ nonce = 0
    /\ hdrNonce = 0
    /\ hdrHash = None
    /\ found = FALSE
    /\ pc = "loop"
    /\ rv = None
    /\ enabled = TRUE

\* One pass of the for (;;) loop.
SetHashStep ==
    /\ pc = "loop"
    /\ IF ~enabled
       THEN pc' = "after" /\ UNCHANGED <<nonce, hdrNonce, found>>
       ELSE /\ hdrNonce' = nonce
            /\ IF TargetMet(digest[nonce])
               THEN /\ found' = TRUE /\ pc' = "after"
                    /\ nonce' = NonceAfterMatch(nonce)
               ELSE IF nonce >= MaxNonce
               THEN pc' = "after" /\ UNCHANGED <<nonce, found>>
               ELSE nonce' = nonce + 1 /\ UNCHANGED <<found, pc>>
    /\ UNCHANGED <<digest, hdrHash, rv, enabled>>

\* After the loop: 2 on shutdown, 1 when no nonce met the target, else the
\* first four bytes of sha256Hash, the digest of the nonce last written to
\* the header, go into psmsg->hash and it returns 0.
SetHashReturn ==
    /\ pc = "after"
    /\ pc' = "done"
    /\ IF ~enabled THEN rv' = 2 /\ UNCHANGED hdrHash
       ELSE IF ~found THEN rv' = 1 /\ UNCHANGED hdrHash
       ELSE rv' = 0 /\ hdrHash' = hdrNonce
    /\ UNCHANGED <<digest, nonce, hdrNonce, found, enabled>>

\* SecureMsgShutdown clears fSecMsgEnabled while the search runs.
Shutdown ==
    /\ enabled
    /\ pc # "done"
    /\ enabled' = FALSE
    /\ UNCHANGED <<digest, nonce, hdrNonce, hdrHash, found, pc, rv>>

Next == SetHashStep \/ SetHashReturn \/ Shutdown

Spec == Init /\ [][Next]_vars

-----------------------------------------------------------------------------
\* The spec's target: bits 0..2 of digest byte 29 are all zero
\* (~d[29] & 0b111 == 0b111), with bytes 30 and 31 zero.
SpecTargetMet(d) == d.b31 = 0 /\ d.b30 = 0 /\ (Complement32(d.b29) & 7) = 7

\* Every envelope SecureMsgSetHash solves (returns 0 for) has a digest
\* meeting the target the spec states; the code's test at line 2743 (the
\* same as SecureMsgValidate's at 2672) is the one in TargetMet.
SolvedMeetsSpecTarget ==
    (pc = "done" /\ rv = 0) => SpecTargetMet(digest[hdrNonce])
=============================================================================
