--------------------------- MODULE AntiExfilCrypto ---------------------------
(***************************************************************************)
(* The cryptographic functions the host and the signer apply to a slot     *)
(* (crypto.py).  Hashes are injective and a verified, low-S signature is   *)
(* determined by what it signs and by its nonce, so each of these is the   *)
(* record of its arguments.                                                *)
(***************************************************************************)
CONSTANT
    Absent    \* what an optional field of a message or a state holds when it is None

HostCommit(rho) == [commits |-> rho]

\* The signer's nonce point R0.  The reference derives it by RFC 6979 from the
\* key, the hash and the commitment alone, which is variant 0; the other
\* variants are the points of a signer that derives it in any other way.
NoncePoint(key, hash, commitment, variant) ==
    [key |-> key, hash |-> hash, commitment |-> commitment, variant |-> variant]

\* A signature whose nonce is the opening tweaked by the host's rho, or the bare
\* opening if rho is Absent.
AntiExfilSignature(key, hash, rho, opening) ==
    [key |-> key, hash |-> hash, rho |-> rho, opening |-> opening]

\* (Fault: plain ECDSA verification, the nonce is not looked at.)
VerifyEcdsaOnly(key, hash, rho, opening, signature) ==
    signature.key = key /\ signature.hash = hash

VerifyAntiExfil(key, hash, rho, opening, signature) ==
    signature = AntiExfilSignature(key, hash, rho, opening)
=============================================================================
