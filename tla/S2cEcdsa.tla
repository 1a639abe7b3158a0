------------------------------ MODULE S2cEcdsa ------------------------------
(***************************************************************************)
(* The reference arithmetic of ECDSA anti-exfil (crypto.py) over a curve   *)
(* y^2 = x^3 + 7 of any size: points, scalars, the nonce stream, the tweak *)
(* and its overflow, low-S signatures and their verification.              *)
(*                                                                         *)
(* A byte string of 32 is a number below Bytes32, and 32 bytes can hold    *)
(* more than a coordinate, a coordinate more than a scalar, as on          *)
(* secp256k1.  The hash functions are parameters.  h names one choice of   *)
(* them, so that a model may range over choices.  A CryptoModelError is    *)
(* the value Invalid.                                                      *)
(***************************************************************************)
EXTENDS Integers, Sequences

CONSTANTS
    FieldP,               \* FIELD_P
    GroupN,               \* GROUP_N
    Generator,            \* GENERATOR
    Bytes32,              \* 2^256: how many byte strings of 32 there are
    Invalid,              \* what an operation that raises yields
    Skipped,              \* what a nonce candidate yields that signing passes over
    DataHash(_),          \* tagged_hash(DATA_TAG, rho)
    PointHash(_, _, _),   \* tagged_hash(POINT_TAG, opening + rho), for h
    NonceBlocks(_, _, _, _)   \* for h: the first blocks of _rfc6979_stream(keydata)

ASSUME CurveAssumption ==
    /\ {FieldP, GroupN, Bytes32} \subseteq Nat
    /\ 7 < GroupN /\ GroupN < FieldP /\ FieldP < Bytes32

\* Both moduli are odd primes: scalars have inverses, coordinates at most two square roots.
ASSUME PrimeAssumption ==
    /\ \A v \in 1..(GroupN - 1) : \E w \in 1..(GroupN - 1) : (v * w) % GroupN = 1
    /\ \A y, z \in 0..(FieldP - 1) :
          (y * y) % FieldP = (z * z) % FieldP => y = z \/ y + z = FieldP
    /\ FieldP % 2 = 1

-----------------------------------------------------------------------------
(***************************************************************************)
(* Points                                                                  *)
(***************************************************************************)

Infinity == [x |-> -1, y |-> -1]     \* None

OnCurve(x, y) == (y * y - (x * x * x + 7)) % FieldP = 0

Point == {q \in [x : 0..(FieldP - 1), y : 0..(FieldP - 1)] : OnCurve(q.x, q.y)} \union {Infinity}

ModInverse(value, modulus) == CHOOSE w \in 1..(modulus - 1) : (value * w) % modulus = 1

PointAdd(left, right) ==
    LET slope == (IF left.x = right.x
                  THEN (3 * left.x * left.x) * ModInverse(2 * left.y, FieldP)
                  ELSE (right.y - left.y) * ModInverse((right.x - left.x) % FieldP, FieldP)) % FieldP
        x == (slope * slope - left.x - right.x) % FieldP
    IN  IF left = Infinity THEN right
        ELSE IF right = Infinity THEN left
        ELSE IF left.x = right.x /\ (left.y + right.y) % FieldP = 0 THEN Infinity
        ELSE [x |-> x, y |-> (slope * (left.x - x) - left.y) % FieldP]

\* The loop of point_mul from its last bit on: double the addend, add it at each odd scalar.
DoubleAndAdd[factors \in (0..(GroupN - 1)) \X Point] ==
    LET scalar == factors[1]
        q      == factors[2]
        rest   == DoubleAndAdd[<<scalar \div 2, PointAdd(q, q)>>]
    IN  IF scalar = 0 THEN Infinity
        ELSE IF scalar % 2 = 1 THEN PointAdd(q, rest) ELSE rest

PointMul(scalar, q) == DoubleAndAdd[<<scalar % GroupN, q>>]

\* The points form a commutative group, in which the generator has order GroupN.
ASSUME GroupAssumption ==
    /\ Generator \in Point \ {Infinity}
    /\ \A p, q \in Point : PointAdd(p, q) \in Point /\ PointAdd(p, q) = PointAdd(q, p)
    /\ \A p, q, t \in Point : PointAdd(PointAdd(p, q), t) = PointAdd(p, PointAdd(q, t))
    /\ PointAdd(PointMul(GroupN - 1, Generator), Generator) = Infinity
    /\ Invalid \notin Point \union 0..(GroupN - 1)

\* A prefix for the parity of y, then x.
SerializePoint(q) == (IF q.y % 2 = 1 THEN 3 ELSE 2) * Bytes32 + q.x

ParsePoint(encoded) ==
    LET x == encoded % Bytes32
        roots == {y \in 0..(FieldP - 1) : OnCurve(x, y) /\ y % 2 = (encoded \div Bytes32) % 2}
    IN  IF encoded \div Bytes32 \in {2, 3} /\ x < FieldP /\ roots # {}
        THEN [x |-> x, y |-> CHOOSE y \in roots : TRUE]
        ELSE Invalid

PublicKey(secret) == SerializePoint(PointMul(secret, Generator))

-----------------------------------------------------------------------------
(***************************************************************************)
(* Signing and verifying                                                   *)
(***************************************************************************)

HostCommit(rho) == DataHash(rho)

\* The candidates at their places among the blocks.
NonceCandidates(h, secret, hash, data) ==
    LET blocks == NonceBlocks(h, secret, hash % GroupN, data)
    IN  [i \in {i \in DOMAIN blocks : 1 <= blocks[i] /\ blocks[i] < GroupN} |-> blocks[i]]

FirstOf(places) == CHOOSE i \in places : \A j \in places : i <= j

FirstCandidate(h, secret, hash, data) ==
    LET candidates == NonceCandidates(h, secret, hash, data)
    IN  candidates[FirstOf(DOMAIN candidates)]

\* (Fault: the first block is the nonce, a candidate or not.)
SignerOpeningAnyBlock(h, secret, hash, commitment) ==
    SerializePoint(PointMul(Head(NonceBlocks(h, secret, hash % GroupN, commitment)), Generator))

\* The opening of the first candidate, whatever signing makes of it.
SignerOpening(h, secret, hash, commitment) ==
    SerializePoint(PointMul(FirstCandidate(h, secret, hash, commitment), Generator))

S2cTweak(h, opening, rho) ==
    LET tweak == PointHash(h, opening, rho)
    IN  IF tweak >= GroupN THEN Invalid ELSE tweak

LowS(s) == IF s > GroupN \div 2 THEN GroupN - s ELSE s

\* What anti_exfil_sign makes of one candidate: a signature, Invalid where it raises, or
\* Skipped where it goes on to the next candidate.
SignWith(h, secret, hash, rho, candidate) ==
    LET opening == PointMul(candidate, Generator)
        tweak == S2cTweak(h, SerializePoint(opening), rho)
        nonce == (candidate + tweak) % GroupN
        r == PointAdd(opening, PointMul(tweak, Generator)).x % GroupN
        s == (ModInverse(nonce, GroupN) * ((hash % GroupN) + r * secret)) % GroupN
    IN  IF tweak = Invalid THEN [signature |-> Invalid, opening |-> Invalid]
        ELSE IF nonce = 0 \/ r = 0 \/ s = 0 THEN [signature |-> Skipped, opening |-> Invalid]
        ELSE [signature |-> [r |-> r, s |-> LowS(s)], opening |-> SerializePoint(opening)]

AntiExfilSign(h, secret, hash, rho) ==
    LET candidates == NonceCandidates(h, secret, hash, HostCommit(rho))
        tries == [i \in DOMAIN candidates |-> SignWith(h, secret, hash, rho, candidates[i])]
        taken == {i \in DOMAIN tries : tries[i].signature # Skipped}
    IN  IF taken = {} THEN [signature |-> Invalid, opening |-> Invalid]
        ELSE tries[FirstOf(taken)]

EcdsaVerify(pubkey, hash, signature) ==
    LET inverse == ModInverse(signature.s, GroupN)
        check == PointAdd(PointMul((hash % GroupN) * inverse, Generator),
                          PointMul(signature.r * inverse, ParsePoint(pubkey)))
    IN  /\ ParsePoint(pubkey) # Invalid
        /\ signature.r \in 1..(GroupN - 1) /\ signature.s \in 1..(GroupN - 1)
        /\ check # Infinity /\ check.x % GroupN = signature.r

\* The nonce point that opening and rho commit the signer to.
CommittedPoint(h, rho, opening) ==
    PointAdd(ParsePoint(opening), PointMul(S2cTweak(h, opening, rho), Generator))

\* (Fault: the opening is taken for the whole nonce commitment.)
VerifyAntiExfilUntweaked(h, pubkey, hash, rho, opening, signature) ==
    /\ ParsePoint(opening) # Invalid
    /\ EcdsaVerify(pubkey, hash, signature)

VerifyAntiExfil(h, pubkey, hash, rho, opening, signature) ==
    /\ ParsePoint(opening) # Invalid
    /\ S2cTweak(h, opening, rho) # Invalid
    /\ CommittedPoint(h, rho, opening) # Infinity
    /\ CommittedPoint(h, rho, opening).x % GroupN = signature.r
    /\ EcdsaVerify(pubkey, hash, signature)
=============================================================================
