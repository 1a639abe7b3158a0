---------------------------- MODULE EnvelopeLink ----------------------------
(***************************************************************************)
(* One AEXT package on its way: a sender encodes it, its bytes may be      *)
(* damaged on the way, and the receiver decodes what arrives.              *)
(***************************************************************************)
EXTENDS TransportEnvelope

CONSTANTS
    Psbt,          \* what senders pass as PSBT bytes
    MaxDamage      \* bound: how often the bytes are damaged

VARIABLES
    reader,    \* whose decode the receiver calls
    sent,      \* the package object the sender encodes
    wire,      \* the bytes under way: Absent, a payload or Rejected
    damage,    \* how often they were damaged
    received   \* Absent before decode; then a package or Rejected

vars == <<reader, sent, wire, damage, received>>

ASSUME LinkAssumption ==
    /\ Psbt \subseteq Bytes
    /\ MaxDamage \in Nat

Init ==
    /\ reader \in {"rung_b", "v1"}
    /\ sent \in Packages(Psbt)
    /\ wire = Absent
    /\ damage = 0
    /\ received = Absent

Send ==
    /\ wire = Absent
    /\ wire' = Encode(sent)
    /\ UNCHANGED <<reader, sent, damage, received>>

Arrived == wire \notin {Absent, Rejected} /\ received = Absent

\* One field of the header is changed.
DamageHeader ==
    /\ Arrived /\ damage < MaxDamage
    /\ \/ wire' = [wire EXCEPT !.format = "other"]
       \/ \E n \in Network \ {wire.network} : wire' = [wire EXCEPT !.network = n]
       \/ \E s \in Stages \ {wire.stage} : wire' = [wire EXCEPT !.stage = s]
       \/ \E f \in (0..3) \ {wire.flags} : wire' = [wire EXCEPT !.flags = f]
       \/ \E k \in 0..(MaxMessageBytes + 1) \ {wire.message_len} :
             wire' = [wire EXCEPT !.message_len = k]
       \/ \E k \in 0..(MaxPsbtBytes + 1) \ {wire.psbt_len} :
             wire' = [wire EXCEPT !.psbt_len = k]
       \/ \E d \in {ZeroDigest} \cup {Sha256(b) : b \in Psbt} :
             /\ d # wire.digest
             /\ wire' = [wire EXCEPT !.digest = d]
    /\ damage' = damage + 1
    /\ UNCHANGED <<reader, sent, received>>

\* The message, the PSBT behind it or both are replaced, cut off or added; the header stays.
DamageBody ==
    /\ Arrived /\ damage < MaxDamage
    /\ \E m \in Message, b \in Psbt \cup {<<>>} :
          LET body == Encoding[m] \o b
          IN  body # wire.body /\ wire' = [wire EXCEPT !.body = body]
    /\ damage' = damage + 1
    /\ UNCHANGED <<reader, sent, received>>

Receive ==
    /\ Arrived
    /\ received' = Decode(reader, wire)
    /\ UNCHANGED <<reader, sent, wire, damage>>

Done == wire = Rejected \/ received # Absent

Next ==
    \/ Send \/ DamageHeader \/ DamageBody \/ Receive
    \/ Done /\ UNCHANGED vars

Spec == Init /\ [][Next]_vars

-----------------------------------------------------------------------------
(***************************************************************************)
(* Properties                                                              *)
(***************************************************************************)

Accepted == received \notin {Absent, Rejected}

\* Packages, bytes and results have their shape (transport.py, protocol_v1_transport.py).
TypeOK ==
    /\ reader \in {"rung_b", "v1"}
    /\ sent \in Packages(Psbt)
    /\ wire \in Payload \cup {Absent, Rejected}
    /\ damage \in 0..MaxDamage
    /\ received \in Packages(Bytes) \cup {Absent, Rejected}

\* Bytes have one reading: what a decoder accepts encodes to exactly the bytes it
\* read, also where the code does not compare them (TransportPackage.decode).
Canonical == Accepted => Encode(received) = wire

\* What was encoded and not damaged is read back as it was by its own protocol's decoder,
\* and refused by the other one.  An empty PSBT passes encode's checks as a present one
\* and leaves without its flag: both decoders refuse that package.
RoundTrip ==
    damage = 0 /\ received # Absent =>
        received = IF reader = sent.message.protocol /\ sent.psbt # <<>> THEN sent ELSE Rejected

\* One damage, to a header field or anywhere in the body, is refused, or leaves the PSBT and
\* the stage as they were and is one of two: another message as long as the one sent, which
\* no field of the package notices (the digest "detects substitution and corruption", docs/
\* transport-aext.md, section 2, of the PSBT alone; the protocol must catch the rest), or
\* another network around a rung B message, which names none.
DamageDetected ==
    damage = 1 /\ Accepted =>
        /\ PsbtBytes(received) = PsbtBytes(sent)
        /\ received.message.stage = sent.message.stage
        /\ \/ /\ received.message # sent.message /\ received.network = sent.network
              /\ Len(Encoding[received.message]) = Len(Encoding[sent.message])
           \/ /\ received.message = sent.message /\ received.network # sent.network
              /\ sent.message.protocol = "rung_b"

\* Whatever the bytes went through, a v1 package that is accepted carries the PSBT its
\* message names and its message's network, or no PSBT where the signer answers.
BoundToMessage ==
    Accepted /\ received.message.protocol = "v1" =>
        /\ received.network = received.message.network
        /\ received.psbt = Absent <=> ~RequiresPsbt(received.message)
        /\ received.psbt # Absent => Sha256(received.psbt) = received.message.psbt_digest
=============================================================================
