------------------------- MODULE TransportEnvelope -------------------------
(***************************************************************************)
(* The AEXT package (transport.py, TransportPackage, and                   *)
(* protocol_v1_transport.py, ProtocolV1Package): a header, one protocol    *)
(* message and, at the stages the host sends, the PSBT.                    *)
(*                                                                         *)
(* The two classes write the same bytes around different messages.  Rung B *)
(* messages name no network and no PSBT; protocol v1 messages name both,   *)
(* and the v1 package must agree with them.                                *)
(***************************************************************************)
EXTENDS Naturals, Sequences

CONSTANTS
    Message,           \* messages: records with protocol, stage, network, psbt_digest
                       \* and what else distinguishes them
    Encoding,          \* the canonical bytes of each message (its encode)
    Network,           \* network codes, those of v1 included
    RungBNetwork,      \* TransportNetwork, which has no testnet4
    Octet,             \* bytes
    PsbtMagic,         \* what a PSBT begins with
    MaxMessageBytes,
    MaxPsbtBytes,
    Absent,
    Rejected           \* the call raised AntiExfilError

Stages == 1..4

Bytes == Seq(Octet)

\* SHA-256 is injective and has no preimage of 32 zero bytes.
Sha256(bytes) == <<bytes>>
ZeroDigest    == <<>>

\* Package objects; the network of a v1 package is a property, its message's network.
Packages(psbts) ==
    {p \in [message : Message, network : Network, psbt : psbts \cup {Absent}] :
        p.message.protocol = "v1" => p.network = p.message.network}

\* Payloads with a complete header: version and magic are one field.
Payload == [format : {"AEXT1", "other"}, network : Network, stage : Stages, flags : 0..3,
            message_len : Nat, psbt_len : Nat, digest : Seq(Bytes), body : Bytes]

ASSUME EnvelopeAssumption ==
    /\ \A m \in Message :
          /\ m.protocol \in {"rung_b", "v1"} /\ m.stage \in Stages
          /\ m.network \in Network \cup {Absent} /\ m.psbt_digest \in Seq(Bytes)
    /\ Encoding \in [Message -> Bytes]
    /\ \A m \in Message : Len(Encoding[m]) <= MaxMessageBytes
    /\ \A m, n \in Message : Encoding[m] = Encoding[n] => m = n
    /\ RungBNetwork \subseteq Network
    /\ Absent \notin Bytes \cup Payload /\ Rejected \notin Payload
    /\ MaxMessageBytes \in Nat /\ MaxPsbtBytes \in Nat

-----------------------------------------------------------------------------
(***************************************************************************)
(* encode                                                                  *)
(***************************************************************************)

RequiresPsbt(message) == message.stage \in {1, 3}

\* "psbt = self.psbt or b''": an empty PSBT counts as a present one until here.
PsbtBytes(p) == IF p.psbt = Absent THEN <<>> ELSE p.psbt

HasMagic(bytes) == Head(bytes) = PsbtMagic

\* (Fault: a v1 package carries whatever PSBT it is given.)
EncodableAnyPsbt(p) ==
    /\ RequiresPsbt(p.message) <=> p.psbt # Absent
    /\ Len(PsbtBytes(p)) <= MaxPsbtBytes
    /\ PsbtBytes(p) # <<>> => HasMagic(PsbtBytes(p))
    /\ p.message.protocol = "rung_b" => p.network \in RungBNetwork

\* The checks of encode.
Encodable(p) ==
    /\ RequiresPsbt(p.message) <=> p.psbt # Absent
    /\ Len(PsbtBytes(p)) <= MaxPsbtBytes
    /\ PsbtBytes(p) # <<>> => HasMagic(PsbtBytes(p))
    /\ p.message.protocol = "rung_b" => p.network \in RungBNetwork
    /\ p.message.protocol = "v1" /\ PsbtBytes(p) # <<>> =>
          Sha256(PsbtBytes(p)) = p.message.psbt_digest

\* (Fault: the digest field takes the PSBT unhashed.)
PackedUnhashed(p) ==
    LET psbt == PsbtBytes(p)
    IN  [format      |-> "AEXT1",
         network     |-> p.network,
         stage       |-> p.message.stage,
         flags       |-> IF psbt = <<>> THEN 0 ELSE 1,
         message_len |-> Len(Encoding[p.message]),
         psbt_len    |-> Len(psbt),
         digest      |-> IF psbt = <<>> THEN ZeroDigest ELSE psbt,
         body        |-> Encoding[p.message] \o psbt]

Packed(p) ==
    LET psbt == PsbtBytes(p)
    IN  [format      |-> "AEXT1",
         network     |-> p.network,
         stage       |-> p.message.stage,
         flags       |-> IF psbt = <<>> THEN 0 ELSE 1,
         message_len |-> Len(Encoding[p.message]),
         psbt_len    |-> Len(psbt),
         digest      |-> IF psbt = <<>> THEN ZeroDigest ELSE Sha256(psbt),
         body        |-> Encoding[p.message] \o psbt]

Encode(p) == IF Encodable(p) THEN Packed(p) ELSE Rejected

-----------------------------------------------------------------------------
(***************************************************************************)
(* decode                                                                  *)
(***************************************************************************)

MessagePart(x) == SubSeq(x.body, 1, x.message_len)

\* (Fault: the slice starts one byte early.)
PsbtPartEarly(x) == SubSeq(x.body, x.message_len, Len(x.body))

PsbtPart(x) == SubSeq(x.body, x.message_len + 1, Len(x.body))

\* (Fault: the flag is not compared with the PSBT length.)
HeaderValidAnyFlag(x) ==
    /\ x.format = "AEXT1" /\ x.flags \in {0, 1}
    /\ x.message_len <= MaxMessageBytes /\ x.psbt_len <= MaxPsbtBytes
    /\ Len(x.body) = x.message_len + x.psbt_len

\* The checks on the header alone.
HeaderValid(x) ==
    /\ x.format = "AEXT1" /\ x.flags \in {0, 1}
    /\ x.message_len <= MaxMessageBytes /\ x.psbt_len <= MaxPsbtBytes
    /\ Len(x.body) = x.message_len + x.psbt_len
    /\ x.flags = 1 <=> x.psbt_len # 0

\* (Fault: the digest of the header is not recomputed.)
DigestValidUnread(x) == x.flags = 0 => x.digest = ZeroDigest

DigestValid(x) ==
    x.digest = IF x.flags = 1 THEN Sha256(PsbtPart(x)) ELSE ZeroDigest

\* decode_message of one protocol accepts exactly its canonical encodings, and the
\* header must repeat what the message says.
Embeds(protocol, x, m) ==
    /\ m.protocol = protocol /\ Encoding[m] = MessagePart(x)
    /\ m.stage = x.stage
    /\ protocol = "v1" => m.network = x.network

Unpacked(x, m) ==
    [message |-> m, network |-> x.network, psbt |-> IF x.flags = 1 THEN PsbtPart(x) ELSE Absent]

\* Both classes encode what they have read before they return it: rung B for the
\* checks of encode, v1 also to compare the bytes.
ReadsAs(protocol, x, m) ==
    /\ HeaderValid(x) /\ DigestValid(x) /\ Embeds(protocol, x, m)
    /\ Encodable(Unpacked(x, m))
    /\ protocol = "v1" => Packed(Unpacked(x, m)) = x

Decode(protocol, x) ==
    IF \E m \in Message : ReadsAs(protocol, x, m)
    THEN Unpacked(x, CHOOSE m \in Message : ReadsAs(protocol, x, m))
    ELSE Rejected
=============================================================================
