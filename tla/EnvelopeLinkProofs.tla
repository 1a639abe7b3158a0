------------------------- MODULE EnvelopeLinkProofs -------------------------
(***************************************************************************)
(* Theorems about the AEXT package: what a decoder accepts has one         *)
(* encoding, what was encoded is read back, and an accepted v1 package     *)
(* carries what its message names.                                         *)
(***************************************************************************)
EXTENDS EnvelopeLink, SequenceTheorems, TLAPS

-----------------------------------------------------------------------------
(***************************************************************************)
(* The codec                                                               *)
(***************************************************************************)

\* A body splits at the length of its message.
LEMMA Split ==
    ASSUME NEW body \in Bytes, NEW k \in Nat, k <= Len(body)
    PROVE  /\ SubSeq(body, k + 1, Len(body)) \in Bytes
           /\ Len(SubSeq(body, k + 1, Len(body))) = Len(body) - k
           /\ SubSeq(body, 1, k) \o SubSeq(body, k + 1, Len(body)) = body
<1>1. /\ SubSeq(body, k + 1, Len(body)) \in Bytes
      /\ Len(SubSeq(body, k + 1, Len(body))) = Len(body) - k
  BY DEF Bytes
<1>2. SubSeq(body, 1, k) \o SubSeq(body, k + 1, Len(body)) = SubSeq(body, 1, Len(body))
  <2>1. body \in Seq(Octet) /\ 1 \in 1..Len(body) + 1 /\ k \in 1 - 1..Len(body)
        /\ Len(body) \in k..Len(body)
    BY DEF Bytes
  <2> QED
    BY <2>1, ConcatAdjacentSubSeq
<1>3. SubSeq(body, 1, Len(body)) = body
  BY SubSeqFull DEF Bytes
<1> QED
  BY <1>1, <1>2, <1>3

\* A joined body splits into what it was joined from.
LEMMA Join ==
    ASSUME NEW p \in Bytes, NEW q \in Bytes
    PROVE  /\ p \o q \in Bytes /\ Len(p \o q) = Len(p) + Len(q)
           /\ SubSeq(p \o q, 1, Len(p)) = p
           /\ SubSeq(p \o q, Len(p) + 1, Len(p \o q)) = q
  BY DEF Bytes

\* A decoder that does not refuse has read some message.
LEMMA DecodeReads ==
    ASSUME NEW protocol, NEW x, Decode(protocol, x) # Rejected
    PROVE  \E m \in Message : ReadsAs(protocol, x, m) /\ Decode(protocol, x) = Unpacked(x, m)
<1> DEFINE m == CHOOSE m \in Message : ReadsAs(protocol, x, m)
<1>1. \E n \in Message : ReadsAs(protocol, x, n)
  BY DEF Decode
<1>2. m \in Message /\ ReadsAs(protocol, x, m)
  BY <1>1
<1>3. Decode(protocol, x) = Unpacked(x, m)
  BY <1>1 DEF Decode
<1> QED
  BY <1>2, <1>3

\* The PSBT of an accepted payload is as long as its header says.
LEMMA PsbtRead ==
    ASSUME NEW protocol, NEW x \in Payload, NEW m \in Message, ReadsAs(protocol, x, m)
    PROVE  /\ PsbtPart(x) \in Bytes /\ Len(PsbtPart(x)) = x.psbt_len
           /\ MessagePart(x) \o PsbtPart(x) = x.body
           /\ x.flags = 0 => PsbtPart(x) = <<>>
           /\ x.flags = 1 => PsbtPart(x) # <<>>
           /\ x.flags \in {0, 1}
<1>1. /\ x.body \in Bytes /\ x.message_len \in Nat /\ x.psbt_len \in Nat
      /\ Len(x.body) = x.message_len + x.psbt_len
      /\ x.flags \in {0, 1} /\ (x.flags = 1 <=> x.psbt_len # 0)
  BY DEF ReadsAs, HeaderValid, Payload
<1>2. Len(x.body) \in Nat /\ x.message_len <= Len(x.body)
  BY <1>1 DEF Bytes
<1>3. /\ PsbtPart(x) \in Bytes /\ Len(PsbtPart(x)) = x.psbt_len
      /\ MessagePart(x) \o PsbtPart(x) = x.body
  <2> DEFINE body == x.body
             k == x.message_len
  <2>1. body \in Bytes /\ k \in Nat /\ k <= Len(body) /\ Len(body) - k = x.psbt_len
    BY <1>1, <1>2
  <2> HIDE DEF body, k
  <2>2. /\ SubSeq(body, k + 1, Len(body)) \in Bytes
        /\ Len(SubSeq(body, k + 1, Len(body))) = Len(body) - k
        /\ SubSeq(body, 1, k) \o SubSeq(body, k + 1, Len(body)) = body
    BY <2>1, Split
  <2> QED
    BY <2>1, <2>2 DEF PsbtPart, MessagePart, body, k
<1>4. PsbtPart(x) = <<>> <=> x.psbt_len = 0
  <2>1. PsbtPart(x) \in Seq(Octet) /\ Len(PsbtPart(x)) = x.psbt_len
    BY <1>3 DEF Bytes
  <2> QED
    BY <2>1, EmptySeq
<1> QED
  BY <1>1, <1>3, <1>4

\* The message of an accepted payload is as long as its header says.
LEMMA MessageRead ==
    ASSUME NEW protocol, NEW x \in Payload, NEW m \in Message, ReadsAs(protocol, x, m)
    PROVE  Len(MessagePart(x)) = x.message_len
<1>1. Len(x.body) = x.message_len + x.psbt_len /\ x.body \in Bytes
      /\ x.message_len \in Nat /\ x.psbt_len \in Nat
  BY DEF ReadsAs, HeaderValid, Payload
<1>2. x.message_len <= Len(x.body)
  BY <1>1 DEF Bytes
<1> QED
  BY <1>1, <1>2 DEF MessagePart, Bytes

\* TransportPackage.decode does not compare the bytes it re-encodes: they are the same.
LEMMA ReadingIsCanonical ==
    ASSUME NEW protocol, NEW x \in Payload, NEW m \in Message, ReadsAs(protocol, x, m)
    PROVE  Encode(Unpacked(x, m)) = x
<1> DEFINE p == Unpacked(x, m)
<1>1. /\ PsbtPart(x) \in Bytes /\ Len(PsbtPart(x)) = x.psbt_len
      /\ MessagePart(x) \o PsbtPart(x) = x.body /\ x.flags \in {0, 1}
      /\ x.flags = 0 => PsbtPart(x) = <<>>
      /\ x.flags = 1 => PsbtPart(x) # <<>>
  BY PsbtRead
<1>2. PsbtBytes(p) = PsbtPart(x)
  BY <1>1, EnvelopeAssumption DEF PsbtBytes, Unpacked
<1>3. p.message = m /\ p.network = x.network
  BY DEF Unpacked
<1>4. x.format = "AEXT1" /\ x.stage = m.stage /\ Encoding[m] = MessagePart(x)
  BY DEF ReadsAs, HeaderValid, Embeds
<1>5. x.message_len = Len(Encoding[m])
  BY <1>4, MessageRead
<1>6. x.digest = IF PsbtPart(x) = <<>> THEN ZeroDigest ELSE Sha256(PsbtPart(x))
  BY <1>1 DEF ReadsAs, DigestValid
<1>7. x.flags = IF PsbtPart(x) = <<>> THEN 0 ELSE 1
  BY <1>1
<1>8. x = [format |-> x.format, network |-> x.network, stage |-> x.stage, flags |-> x.flags,
           message_len |-> x.message_len, psbt_len |-> x.psbt_len, digest |-> x.digest,
           body |-> x.body]
  BY DEF Payload
<1>9. Packed(p) = x
  <2> HIDE DEF p
  <2>1. Packed(p) = [format |-> "AEXT1", network |-> x.network, stage |-> m.stage,
                     flags |-> IF PsbtPart(x) = <<>> THEN 0 ELSE 1,
                     message_len |-> Len(Encoding[m]), psbt_len |-> Len(PsbtPart(x)),
                     digest |-> IF PsbtPart(x) = <<>> THEN ZeroDigest ELSE Sha256(PsbtPart(x)),
                     body |-> Encoding[m] \o PsbtPart(x)]
    BY <1>2, <1>3 DEF Packed
  <2> QED
    BY <1>1, <1>4, <1>5, <1>6, <1>7, <1>8, <2>1
<1> QED
  BY <1>9 DEF Encode, ReadsAs

\* The parts of an encoded package are its message and its PSBT.
LEMMA EncodedParts ==
    ASSUME NEW p \in Packages(Bytes)
    PROVE  LET x == Packed(p)
           IN  /\ p.message \in Message /\ p.network \in Network
               /\ PsbtBytes(p) \in Bytes /\ Encoding[p.message] \in Bytes
               /\ MessagePart(x) = Encoding[p.message] /\ PsbtPart(x) = PsbtBytes(p)
               /\ Len(x.body) = x.message_len + x.psbt_len
<1>1. p.message \in Message /\ p.network \in Network /\ p.psbt \in Bytes \cup {Absent}
  BY DEF Packages
<1>2. PsbtBytes(p) \in Bytes /\ Encoding[p.message] \in Bytes
  BY <1>1, EnvelopeAssumption DEF PsbtBytes, Bytes
<1> QED
  BY <1>1, <1>2, Join DEF Packed, MessagePart, PsbtPart

LEMMA EncodedIsUnpacked ==
    ASSUME NEW p \in Packages(Bytes), p.psbt # <<>>
    PROVE  Unpacked(Packed(p), p.message) = p
<1> DEFINE x == Packed(p)
<1>1. PsbtPart(x) = PsbtBytes(p)
  BY EncodedParts
<1>2. x.network = p.network /\ (x.flags = 1 <=> PsbtBytes(p) # <<>>)
  BY DEF Packed
<1>3. p = [message |-> p.message, network |-> p.network, psbt |-> p.psbt]
  BY DEF Packages
<1>4. p.psbt = IF x.flags = 1 THEN PsbtPart(x) ELSE Absent
  BY <1>1, <1>2 DEF PsbtBytes
<1> HIDE DEF x
<1>5. Unpacked(x, p.message) = p
  BY <1>2, <1>3, <1>4 DEF Unpacked
<1> QED
  BY <1>5 DEF x

\* What encode has written is read back by the decoder of the same protocol, and by no
\* other.
LEMMA EncodedIsRead ==
    ASSUME NEW p \in Packages(Bytes), Encodable(p), p.psbt # <<>>,
           NEW protocol, NEW m \in Message
    PROVE  ReadsAs(protocol, Packed(p), m) <=> m = p.message /\ protocol = m.protocol
<1> DEFINE x == Packed(p)
<1>1. /\ p.message \in Message /\ p.network \in Network
      /\ PsbtBytes(p) \in Bytes /\ Encoding[p.message] \in Bytes
      /\ MessagePart(x) = Encoding[p.message] /\ PsbtPart(x) = PsbtBytes(p)
      /\ Len(x.body) = x.message_len + x.psbt_len
  BY EncodedParts
<1>2. ReadsAs(protocol, x, m) => m = p.message /\ protocol = m.protocol
  BY <1>1, EnvelopeAssumption DEF ReadsAs, Embeds
<1>3. ASSUME m = p.message, protocol = m.protocol
      PROVE  ReadsAs(protocol, x, m)
  <2>1. HeaderValid(x)
    <3>1. Len(PsbtBytes(p)) # 0 <=> PsbtBytes(p) # <<>>
      BY <1>1, EmptySeq DEF Bytes
    <3>2. /\ x.format = "AEXT1" /\ x.message_len = Len(Encoding[p.message])
          /\ x.psbt_len = Len(PsbtBytes(p))
          /\ x.flags = IF PsbtBytes(p) = <<>> THEN 0 ELSE 1
      BY DEF Packed
    <3> QED
      BY <1>1, <3>1, <3>2, EnvelopeAssumption DEF HeaderValid, Encodable
  <2>2. DigestValid(x)
    BY <1>1 DEF DigestValid, Packed
  <2>3. Embeds(protocol, x, m)
    BY <1>1, <1>3 DEF Embeds, Packed, Packages
  <2>4. Unpacked(x, m) = p
    BY <1>3, EncodedIsUnpacked
  <2> QED
    BY <2>1, <2>2, <2>3, <2>4 DEF ReadsAs
<1> QED
  BY <1>2, <1>3

\* A package with an empty PSBT leaves without one, at a stage that needs one.
LEMMA EmptyPsbtIsUnread ==
    ASSUME NEW p \in Packages(Bytes), Encodable(p), p.psbt = <<>>,
           NEW protocol, NEW m \in Message
    PROVE  ~ReadsAs(protocol, Packed(p), m)
<1> DEFINE x == Packed(p)
<1> SUFFICES ASSUME ReadsAs(protocol, x, m) PROVE FALSE
  OBVIOUS
<1>1. MessagePart(x) = Encoding[p.message] /\ p.message \in Message
  BY EncodedParts
<1>2. m = p.message
  BY <1>1, EnvelopeAssumption DEF ReadsAs, Embeds
<1>3. RequiresPsbt(p.message)
  <2>1. <<>> \in Bytes
    BY EmptySeq DEF Bytes
  <2> QED
    BY <2>1, EnvelopeAssumption DEF Encodable
<1>4. x.flags = 0
  BY DEF Packed, PsbtBytes
<1>5. Unpacked(x, m).psbt = Absent /\ Unpacked(x, m).message = m
  BY <1>4 DEF Unpacked
<1> QED
  BY <1>2, <1>3, <1>5 DEF ReadsAs, Encodable

-----------------------------------------------------------------------------
(***************************************************************************)
(* The link                                                                *)
(***************************************************************************)

\* The inductive invariant: what was received is what the decoder makes of the bytes on
\* the wire, which are the encoder's until they are damaged.
LinkInv ==
    /\ TypeOK
    /\ received # Absent => wire \in Payload /\ received = Decode(reader, wire)
    /\ wire # Absent /\ damage = 0 => wire = Encode(sent)

LEMMA EncodeType ==
    ASSUME NEW p \in Packages(Bytes)
    PROVE  Encode(p) \in Payload \cup {Rejected}
<1>1. p.message \in Message /\ p.network \in Network /\ p.psbt \in Bytes \cup {Absent}
  BY DEF Packages
<1>2. PsbtBytes(p) \in Bytes /\ Encoding[p.message] \in Bytes /\ p.message.stage \in Stages
  BY <1>1, EnvelopeAssumption DEF PsbtBytes, Bytes
<1>3. /\ Len(PsbtBytes(p)) \in Nat /\ Len(Encoding[p.message]) \in Nat
      /\ Encoding[p.message] \o PsbtBytes(p) \in Bytes
  BY <1>2, Join DEF Bytes
<1>4. ZeroDigest \in Seq(Bytes) /\ Sha256(PsbtBytes(p)) \in Seq(Bytes)
  BY <1>2 DEF ZeroDigest, Sha256
<1>5. Packed(p) \in Payload
  BY <1>1, <1>2, <1>3, <1>4 DEF Packed, Payload
<1> QED
  BY <1>5 DEF Encode

LEMMA DecodeType ==
    ASSUME NEW protocol, NEW x \in Payload
    PROVE  Decode(protocol, x) \in Packages(Bytes) \cup {Rejected}
<1>1. CASE Decode(protocol, x) # Rejected
  <2>1. PICK m \in Message : ReadsAs(protocol, x, m) /\ Decode(protocol, x) = Unpacked(x, m)
    BY <1>1, DecodeReads
  <2>2. PsbtPart(x) \in Bytes /\ x.network \in Network
    BY <2>1, PsbtRead DEF Payload
  <2>3. m.protocol = "v1" => x.network = m.network
    BY <2>1 DEF ReadsAs, Embeds
  <2> QED
    BY <2>1, <2>2, <2>3 DEF Unpacked, Packages
<1> QED
  BY <1>1

LEMMA LinkInit == Init => LinkInv
<1> SUFFICES ASSUME Init PROVE LinkInv
  OBVIOUS
<1>1. sent \in Packages(Psbt) /\ reader \in {"rung_b", "v1"}
      /\ wire = Absent /\ damage = 0 /\ received = Absent
  BY DEF Init
<1> QED
  BY <1>1, LinkAssumption DEF LinkInv, TypeOK

\* What senders pass are package objects.
LEMMA SentPackage == ASSUME TypeOK PROVE sent \in Packages(Bytes)
  BY LinkAssumption DEF TypeOK, Packages

\* A damaged body consists of bytes.
LEMMA BodyReplaced ==
    ASSUME NEW m \in Message, NEW b \in Psbt \cup {<<>>}
    PROVE  Encoding[m] \o b \in Bytes
<1>1. Encoding[m] \in Bytes
  BY EnvelopeAssumption
<1>2. b \in Bytes
  <2>1. <<>> \in Bytes
    BY EmptySeq DEF Bytes
  <2> QED
    BY <2>1, LinkAssumption
<1> QED
  BY <1>1, <1>2, Join

\* Damaged bytes are a payload again.
LEMMA DamagedType ==
    ASSUME TypeOK, DamageHeader \/ DamageBody
    PROVE  wire \in Payload /\ wire' \in Payload
<1>1. wire \in Payload
  BY DEF DamageHeader, DamageBody, Arrived, TypeOK
<1>2. CASE DamageHeader
  <2>1. \A b \in Psbt : Sha256(b) \in Seq(Bytes)
    BY LinkAssumption DEF Sha256
  <2>2. ZeroDigest \in Seq(Bytes)
    BY DEF ZeroDigest
  <2>3. /\ [wire EXCEPT !.format = "other"] \in Payload
        /\ \A n \in Network : [wire EXCEPT !.network = n] \in Payload
        /\ \A k \in Stages : [wire EXCEPT !.stage = k] \in Payload
    BY <1>1 DEF Payload
  <2>4. /\ \A k \in 0..3 : [wire EXCEPT !.flags = k] \in Payload
        /\ \A k \in Nat : [wire EXCEPT !.message_len = k] \in Payload
        /\ \A k \in Nat : [wire EXCEPT !.psbt_len = k] \in Payload
    BY <1>1 DEF Payload
  <2>5. \A d \in Seq(Bytes) : [wire EXCEPT !.digest = d] \in Payload
    BY <1>1 DEF Payload
  <2>6. 0..MaxMessageBytes + 1 \subseteq Nat /\ 0..MaxPsbtBytes + 1 \subseteq Nat
    BY EnvelopeAssumption
  <2>7. {ZeroDigest} \cup {Sha256(b) : b \in Psbt} \subseteq Seq(Bytes)
    BY <2>1, <2>2
  <2> QED
    BY <1>1, <1>2, <2>3, <2>4, <2>5, <2>6, <2>7 DEF DamageHeader
<1>3. CASE DamageBody
  <2>1. PICK body \in Bytes : wire' = [wire EXCEPT !.body = body]
    BY <1>3, BodyReplaced DEF DamageBody
  <2> QED
    BY <1>1, <2>1 DEF Payload
<1> QED
  BY <1>2, <1>3

LEMMA LinkStep == LinkInv /\ [Next]_vars => LinkInv'
<1> SUFFICES ASSUME LinkInv, [Next]_vars
             PROVE  LinkInv'
  OBVIOUS
<1>1. TypeOK /\ sent \in Packages(Bytes)
  BY SentPackage DEF LinkInv
<1>2. CASE UNCHANGED vars
  BY <1>2 DEF LinkInv, TypeOK, vars
<1>3. CASE Send
  <2>1. wire' = Encode(sent) /\ wire = Absent /\ UNCHANGED <<reader, sent, damage, received>>
    BY <1>3 DEF Send
  <2>2. wire' \in Payload \cup {Absent, Rejected}
    BY <1>1, <2>1, EncodeType
  <2>3. TypeOK'
    BY <1>1, <2>1, <2>2 DEF TypeOK
  <2>4. received = Absent
    BY <2>1, EnvelopeAssumption DEF LinkInv
  <2> QED
    BY <2>1, <2>3, <2>4 DEF LinkInv
<1>4. ASSUME Arrived, damage < MaxDamage, damage' = damage + 1,
             UNCHANGED <<reader, sent, received>>, wire' \in Payload
      PROVE  LinkInv'
  <2>1. received' = Absent
    BY <1>4 DEF Arrived
  <2>2. damage' \in 0..MaxDamage /\ damage' # 0
    BY <1>1, <1>4, LinkAssumption DEF TypeOK
  <2>3. TypeOK'
    BY <1>1, <1>4, <2>2 DEF TypeOK
  <2> QED
    BY <2>1, <2>2, <2>3 DEF LinkInv
<1>5. CASE DamageHeader
  BY <1>1, <1>4, <1>5, DamagedType DEF DamageHeader
<1>6. CASE DamageBody
  BY <1>1, <1>4, <1>6, DamagedType DEF DamageBody
<1>7. CASE Receive
  <2>1. /\ wire \in Payload /\ received' = Decode(reader, wire)
        /\ UNCHANGED <<reader, sent, wire, damage>>
    BY <1>1, <1>7 DEF Receive, Arrived, TypeOK
  <2>2. received' \in Packages(Bytes) \cup {Rejected}
    BY <2>1, DecodeType
  <2>3. TypeOK'
    BY <1>1, <2>1, <2>2 DEF TypeOK
  <2> QED
    BY <2>1, <2>3 DEF LinkInv
<1> QED
  BY <1>2, <1>3, <1>5, <1>6, <1>7 DEF Next

THEOREM LinkInvHolds == Spec => []LinkInv
  BY LinkInit, LinkStep, PTL DEF Spec

-----------------------------------------------------------------------------
(***************************************************************************)
(* The theorems                                                            *)
(***************************************************************************)

\* Packages, bytes and results have their shape, for any messages, octets and limits.
THEOREM TypeCorrect == Spec => []TypeOK
<1>1. LinkInv => TypeOK
  BY DEF LinkInv
<1> QED
  BY <1>1, LinkInvHolds, PTL

\* What was read, in terms of the reading.
LEMMA AcceptedIsRead ==
    ASSUME LinkInv, Accepted
    PROVE  /\ wire \in Payload
           /\ \E m \in Message : ReadsAs(reader, wire, m) /\ received = Unpacked(wire, m)
  BY DecodeReads DEF LinkInv, Accepted

\* Whatever was damaged, accepted bytes are the one encoding of what was read
\* (TransportPackage.decode does not compare them).
THEOREM CanonicalReading == Spec => []Canonical
<1>1. LinkInv => Canonical
  BY AcceptedIsRead, ReadingIsCanonical DEF Canonical
<1> QED
  BY <1>1, LinkInvHolds, PTL

\* Undamaged bytes are read back by their own protocol and refused by the other.
THEOREM ReadBack == Spec => []RoundTrip
<1>1. ASSUME LinkInv, damage = 0, received # Absent
      PROVE  received = IF reader = sent.message.protocol /\ sent.psbt # <<>>
                        THEN sent ELSE Rejected
  <2>1. sent \in Packages(Bytes) /\ sent.message \in Message
    BY <1>1, SentPackage DEF LinkInv, Packages
  <2>2. wire \in Payload /\ received = Decode(reader, wire) /\ wire = Encode(sent)
    BY <1>1, EnvelopeAssumption DEF LinkInv
  <2>3. Encodable(sent) /\ wire = Packed(sent)
    BY <2>2, EnvelopeAssumption DEF Encode
  <2>4. \A m \in Message : ReadsAs(reader, wire, m) <=>
           m = sent.message /\ reader = m.protocol /\ sent.psbt # <<>>
    BY <2>1, <2>3, EncodedIsRead, EmptyPsbtIsUnread
  <2>5. CASE ~(reader = sent.message.protocol /\ sent.psbt # <<>>)
    BY <2>2, <2>4, <2>5 DEF Decode
  <2>6. CASE reader = sent.message.protocol /\ sent.psbt # <<>>
    <3>1. received = Unpacked(wire, sent.message)
      BY <2>1, <2>2, <2>4, <2>6 DEF Decode
    <3>2. Unpacked(wire, sent.message) = sent
      BY <2>1, <2>3, <2>6, EncodedIsUnpacked
    <3> QED
      BY <2>6, <3>1, <3>2
  <2> QED
    BY <2>5, <2>6
<1>2. LinkInv => RoundTrip
  BY <1>1 DEF RoundTrip
<1> QED
  BY <1>2, LinkInvHolds, PTL

\* An accepted v1 package carries the network and exactly the PSBT its message names.
THEOREM MessageBinds == Spec => []BoundToMessage
<1>1. ASSUME LinkInv, Accepted, received.message.protocol = "v1"
      PROVE  /\ received.network = received.message.network
             /\ received.psbt = Absent <=> ~RequiresPsbt(received.message)
             /\ received.psbt # Absent => Sha256(received.psbt) = received.message.psbt_digest
  <2>1. PICK m \in Message : ReadsAs(reader, wire, m) /\ received = Unpacked(wire, m)
    BY <1>1, AcceptedIsRead
  <2>2. wire \in Payload
    BY <1>1, AcceptedIsRead
  <2>3. received.message = m /\ received.network = wire.network
    BY <2>1 DEF Unpacked
  <2>4. m.network = wire.network /\ Encodable(received)
    BY <1>1, <2>1, <2>3 DEF ReadsAs, Embeds
  <2>5. received.psbt # Absent => received.psbt = PsbtPart(wire) /\ PsbtPart(wire) # <<>>
    BY <2>1, <2>2, PsbtRead DEF Unpacked
  <2> QED
    BY <1>1, <2>3, <2>4, <2>5 DEF Encodable, PsbtBytes
<1>2. LinkInv => BoundToMessage
  BY <1>1 DEF BoundToMessage
<1> QED
  BY <1>2, LinkInvHolds, PTL
-----------------------------------------------------------------------------
(***************************************************************************)
(* One damage                                                              *)
(***************************************************************************)

\* Bytes x are the payload y with one field of the header changed.
HeaderChanged(x, y) ==
    \/ x = [y EXCEPT !.format = "other"]
    \/ \E n \in Network \ {y.network} : x = [y EXCEPT !.network = n]
    \/ \E s \in Stages \ {y.stage} : x = [y EXCEPT !.stage = s]
    \/ \E f \in (0..3) \ {y.flags} : x = [y EXCEPT !.flags = f]
    \/ \E k \in Nat \ {y.message_len} : x = [y EXCEPT !.message_len = k]
    \/ \E k \in Nat \ {y.psbt_len} : x = [y EXCEPT !.psbt_len = k]
    \/ \E d \in Seq(Bytes) \ {y.digest} : x = [y EXCEPT !.digest = d]

\* Bytes x are the payload y with another body.
BodyChanged(x, y) == \E body \in Bytes \ {y.body} : x = [y EXCEPT !.body = body]

\* The inductive invariant: bytes damaged once are the encoder's but for one part.
DamageInv ==
    /\ LinkInv
    /\ damage = 1 =>
          /\ wire \in Payload /\ Encodable(sent)
          /\ HeaderChanged(wire, Packed(sent)) \/ BodyChanged(wire, Packed(sent))

\* Behind an unchanged header a decoder reads the PSBT that was sent, and with another body
\* another message of the same stage and length.
LEMMA BodyChangeRead ==
    ASSUME NEW p \in Packages(Bytes), NEW x \in Payload, BodyChanged(x, Packed(p)),
           NEW protocol, NEW m \in Message, ReadsAs(protocol, x, m)
    PROVE  /\ m # p.message /\ m.stage = p.message.stage
           /\ Len(Encoding[m]) = Len(Encoding[p.message])
           /\ x.network = p.network
           /\ PsbtPart(x) = PsbtBytes(p) /\ (x.flags = 1 <=> PsbtBytes(p) # <<>>)
<1> DEFINE y == Packed(p)
<1>1. /\ y.network = p.network /\ y.stage = p.message.stage
      /\ y.message_len = Len(Encoding[p.message])
      /\ y.body = Encoding[p.message] \o PsbtBytes(p)
      /\ y.flags = IF PsbtBytes(p) = <<>> THEN 0 ELSE 1
      /\ y.digest = IF PsbtBytes(p) = <<>> THEN ZeroDigest ELSE Sha256(PsbtBytes(p))
  BY DEF Packed
<1>2. /\ x.message_len = y.message_len /\ x.flags = y.flags /\ x.digest = y.digest
      /\ x.network = y.network /\ x.stage = y.stage /\ x.body # y.body
  BY DEF BodyChanged, Packed
<1> HIDE DEF y
<1>3. /\ MessagePart(x) \o PsbtPart(x) = x.body
      /\ x.flags = 0 => PsbtPart(x) = <<>>
      /\ x.flags = 1 => PsbtPart(x) # <<>>
  BY PsbtRead
<1>4. /\ Encoding[m] = MessagePart(x) /\ m.stage = x.stage
      /\ x.digest = IF x.flags = 1 THEN Sha256(PsbtPart(x)) ELSE ZeroDigest
  BY DEF ReadsAs, Embeds, DigestValid
<1>5. PsbtPart(x) = PsbtBytes(p)
  <2>1. CASE PsbtBytes(p) = <<>>
    BY <1>1, <1>2, <1>3, <2>1
  <2>2. CASE PsbtBytes(p) # <<>>
    <3>1. Sha256(PsbtPart(x)) = Sha256(PsbtBytes(p))
      BY <1>1, <1>2, <1>4, <2>2
    <3> QED
      BY <3>1 DEF Sha256
  <2> QED
    BY <2>1, <2>2
<1>6. Len(Encoding[m]) = x.message_len
  BY <1>4, MessageRead
<1>7. m # p.message
  <2> SUFFICES ASSUME m = p.message PROVE FALSE
    OBVIOUS
  <2>1. x.body = Encoding[p.message] \o PsbtBytes(p)
    BY <1>3, <1>4, <1>5
  <2> QED
    BY <1>1, <1>2, <2>1
<1> QED
  BY <1>1, <1>2, <1>4, <1>5, <1>6, <1>7

\* Of the header, only the network of a rung B package can change unnoticed.
LEMMA HeaderChangeRefused ==
    ASSUME NEW p \in Packages(Bytes), Encodable(p), NEW x \in Payload,
           HeaderChanged(x, Packed(p)), NEW protocol, NEW m \in Message, ReadsAs(protocol, x, m)
    PROVE  /\ m = p.message /\ m.protocol = "rung_b"
           /\ x.network # p.network
           /\ PsbtPart(x) = PsbtBytes(p) /\ (x.flags = 1 <=> PsbtBytes(p) # <<>>)
<1> DEFINE y == Packed(p)
<1>1. /\ p.message \in Message /\ p.network \in Network
      /\ PsbtBytes(p) \in Bytes /\ Encoding[p.message] \in Bytes
      /\ MessagePart(y) = Encoding[p.message] /\ PsbtPart(y) = PsbtBytes(p)
      /\ Len(y.body) = y.message_len + y.psbt_len
  BY EncodedParts
<1>2. /\ y.format = "AEXT1" /\ y.network = p.network /\ y.stage = p.message.stage
      /\ y.message_len = Len(Encoding[p.message]) /\ y.psbt_len = Len(PsbtBytes(p))
      /\ y.flags = IF PsbtBytes(p) = <<>> THEN 0 ELSE 1
      /\ y.digest = IF PsbtBytes(p) = <<>> THEN ZeroDigest ELSE Sha256(PsbtBytes(p))
  BY DEF Packed
<1>3. y.psbt_len # 0 <=> PsbtBytes(p) # <<>>
  BY <1>1, <1>2, EmptySeq DEF Bytes
<1>4. y.message_len \in Nat /\ y.psbt_len \in Nat
  BY <1>1, <1>2 DEF Bytes
<1>5. /\ x.format = "AEXT1" /\ x.flags \in {0, 1}
      /\ Len(x.body) = x.message_len + x.psbt_len
      /\ x.flags = 1 <=> x.psbt_len # 0
      /\ x.digest = IF x.flags = 1 THEN Sha256(PsbtPart(x)) ELSE ZeroDigest
      /\ Encoding[m] = MessagePart(x) /\ m.stage = x.stage /\ m.protocol = protocol
      /\ protocol = "v1" => m.network = x.network
  BY DEF ReadsAs, HeaderValid, DigestValid, Embeds
<1>6. /\ x.body = y.body
      /\ \/ x.format = "other"
         \/ x.network # y.network /\ x.stage = y.stage /\ x.flags = y.flags
            /\ x.message_len = y.message_len
         \/ x.stage # y.stage /\ x.message_len = y.message_len
         \/ x.flags # y.flags /\ x.psbt_len = y.psbt_len
         \/ x.message_len # y.message_len /\ x.psbt_len = y.psbt_len
         \/ x.psbt_len # y.psbt_len /\ x.message_len = y.message_len
         \/ x.digest # y.digest /\ x.flags = y.flags /\ x.message_len = y.message_len
  BY DEF HeaderChanged, Packed
<1>7. x.message_len = y.message_len => m = p.message
  BY <1>1, <1>5, <1>6, EnvelopeAssumption DEF MessagePart
<1>8. x.message_len = y.message_len => PsbtPart(x) = PsbtBytes(p)
  BY <1>1, <1>6 DEF PsbtPart
<1>9. x.message_len \in Nat /\ x.psbt_len \in Nat
  BY DEF Payload
<1> HIDE DEF y
<1>10. ~(x.format = "other")
  BY <1>5
<1>11. ~(x.stage # y.stage /\ x.message_len = y.message_len)
  BY <1>2, <1>5, <1>7
<1>12. ~(x.flags # y.flags /\ x.psbt_len = y.psbt_len)
  BY <1>2, <1>3, <1>5
<1>13. /\ ~(x.message_len # y.message_len /\ x.psbt_len = y.psbt_len)
       /\ ~(x.psbt_len # y.psbt_len /\ x.message_len = y.message_len)
  <2>1. x.message_len + x.psbt_len = y.message_len + y.psbt_len
    BY <1>1, <1>5, <1>6
  <2> QED
    BY <1>4, <1>9, <2>1
<1>14. ~(x.digest # y.digest /\ x.flags = y.flags /\ x.message_len = y.message_len)
  BY <1>2, <1>5, <1>8
<1>15. /\ x.network # y.network /\ x.flags = y.flags /\ x.message_len = y.message_len
  BY <1>6, <1>10, <1>11, <1>12, <1>13, <1>14
<1>16. m = p.message /\ PsbtPart(x) = PsbtBytes(p)
  BY <1>7, <1>8, <1>15
<1>17. m.protocol # "v1"
  BY <1>2, <1>5, <1>15, <1>16 DEF Packages
<1>18. m.protocol \in {"rung_b", "v1"}
  BY EnvelopeAssumption
<1> QED
  BY <1>2, <1>15, <1>16, <1>17, <1>18

LEMMA DamageStep == DamageInv /\ [Next]_vars => DamageInv'
<1> SUFFICES ASSUME DamageInv, [Next]_vars
             PROVE  DamageInv'
  OBVIOUS
<1>1. LinkInv /\ LinkInv' /\ TypeOK
  BY LinkStep DEF DamageInv, LinkInv
<1>2. CASE UNCHANGED vars
  BY <1>1, <1>2 DEF DamageInv, vars
<1>3. CASE Send
  BY <1>1, <1>3, EnvelopeAssumption DEF DamageInv, Send
<1>4. CASE Receive
  BY <1>1, <1>4 DEF DamageInv, Receive
<1>5. ASSUME Arrived, damage' = 1, damage' = damage + 1
      PROVE  Encodable(sent) /\ wire = Packed(sent)
  <2>1. damage = 0
    BY <1>1, <1>5, LinkAssumption DEF TypeOK
  <2> QED
    BY <1>1, <1>5, <2>1 DEF LinkInv, Arrived, Encode
<1>6. \A b \in Psbt : Sha256(b) \in Seq(Bytes)
  BY LinkAssumption DEF Sha256
<1>7. CASE DamageHeader
  <2> SUFFICES ASSUME damage' = 1
               PROVE  (/\ wire \in Payload /\ Encodable(sent)
                       /\ HeaderChanged(wire, Packed(sent)) \/ BodyChanged(wire, Packed(sent)))'
    BY <1>1 DEF DamageInv
  <2>1. Encodable(sent) /\ wire = Packed(sent) /\ sent' = sent
    BY <1>5, <1>7 DEF DamageHeader
  <2>2. wire' \in Payload
    BY <1>1, <1>7, DamagedType
  <2>3. 0..MaxMessageBytes + 1 \subseteq Nat /\ 0..MaxPsbtBytes + 1 \subseteq Nat
    BY EnvelopeAssumption
  <2>4. {ZeroDigest} \cup {Sha256(b) : b \in Psbt} \subseteq Seq(Bytes)
    <3>1. ZeroDigest \in Seq(Bytes)
      BY DEF ZeroDigest
    <3> QED
      BY <1>6, <3>1
  <2>5. HeaderChanged(wire', wire)
    BY <1>7, <2>3, <2>4 DEF DamageHeader, HeaderChanged
  <2> QED
    BY <2>1, <2>2, <2>5
<1>8. CASE DamageBody
  <2> SUFFICES ASSUME damage' = 1
               PROVE  (/\ wire \in Payload /\ Encodable(sent)
                       /\ HeaderChanged(wire, Packed(sent)) \/ BodyChanged(wire, Packed(sent)))'
    BY <1>1 DEF DamageInv
  <2>1. Encodable(sent) /\ wire = Packed(sent) /\ sent' = sent
    BY <1>5, <1>8 DEF DamageBody
  <2>2. wire' \in Payload
    BY <1>1, <1>8, DamagedType
  <2>3. PICK m \in Message, b \in Psbt \cup {<<>>} :
           Encoding[m] \o b # wire.body /\ wire' = [wire EXCEPT !.body = Encoding[m] \o b]
    BY <1>8 DEF DamageBody
  <2>4. BodyChanged(wire', wire)
    BY <2>3, BodyReplaced DEF BodyChanged
  <2> QED
    BY <2>1, <2>2, <2>4
<1> QED
  BY <1>2, <1>3, <1>4, <1>7, <1>8 DEF Next

\* One damage, to a header field or to any part of the body, is refused but for another
\* message of the same stage and length, and for the network of a rung B package; the PSBT
\* is never another, for any messages, bodies and limits (docs/transport-aext.md, section 2).
THEOREM DamageNoticed == Spec => []DamageDetected
<1>1. Init => DamageInv
  BY LinkInit DEF DamageInv, Init
<1>2. DamageInv => DamageDetected
  <2> SUFFICES ASSUME DamageInv, damage = 1, Accepted PROVE DamageDetected
    BY DEF DamageDetected
  <2>1. /\ LinkInv /\ wire \in Payload /\ Encodable(sent)
        /\ HeaderChanged(wire, Packed(sent)) \/ BodyChanged(wire, Packed(sent))
    BY DEF DamageInv
  <2>2. sent \in Packages(Bytes)
    BY <2>1, SentPackage DEF LinkInv
  <2>3. PICK m \in Message : ReadsAs(reader, wire, m) /\ received = Unpacked(wire, m)
    BY <2>1, AcceptedIsRead
  <2>4. received.message = m /\ received.network = wire.network
    BY <2>3 DEF Unpacked
  <2>5. ASSUME PsbtPart(wire) = PsbtBytes(sent), wire.flags = 1 <=> PsbtBytes(sent) # <<>>
        PROVE  PsbtBytes(received) = PsbtBytes(sent)
    <3>1. PsbtPart(wire) \in Bytes
      BY <2>1, <2>3, PsbtRead
    <3> QED
      BY <2>3, <2>5, <3>1, EnvelopeAssumption DEF Unpacked, PsbtBytes
  <2>6. CASE HeaderChanged(wire, Packed(sent))
    <3>1. /\ m = sent.message /\ m.protocol = "rung_b" /\ wire.network # sent.network
          /\ PsbtPart(wire) = PsbtBytes(sent) /\ (wire.flags = 1 <=> PsbtBytes(sent) # <<>>)
      BY <2>1, <2>2, <2>3, <2>6, HeaderChangeRefused
    <3> QED
      BY <2>4, <2>5, <3>1 DEF DamageDetected
  <2>7. CASE BodyChanged(wire, Packed(sent))
    <3>1. /\ m # sent.message /\ m.stage = sent.message.stage
          /\ Len(Encoding[m]) = Len(Encoding[sent.message]) /\ wire.network = sent.network
          /\ PsbtPart(wire) = PsbtBytes(sent) /\ (wire.flags = 1 <=> PsbtBytes(sent) # <<>>)
      BY <2>1, <2>2, <2>3, <2>7, BodyChangeRead
    <3> QED
      BY <2>4, <2>5, <3>1 DEF DamageDetected
  <2> QED
    BY <2>1, <2>6, <2>7
<1> QED
  BY <1>1, <1>2, DamageStep, PTL DEF Spec
=============================================================================
