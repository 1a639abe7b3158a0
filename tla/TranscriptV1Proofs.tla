------------------------- MODULE TranscriptV1Proofs -------------------------
(***************************************************************************)
(* Proofs about protocol v1 in the code's own data, for every PSBT, curve, *)
(* choice of hash functions, limit and damage.  The enumerations of        *)
(* PsbtV1: the host's by fingerprint leaves out two checks that the root's *)
(* makes, and neither is missed.  The wire of ProtocolV1Codec: each        *)
(* message has one encoding and each accepted wire one reading.  The       *)
(* session of TranscriptV1: what is signed is what the root's owner would  *)
(* enumerate, with the openings of message 2 (SignedSlots).  The           *)
(* arithmetic of S2cEcdsa: the host accepts what an honest signer signs.   *)
(* With all of these, the session in which nothing goes wrong: it is       *)
(* refused only where it must be (HonestNotRefused).  And the meaning of a *)
(* message in ProtocolV1, where slots are known by identifier: whatever    *)
(* arrives is read, and judged, as that protocol does (OneReading).        *)
(***************************************************************************)
EXTENDS TranscriptV1, SequenceLemmas, FiniteSetTheorems

-----------------------------------------------------------------------------
(***************************************************************************)
(* The enumerations                                                        *)
(***************************************************************************)

\* A supported script has no more keys than _parse_multisig lets through.
LEMMA SigningKeysBounded ==
    ASSUME NEW scope, WellFormed(scope)
    PROVE  IsFiniteSet(SigningKeys(scope)) /\ Cardinality(SigningKeys(scope)) <= MaxMultisigKeys
<1> DEFINE program == Program(scope)
           keys == scope.witness_script.keys
           declared == {key \in DOMAIN scope.bip32_derivations : P2wpkh(key) = program}
           wpkh == program.type = "p2wpkh" /\ scope.witness_script = Absent
           wsh == /\ program.type = "p2wsh" /\ scope.witness_script # Absent
                  /\ program = P2wsh(scope.witness_script)
                  /\ ParsesAsMultisig(scope.witness_script)
<1>1. ASSUME SigningKeys(scope) = {}
      PROVE  IsFiniteSet(SigningKeys(scope)) /\ Cardinality(SigningKeys(scope)) <= MaxMultisigKeys
  <2>1. IsFiniteSet({}) /\ Cardinality({}) = 0  BY FS_EmptySet
  <2> QED  BY <1>1, <2>1, MultisigAssumption
<1>2. ASSUME SigningKeys(scope) = declared, declared # {}
      PROVE  IsFiniteSet(SigningKeys(scope)) /\ Cardinality(SigningKeys(scope)) <= MaxMultisigKeys
  <2>1. PICK key \in declared : TRUE  BY <1>2
  <2>2. \A other \in declared : other = key
    <3>1. \A other \in declared : P2wpkh(other).key = P2wpkh(key).key  OBVIOUS
    <3> QED  BY <3>1 DEF P2wpkh
  <2>3. declared = {key}  BY <2>1, <2>2
  <2>4. IsFiniteSet({key}) /\ Cardinality({key}) = 1  BY FS_Singleton
  <2> QED  BY <1>2, <2>3, <2>4, MultisigAssumption
<1>3. ASSUME SigningKeys(scope) = ToSet(keys), wsh
      PROVE  IsFiniteSet(SigningKeys(scope)) /\ Cardinality(SigningKeys(scope)) <= MaxMultisigKeys
  <2>1. keys \in Seq(Int)  BY <1>3 DEF WellFormed
  <2>2. Len(keys) \in Nat /\ DOMAIN keys = 1..Len(keys)  BY <2>1
  <2>3. Len(keys) <= MaxMultisigKeys  BY <1>3 DEF ParsesAsMultisig
  <2>4. keys \in Surjection(1..Len(keys), ToSet(keys))
    <3>1. keys \in [1..Len(keys) -> ToSet(keys)]  BY <2>1, <2>2 DEF ToSet
    <3>2. \A k \in ToSet(keys) : \E n \in 1..Len(keys) : keys[n] = k  BY <2>2 DEF ToSet
    <3> QED  BY <3>1, <3>2 DEF Surjection
  <2>5. IsFiniteSet(1..Len(keys)) /\ Cardinality(1..Len(keys)) = Len(keys)
    BY <2>2, FS_Interval
  <2>6. IsFiniteSet(ToSet(keys)) /\ Cardinality(ToSet(keys)) <= Cardinality(1..Len(keys))
    BY <2>4, <2>5, FS_Surjection
  <2>7. Cardinality(ToSet(keys)) \in Nat  BY <2>6, FS_CardinalityType
  <2> QED  BY <1>3, <2>2, <2>3, <2>5, <2>6, <2>7, MultisigAssumption
<1>4. \/ SigningKeys(scope) = {}
      \/ SigningKeys(scope) = declared
      \/ SigningKeys(scope) = ToSet(keys) /\ wsh
  BY DEF SigningKeys
<1> QED  BY <1>1, <1>2, <1>3, <1>4

\* The slots of one input are no more than the keys of its script.
LEMMA SlotsOfInputBounded ==
    ASSUME NEW parsed, NEW fingerprint, NEW i \in DOMAIN parsed,
           WellFormed(parsed[i]), Supported(parsed[i])
    PROVE  Cardinality({slot \in SlotsOf(parsed, fingerprint) : slot.input_index = i})
               <= MaxSlotsPerInput
<1> DEFINE keys == Controlled(parsed[i], fingerprint)
           SlotAt(key) == [input_index |-> i, signer_pubkey |-> key,
                           message_hash |-> parsed[i].sighash]
           here == {slot \in SlotsOf(parsed, fingerprint) : slot.input_index = i}
           f == [key \in keys |-> SlotAt(key)]
<1>1. IsFiniteSet(SigningKeys(parsed[i])) /\ Cardinality(SigningKeys(parsed[i])) <= MaxMultisigKeys
  BY SigningKeysBounded
<1>2. keys \subseteq SigningKeys(parsed[i])  BY DEF Supported, Controlled
<1>3. IsFiniteSet(keys) /\ Cardinality(keys) <= Cardinality(SigningKeys(parsed[i]))
  BY <1>1, <1>2, FS_Subset
<1>4. here = {SlotAt(key) : key \in keys}
  <2>1. \A slot \in here : slot \in {SlotAt(key) : key \in keys}
    BY DEF SlotsOf
  <2>2. \A slot \in {SlotAt(key) : key \in keys} : slot \in here
    BY DEF SlotsOf
  <2> QED  BY <2>1, <2>2
<1>5. f \in Surjection(keys, here)
  <2>1. f \in [keys -> here]  BY <1>4
  <2>2. \A slot \in here : \E key \in keys : f[key] = slot  BY <1>4
  <2> QED  BY <2>1, <2>2 DEF Surjection
<1>6. IsFiniteSet(here) /\ Cardinality(here) <= Cardinality(keys)
  BY <1>3, <1>5, FS_Surjection
<1>7. /\ Cardinality(here) \in Nat /\ Cardinality(keys) \in Nat
      /\ Cardinality(SigningKeys(parsed[i])) \in Nat
  BY <1>1, <1>3, <1>6, FS_CardinalityType
<1> QED  BY <1>1, <1>3, <1>6, <1>7, MultisigAssumption

\* The host enumerates by fingerprint alone and the signer by its root.  When every path
\* under that fingerprint derives the key it is declared for, both see the same slots and
\* refuse the same PSBTs: the limit per input, which only the signer looks at, never bites.
THEOREM EnumerationsAgree ==
    ASSUME NEW parsed, NEW root,
           \A i \in DOMAIN parsed : WellFormed(parsed[i]),
           PathsDerive(parsed, root)
    PROVE  EnumerateSigningSlots(parsed, root) = EnumerateForFingerprint(parsed, root.fingerprint)
<1>1. CASE \A i \in DOMAIN parsed : Supported(parsed[i])
  <2>1. \A i \in DOMAIN parsed :
            Cardinality({slot \in SlotsOf(parsed, root.fingerprint) : slot.input_index = i})
                <= MaxSlotsPerInput
    BY <1>1, SlotsOfInputBounded
  <2> QED  BY <2>1 DEF EnumerateSigningSlots, EnumerateForFingerprint
<1>2. CASE ~ \A i \in DOMAIN parsed : Supported(parsed[i])
  BY <1>2 DEF EnumerateSigningSlots, EnumerateForFingerprint
<1> QED  BY <1>1, <1>2

\* Whatever the derivations are worth, the signer never enumerates a slot the host would not
\* ask for, and what it enumerates is under its own fingerprint and derives from its root.
THEOREM SignerSlotsAreOwn ==
    ASSUME NEW parsed, NEW root, NEW slot \in EnumerateSigningSlots(parsed, root)
    PROVE  /\ slot \in EnumerateForFingerprint(parsed, root.fingerprint)
           /\ slot.input_index \in DOMAIN parsed
           /\ LET scope == parsed[slot.input_index]
              IN  /\ slot.signer_pubkey \in SigningKeys(scope) \ scope.partial_sigs
                  /\ ~scope.finalized
                  /\ Derives(root, scope.bip32_derivations[slot.signer_pubkey].path,
                             slot.signer_pubkey)
<1> DEFINE slots == SlotsOf(parsed, root.fingerprint)
           Checked == /\ \A i \in DOMAIN parsed :
                            /\ Supported(parsed[i])
                            /\ Unsigned(parsed[i], Controlled(parsed[i], root.fingerprint))
                      /\ PathsDerive(parsed, root)
                      /\ Cardinality(slots) <= MaxSlots
<1>1. slot \in slots /\ Checked  BY DEF EnumerateSigningSlots
<1>2. slot \in EnumerateForFingerprint(parsed, root.fingerprint)
  BY <1>1 DEF EnumerateForFingerprint
<1>3. PICK i \in DOMAIN parsed : \E key \in Controlled(parsed[i], root.fingerprint) :
          slot = [input_index |-> i, signer_pubkey |-> key, message_hash |-> parsed[i].sighash]
  BY <1>1 DEF SlotsOf
<1>4. slot.input_index = i /\ slot.signer_pubkey \in Controlled(parsed[i], root.fingerprint)
  BY <1>3
<1>5. slot.signer_pubkey \in SigningKeys(parsed[i])
  BY <1>1, <1>4 DEF Supported, Controlled
<1>6. slot.signer_pubkey \notin parsed[i].partial_sigs /\ ~parsed[i].finalized
  BY <1>1, <1>4 DEF Unsigned
<1>7. Derives(root, parsed[i].bip32_derivations[slot.signer_pubkey].path, slot.signer_pubkey)
  BY <1>1, <1>4 DEF PathsDerive
<1> QED  BY <1>2, <1>4, <1>5, <1>6, <1>7

-----------------------------------------------------------------------------
(***************************************************************************)
(* The wire: each valid message has one encoding, and each wire that is    *)
(* accepted is the encoding of what is read from it.                       *)
(***************************************************************************)

IsSequence(s) == s \in Seq(ToSet(s))

\* ProtocolV1Slot and ProtocolV1Message: their fields are all there is to them.
IsSlot(slot) ==
    /\ slot = [input_index |-> slot.input_index, sighash_type |-> slot.sighash_type,
               signer_pubkey |-> slot.signer_pubkey, message_hash |-> slot.message_hash,
               commitment |-> slot.commitment, opening |-> slot.opening, rho |-> slot.rho,
               signature |-> slot.signature]
    /\ slot.signature # Absent =>
          slot.signature = [r |-> slot.signature.r, s |-> slot.signature.s]

IsMessage(m) ==
    /\ m = [network |-> m.network, stage |-> m.stage, session_id |-> m.session_id,
            psbt_digest |-> m.psbt_digest, slots |-> m.slots]
    /\ IsSequence(m.slots)
    /\ \A n \in DOMAIN m.slots : IsSlot(m.slots[n])

\* Any function on an interval is a sequence.
LEMMA IsSequenceIff ==
    ASSUME NEW n \in Nat, NEW s, s = [i \in 1..n |-> s[i]]
    PROVE  IsSequence(s) /\ Len(s) = n /\ DOMAIN s = 1..n
<1>1. DOMAIN s = 1..n
  OBVIOUS
<1>2. s \in [1..n -> ToSet(s)]
  BY <1>1 DEF ToSet
<1> QED
  BY <1>1, <1>2 DEF IsSequence

LEMMA SequenceShape ==
    ASSUME NEW s, IsSequence(s)
    PROVE  Len(s) \in Nat /\ DOMAIN s = 1..Len(s) /\ s = [i \in 1..Len(s) |-> s[i]]
  BY DEF IsSequence

\* The cells of a record, by stage.
RecordCells(stage, slot) ==
    IF stage = 1 THEN <<slot.input_index, slot.sighash_type, slot.signer_pubkey,
                           slot.message_hash, slot.commitment>>
    ELSE IF stage = 2 THEN <<slot.input_index, slot.sighash_type, slot.signer_pubkey,
                                slot.message_hash, slot.commitment, slot.opening>>
    ELSE IF stage = 3 THEN <<slot.input_index, slot.sighash_type, slot.signer_pubkey,
                                slot.message_hash, slot.commitment, slot.opening, slot.rho>>
    ELSE <<slot.input_index, slot.sighash_type, slot.signer_pubkey,
           slot.message_hash, slot.commitment, slot.opening,
           slot.signature.r, slot.signature.s>>

LEMMA StageCases ==
    ASSUME NEW stage \in HOST_COMMIT..SIGNER_SIGNATURES
    PROVE  stage = 1 \/ stage = 2 \/ stage = 3 \/ stage = 4
  BY DEF HOST_COMMIT, SIGNER_SIGNATURES

LEMMA EncodeSlotIs ==
    ASSUME NEW stage \in HOST_COMMIT..SIGNER_SIGNATURES, NEW slot
    PROVE  EncodeSlot(stage, slot) = RecordCells(stage, slot)
<1> DEFINE S == {slot.input_index, slot.sighash_type, slot.signer_pubkey, slot.message_hash,
                 slot.commitment, slot.opening, slot.rho, slot.signature.r, slot.signature.s}
           five == <<slot.input_index, slot.sighash_type, slot.signer_pubkey,
                        slot.message_hash, slot.commitment>>
<1>1. five \in Seq(S) /\ Len(five) = 5
  OBVIOUS
<1>2. ASSUME NEW q \in Seq(S)
      PROVE  q \o <<>> = q
  OBVIOUS
<1>3. EncodeSlot(1, slot) = five
  <2>1. EncodeSlot(1, slot) = five \o << >> \o << >> \o << >>
    BY DEF EncodeSlot, SIGNER_OPENINGS, HOST_REVEAL, SIGNER_SIGNATURES
  <2> HIDE DEF five
  <2> QED
    BY <1>1, <1>2, <2>1
<1>4. EncodeSlot(2, slot) = Append(five, slot.opening)
  <2>1. EncodeSlot(2, slot) = five \o <<slot.opening>> \o << >> \o << >>
    BY DEF EncodeSlot, SIGNER_OPENINGS, HOST_REVEAL, SIGNER_SIGNATURES
  <2>2. five \o <<slot.opening>> = Append(five, slot.opening)
    BY <1>1
  <2>3. Append(five, slot.opening) \in Seq(S)
    BY <1>1
  <2> HIDE DEF five
  <2> QED
    BY <1>1, <1>2, <2>1, <2>2, <2>3
<1>5. EncodeSlot(3, slot) = Append(Append(five, slot.opening), slot.rho)
  <2>1. EncodeSlot(3, slot) = five \o <<slot.opening>> \o <<slot.rho>> \o << >>
    BY DEF EncodeSlot, SIGNER_OPENINGS, HOST_REVEAL, SIGNER_SIGNATURES
  <2> HIDE DEF five
  <2>2. five \o <<slot.opening>> = Append(five, slot.opening)
    BY <1>1
  <2>3. Append(five, slot.opening) \in Seq(S)
    BY <1>1
  <2>4. Append(five, slot.opening) \o <<slot.rho>> = Append(Append(five, slot.opening), slot.rho)
    BY <2>3
  <2>5. Append(Append(five, slot.opening), slot.rho) \in Seq(S)
    BY <2>3
  <2> QED
    BY <1>2, <2>1, <2>2, <2>4, <2>5
<1>6. EncodeSlot(4, slot)
        = Append(Append(Append(five, slot.opening), slot.signature.r), slot.signature.s)
  <2>1. EncodeSlot(4, slot) = five \o <<slot.opening>> \o << >>
                                   \o <<slot.signature.r, slot.signature.s>>
    BY DEF EncodeSlot, SIGNER_OPENINGS, HOST_REVEAL, SIGNER_SIGNATURES
  <2> HIDE DEF five
  <2>2. five \o <<slot.opening>> = Append(five, slot.opening)
    BY <1>1
  <2>3. Append(five, slot.opening) \in Seq(S)
    BY <1>1
  <2>4. Append(five, slot.opening) \o <<slot.signature.r, slot.signature.s>>
          = Append(Append(Append(five, slot.opening), slot.signature.r), slot.signature.s)
    BY <2>3
  <2> QED
    BY <1>2, <2>1, <2>2, <2>3, <2>4
<1>7. /\ RecordCells(1, slot) = five
      /\ RecordCells(2, slot) = Append(five, slot.opening)
      /\ RecordCells(3, slot) = Append(Append(five, slot.opening), slot.rho)
      /\ RecordCells(4, slot)
           = Append(Append(Append(five, slot.opening), slot.signature.r), slot.signature.s)
  BY DEF RecordCells
<1> HIDE DEF five
<1> QED
  BY <1>3, <1>4, <1>5, <1>6, <1>7, StageCases

\* Every record of a stage has the same width.
LEMMA SlotWidth ==
    ASSUME NEW stage \in HOST_COMMIT..SIGNER_SIGNATURES, NEW slot
    PROVE  /\ IsSequence(EncodeSlot(stage, slot))
           /\ Len(EncodeSlot(stage, slot)) = RecordLength(stage)
           /\ RecordLength(stage) \in Nat \ {0}
<1>1. /\ RecordLength(1) = 5 /\ RecordLength(2) = 6 /\ RecordLength(3) = 7
      /\ RecordLength(4) = 8
  BY DEF RecordLength, COMMON_RECORD, EXTRA_LENGTHS
<1> DEFINE S == {slot.input_index, slot.sighash_type, slot.signer_pubkey, slot.message_hash,
                 slot.commitment, slot.opening, slot.rho, slot.signature.r, slot.signature.s}
<1>2. EncodeSlot(stage, slot) \in Seq(S) /\ Len(EncodeSlot(stage, slot)) = RecordLength(stage)
  <2>0. EncodeSlot(stage, slot) = RecordCells(stage, slot)
    BY EncodeSlotIs
  <2>1. CASE stage = 1
    <3> DEFINE t == <<slot.input_index, slot.sighash_type, slot.signer_pubkey,
                 slot.message_hash, slot.commitment>>
    <3>1. t \in Seq(S) /\ Len(t) = 5
      OBVIOUS
    <3>2. EncodeSlot(stage, slot) = t
      BY <2>0, <2>1 DEF RecordCells
    <3> HIDE DEF t
    <3> QED
      BY <1>1, <2>1, <3>1, <3>2
  <2>2. CASE stage = 2
    <3> DEFINE t == <<slot.input_index, slot.sighash_type, slot.signer_pubkey,
                 slot.message_hash, slot.commitment, slot.opening>>
    <3>1. t \in Seq(S) /\ Len(t) = 6
      OBVIOUS
    <3>2. EncodeSlot(stage, slot) = t
      BY <2>0, <2>2 DEF RecordCells
    <3> HIDE DEF t
    <3> QED
      BY <1>1, <2>2, <3>1, <3>2
  <2>3. CASE stage = 3
    <3> DEFINE t == <<slot.input_index, slot.sighash_type, slot.signer_pubkey,
                 slot.message_hash, slot.commitment, slot.opening, slot.rho>>
    <3>1. t \in Seq(S) /\ Len(t) = 7
      OBVIOUS
    <3>2. EncodeSlot(stage, slot) = t
      BY <2>0, <2>3 DEF RecordCells
    <3> HIDE DEF t
    <3> QED
      BY <1>1, <2>3, <3>1, <3>2
  <2>4. CASE stage = 4
    <3> DEFINE t == <<slot.input_index, slot.sighash_type, slot.signer_pubkey,
                 slot.message_hash, slot.commitment, slot.opening, slot.signature.r,
                 slot.signature.s>>
    <3>1. t \in Seq(S) /\ Len(t) = 8
      OBVIOUS
    <3>2. EncodeSlot(stage, slot) = t
      BY <2>0, <2>4 DEF RecordCells
    <3> HIDE DEF t
    <3> QED
      BY <1>1, <2>4, <3>1, <3>2
  <2> QED
    BY <2>1, <2>2, <2>3, <2>4, StageCases
<1>3. \A s \in Seq(S) : IsSequence(s)
  BY DEF IsSequence, ToSet
<1>4. RecordLength(stage) \in Nat \ {0}
  BY <1>1, StageCases
<1> QED
  BY <1>2, <1>3, <1>4

\* A slot of a valid message is read back from its record.
LEMMA SlotReadBack ==
    ASSUME NEW stage \in HOST_COMMIT..SIGNER_SIGNATURES, NEW slot, IsSlot(slot),
           ValidSlot(stage, slot)
    PROVE  DecodeSlot(stage, EncodeSlot(stage, slot)) = slot
<1>1. /\ stage < 2 => slot.opening = Absent
      /\ stage # 3 => slot.rho = Absent
      /\ stage # 4 => slot.signature = Absent
      /\ stage = 4 => slot.signature = [r |-> slot.signature.r, s |-> slot.signature.s]
  BY DEF ValidSlot, IsSlot, SIGNER_OPENINGS, HOST_REVEAL, SIGNER_SIGNATURES, HOST_COMMIT
<1> DEFINE cells == EncodeSlot(stage, slot)
<1>2. /\ cells[1] = slot.input_index /\ cells[2] = slot.sighash_type
      /\ cells[3] = slot.signer_pubkey /\ cells[4] = slot.message_hash
      /\ cells[5] = slot.commitment
      /\ stage >= 2 => cells[6] = slot.opening
      /\ stage = 3 => cells[7] = slot.rho
      /\ stage = 4 => cells[7] = slot.signature.r /\ cells[8] = slot.signature.s
  <2>0. EncodeSlot(stage, slot) = RecordCells(stage, slot)
    BY EncodeSlotIs
  <2>1. CASE stage = 1
    BY <2>1, <2>0 DEF RecordCells
  <2>2. CASE stage = 2
    BY <2>2, <2>0 DEF RecordCells
  <2>3. CASE stage = 3
    BY <2>3, <2>0 DEF RecordCells
  <2>4. CASE stage = 4
    BY <2>4, <2>0 DEF RecordCells
  <2> QED
    BY <2>1, <2>2, <2>3, <2>4, StageCases
<1> HIDE DEF cells
<1>3. DecodeSlot(stage, cells)
        = [input_index |-> slot.input_index, sighash_type |-> slot.sighash_type,
           signer_pubkey |-> slot.signer_pubkey, message_hash |-> slot.message_hash,
           commitment |-> slot.commitment, opening |-> slot.opening, rho |-> slot.rho,
           signature |-> slot.signature]
  BY <1>1, <1>2 DEF DecodeSlot, SIGNER_OPENINGS, HOST_REVEAL, SIGNER_SIGNATURES, HOST_COMMIT
<1> QED
  BY <1>3 DEF IsSlot, cells

\* A record is the encoding of the slot read from it.
LEMMA RecordWrittenBack ==
    ASSUME NEW stage \in HOST_COMMIT..SIGNER_SIGNATURES, NEW cells, IsSequence(cells),
           Len(cells) = RecordLength(stage)
    PROVE  EncodeSlot(stage, DecodeSlot(stage, cells)) = cells
<1>1. /\ RecordLength(1) = 5 /\ RecordLength(2) = 6 /\ RecordLength(3) = 7
      /\ RecordLength(4) = 8
  BY DEF RecordLength, COMMON_RECORD, EXTRA_LENGTHS
<1> DEFINE S == ToSet(cells)
           slot == DecodeSlot(stage, cells)
<1>0. EncodeSlot(stage, slot) = RecordCells(stage, slot)
  BY EncodeSlotIs
<1>2. cells \in Seq(S)
  BY DEF IsSequence
<1>3. /\ slot.input_index = cells[1] /\ slot.sighash_type = cells[2]
      /\ slot.signer_pubkey = cells[3] /\ slot.message_hash = cells[4]
      /\ slot.commitment = cells[5]
      /\ stage >= 2 => slot.opening = cells[6]
      /\ stage = 3 => slot.rho = cells[7]
      /\ stage = 4 => slot.signature.r = cells[7] /\ slot.signature.s = cells[8]
  BY DEF DecodeSlot, SIGNER_OPENINGS, HOST_REVEAL, SIGNER_SIGNATURES
<1> HIDE DEF S, slot
<1>4. CASE stage = 1
  <2>1. EncodeSlot(1, slot) = <<cells[1], cells[2], cells[3], cells[4], cells[5]>>
    BY <1>3, <1>4, <1>0 DEF RecordCells
  <2>2. cells = <<cells[1], cells[2], cells[3], cells[4], cells[5]>>
    BY <1>1, <1>2, <1>4
  <2> QED
    BY <1>4, <2>1, <2>2 DEF slot
<1>5. CASE stage = 2
  <2>1. EncodeSlot(2, slot) = <<cells[1], cells[2], cells[3], cells[4], cells[5], cells[6]>>
    BY <1>3, <1>5, <1>0 DEF RecordCells
  <2> DEFINE t == <<cells[1], cells[2], cells[3], cells[4], cells[5], cells[6]>>
  <2>2. /\ t \in Seq(S) /\ Len(t) = 6
        /\ t[1] = cells[1] /\ t[2] = cells[2] /\ t[3] = cells[3] /\ t[4] = cells[4]
        /\ t[5] = cells[5] /\ t[6] = cells[6]
    <3>1. \A k \in 1..6 : cells[k] \in S
      BY <1>1, <1>2, <1>5
    <3> QED
      BY <3>1
  <2> HIDE DEF t
  <2>3. Len(cells) = 6 /\ \A k \in 1..6 : t[k] = cells[k]
    BY <1>1, <1>5, <2>2
  <2>4. t = cells
    <3>1. \A u \in Seq(S) : u = [k \in 1..Len(u) |-> u[k]]
      OBVIOUS
    <3> QED
      BY <1>2, <2>2, <2>3, <3>1
  <2> QED
    BY <1>5, <2>1, <2>4 DEF slot, t
<1>6. CASE stage = 3
  <2>1. EncodeSlot(3, slot)
          = <<cells[1], cells[2], cells[3], cells[4], cells[5], cells[6], cells[7]>>
    BY <1>3, <1>6, <1>0 DEF RecordCells
  <2> DEFINE t == <<cells[1], cells[2], cells[3], cells[4], cells[5], cells[6], cells[7]>>
  <2>2. /\ t \in Seq(S) /\ Len(t) = 7
        /\ t[1] = cells[1] /\ t[2] = cells[2] /\ t[3] = cells[3] /\ t[4] = cells[4]
        /\ t[5] = cells[5] /\ t[6] = cells[6] /\ t[7] = cells[7]
    <3>1. \A k \in 1..7 : cells[k] \in S
      BY <1>1, <1>2, <1>6
    <3> QED
      BY <3>1
  <2> HIDE DEF t
  <2>3. Len(cells) = 7 /\ \A k \in 1..7 : t[k] = cells[k]
    BY <1>1, <1>6, <2>2
  <2>4. t = cells
    <3>1. \A u \in Seq(S) : u = [k \in 1..Len(u) |-> u[k]]
      OBVIOUS
    <3> QED
      BY <1>2, <2>2, <2>3, <3>1
  <2> QED
    BY <1>6, <2>1, <2>4 DEF slot, t
<1>7. CASE stage = 4
  <2>1. EncodeSlot(4, slot)
          = <<cells[1], cells[2], cells[3], cells[4], cells[5], cells[6], cells[7], cells[8]>>
    BY <1>3, <1>7, <1>0 DEF RecordCells
  <2> DEFINE t == <<cells[1], cells[2], cells[3], cells[4], cells[5], cells[6], cells[7], cells[8]>>
  <2>2. /\ t \in Seq(S) /\ Len(t) = 8
        /\ t[1] = cells[1] /\ t[2] = cells[2] /\ t[3] = cells[3] /\ t[4] = cells[4]
        /\ t[5] = cells[5] /\ t[6] = cells[6] /\ t[7] = cells[7] /\ t[8] = cells[8]
    <3>1. \A k \in 1..8 : cells[k] \in S
      BY <1>1, <1>2, <1>7
    <3> QED
      BY <3>1
  <2> HIDE DEF t
  <2>3. Len(cells) = 8 /\ \A k \in 1..8 : t[k] = cells[k]
    BY <1>1, <1>7, <2>2
  <2>4. t = cells
    <3>1. \A u \in Seq(S) : u = [k \in 1..Len(u) |-> u[k]]
      OBVIOUS
    <3> QED
      BY <1>2, <2>2, <2>3, <3>1
  <2> QED
    BY <1>7, <2>1, <2>4 DEF slot, t
<1> QED
  BY <1>4, <1>5, <1>6, <1>7, StageCases

\* The records of a message lie in its wire one behind the other.
LEMMA RecordsOf ==
    ASSUME NEW m, IsSequence(m.slots), m.stage \in HOST_COMMIT..SIGNER_SIGNATURES,
           Len(m.slots) # 0
    PROVE  LET records == Encode(m).records
               width == RecordLength(m.stage)
           IN  /\ IsSequence(records) /\ Len(records) = Len(m.slots) * width
               /\ \A n \in 1..Len(m.slots) :
                     SubSeq(records, (n - 1) * width + 1, n * width)
                         = EncodeSlot(m.stage, m.slots[n])
<1> DEFINE records == Encode(m).records
           width == RecordLength(m.stage)
           slots == m.slots
           count == Len(slots)
           S == UNION {ToSet(EncodeSlot(m.stage, slots[n])) : n \in 1..count}
           pieces == [n \in DOMAIN slots |-> EncodeSlot(m.stage, slots[n])]
<1>1. count \in Nat \ {0} /\ DOMAIN slots = 1..count
  BY SequenceShape
<1>2. width \in Nat \ {0}
  BY SlotWidth
<1>3. \A n \in 1..count : EncodeSlot(m.stage, slots[n]) \in Seq(S)
                          /\ Len(EncodeSlot(m.stage, slots[n])) = width
  <2> SUFFICES ASSUME NEW n \in 1..count
               PROVE  /\ EncodeSlot(m.stage, slots[n]) \in Seq(S)
                      /\ Len(EncodeSlot(m.stage, slots[n])) = width
    OBVIOUS
  <2> DEFINE cells == EncodeSlot(m.stage, slots[n])
  <2>1. cells \in Seq(ToSet(cells)) /\ Len(cells) = width
    BY SlotWidth DEF IsSequence
  <2>2. ToSet(cells) \subseteq S
    OBVIOUS
  <2> HIDE DEF cells, S
  <2>3. cells \in Seq(S)
    BY <2>1, <2>2
  <2> QED
    BY <2>1, <2>3 DEF cells
<1>4. records = FlattenSeq(pieces)
  BY DEF Encode
<1>5. /\ pieces \in Seq(Seq(S)) /\ Len(pieces) = count /\ pieces # <<>>
      /\ \A n \in 1..count : pieces[n] = EncodeSlot(m.stage, slots[n])
  <2>1. pieces \in [1..count -> Seq(S)]
    BY <1>1, <1>3
  <2>2. \A n \in 1..count : pieces[n] = EncodeSlot(m.stage, slots[n])
    BY <1>1
  <2> HIDE DEF pieces, S, count
  <2>3. pieces \in Seq(Seq(S)) /\ Len(pieces) = count
    BY <1>1, <2>1
  <2> QED
    BY <1>1, <2>2, <2>3
<1> HIDE DEF pieces, S, count, width, records
<1>6. /\ records \in Seq(S) /\ Len(records) = count * width
      /\ \A n \in 1..count : At(records, (n - 1) * width, pieces[n])
  <2>1. \A n \in 1..Len(pieces) : Len(pieces[n]) = width
    BY <1>3, <1>5
  <2> QED
    BY <1>2, <1>4, <1>5, <2>1, FlattenWidth
<1>7. IsSequence(records)
  BY <1>6 DEF IsSequence, ToSet
<1>8. ASSUME NEW n \in 1..count
      PROVE  SubSeq(records, (n - 1) * width + 1, n * width) = EncodeSlot(m.stage, slots[n])
  <2> DEFINE p == (n - 1) * width
             r == EncodeSlot(m.stage, slots[n])
  <2>1. p \in Nat /\ n * width = p + width /\ p + width <= Len(records)
    <3>1. n \in Nat /\ n - 1 \in Nat /\ count - n \in Nat
      BY <1>1
    <3>2. \A k \in Nat : k * width \in Nat
      BY <1>2
    <3>3. (n - 1) * width \in Nat /\ (count - n) * width \in Nat
      BY <3>1, <3>2
    <3>4. n * width = (n - 1) * width + width /\ count * width = n * width + (count - n) * width
      BY <1>1, <1>2, <3>1
    <3> QED
      BY <1>2, <1>6, <3>3, <3>4
  <2>2. r \in Seq(S) /\ Len(r) = width /\ At(records, p, r)
    BY <1>3, <1>5, <1>6
  <2> HIDE DEF p, r
  <2>3. SubSeq(records, p + 1, p + Len(r)) = r
    BY <1>6, <2>1, <2>2, AtIsSubSeq
  <2>4. SubSeq(records, p + 1, n * width) = r
    BY <2>1, <2>2, <2>3
  <2> QED
    BY <2>4 DEF p, r
<1> QED
  BY <1>6, <1>7, <1>8 DEF count, width, records

\* A valid message is read back as it was encoded, at whatever stage and with however many
\* slots (ProtocolV1Message.encode, decode_message).
THEOREM MessageReadBack ==
    ASSUME NEW m, IsMessage(m), ValidMessage(m)
    PROVE  DecodeMessage(Encode(m)) = m
<1> DEFINE w == Encode(m)
           slots == m.slots
           count == Len(slots)
           width == RecordLength(m.stage)
<1>1. /\ m.stage \in HOST_COMMIT..SIGNER_SIGNATURES /\ m.network \in Network
      /\ count \in 1..MaxSlots
      /\ \A n \in DOMAIN slots : ValidSlot(m.stage, slots[n])
  BY DEF ValidMessage
<1>2. count \in Nat \ {0}
  BY <1>1, SlotLimitAssumption
<1>3. /\ Len(w.records) = count * width
      /\ \A n \in 1..count : SubSeq(w.records, (n - 1) * width + 1, n * width)
                                = EncodeSlot(m.stage, slots[n])
  BY <1>1, <1>2, RecordsOf DEF IsMessage
<1>4. /\ w.version = FORMAT_VERSION /\ w.flags = FLAGS /\ w.network = m.network
      /\ w.stage = m.stage /\ w.session_id = m.session_id /\ w.psbt_digest = m.psbt_digest
      /\ w.slot_count = count /\ w.payload_length = Len(w.records)
  BY DEF Encode
<1> HIDE DEF w
<1>5. HeaderValid(w)
  BY <1>1, <1>3, <1>4 DEF HeaderValid
<1>6. DOMAIN slots = 1..count /\ slots = [n \in 1..count |-> slots[n]]
  BY SequenceShape DEF IsMessage
<1>7. ASSUME NEW n \in 1..count
      PROVE  DecodeSlot(w.stage, SubSeq(w.records, (n - 1) * width + 1, n * width)) = slots[n]
  <2>1. IsSlot(slots[n]) /\ ValidSlot(m.stage, slots[n])
    BY <1>1, <1>6 DEF IsMessage
  <2> QED
    BY <1>1, <1>3, <1>4, <2>1, SlotReadBack
<1>8. Decoded(w).slots = slots
  <2>1. Decoded(w).slots
          = [n \in 1..count |-> DecodeSlot(w.stage, SubSeq(w.records, (n - 1) * width + 1,
                                                           n * width))]
    BY <1>4 DEF Decoded
  <2> HIDE DEF count, width, slots
  <2> QED
    BY <1>6, <1>7, <2>1
<1>9. Decoded(w) = m
  <2>1. Decoded(w) = [network |-> w.network, stage |-> w.stage, session_id |-> w.session_id,
                      psbt_digest |-> w.psbt_digest, slots |-> Decoded(w).slots]
    BY DEF Decoded
  <2>2. Decoded(w) = [network |-> m.network, stage |-> m.stage, session_id |-> m.session_id,
                      psbt_digest |-> m.psbt_digest, slots |-> m.slots]
    BY <1>4, <1>8, <2>1
  <2> QED
    BY <2>2 DEF IsMessage
<1> QED
  BY <1>5, <1>9 DEF DecodeMessage, w

\* The fields of the wire, and its cells in a sequence.
IsWire(w) ==
    /\ w = [version |-> w.version, network |-> w.network, stage |-> w.stage, flags |-> w.flags,
            payload_length |-> w.payload_length, session_id |-> w.session_id,
            psbt_digest |-> w.psbt_digest, slot_count |-> w.slot_count, records |-> w.records]
    /\ IsSequence(w.records)

\* What is read from a wire, of whatever shape, is a message.
LEMMA ReadIsMessage ==
    ASSUME NEW w, DecodeMessage(w) # Rejected
    PROVE  /\ HeaderValid(w) /\ DecodeMessage(w) = Decoded(w)
           /\ IsMessage(Decoded(w)) /\ ValidMessage(Decoded(w))
           /\ Len(Decoded(w).slots) = w.slot_count /\ w.slot_count \in Nat \ {0}
<1> DEFINE m == Decoded(w)
           Slot(n) == DecodeSlot(w.stage, SubSeq(w.records, (n - 1) * RecordLength(w.stage) + 1,
                                                 n * RecordLength(w.stage)))
<1>1. HeaderValid(w) /\ DecodeMessage(w) = m /\ ValidMessage(m)
  BY DEF DecodeMessage
<1>2. w.slot_count \in Nat \ {0}
  BY <1>1, SlotLimitAssumption DEF HeaderValid
<1>3. m.slots = [n \in 1..w.slot_count |-> Slot(n)]
  BY DEF Decoded
<1>4. m = [network |-> m.network, stage |-> m.stage, session_id |-> m.session_id,
           psbt_digest |-> m.psbt_digest, slots |-> m.slots]
  BY DEF Decoded
<1>5. IsSequence(m.slots) /\ Len(m.slots) = w.slot_count /\ DOMAIN m.slots = 1..w.slot_count
  <2> DEFINE s == m.slots
  <2>1. s = [n \in 1..w.slot_count |-> s[n]]
    <3> HIDE DEF Slot
    <3> QED
      BY <1>3
  <2> HIDE DEF s
  <2>2. IsSequence(s) /\ Len(s) = w.slot_count /\ DOMAIN s = 1..w.slot_count
    BY <1>2, <2>1, IsSequenceIff
  <2> QED
    BY <2>2 DEF s
<1>6. ASSUME NEW stage, NEW cells
      PROVE  IsSlot(DecodeSlot(stage, cells))
  BY DEF IsSlot, DecodeSlot
<1>7. \A n \in 1..w.slot_count : IsSlot(m.slots[n])
  BY <1>3, <1>6
<1> QED
  BY <1>1, <1>2, <1>4, <1>5, <1>7 DEF IsMessage

\* An accepted wire is, cell for cell, the encoding of the message read from it
\* (decode_message).
THEOREM WireIsEncoding ==
    ASSUME NEW w, IsWire(w), DecodeMessage(w) # Rejected
    PROVE  Encode(DecodeMessage(w)) = w
<1> DEFINE m == Decoded(w)
           count == w.slot_count
           width == RecordLength(w.stage)
           Piece(n) == SubSeq(w.records, (n - 1) * width + 1, n * width)
<1>1. /\ HeaderValid(w) /\ DecodeMessage(w) = m /\ Len(m.slots) = count
      /\ count \in Nat \ {0}
  BY ReadIsMessage
<1>2. w.stage \in HOST_COMMIT..SIGNER_SIGNATURES /\ Len(w.records) = count * width
  BY <1>1 DEF HeaderValid
<1>3. width \in Nat \ {0}
  BY <1>2, SlotWidth
<1>4. m.slots = [n \in 1..count |-> DecodeSlot(w.stage, Piece(n))] /\ DOMAIN m.slots = 1..count
  BY DEF Decoded
<1>5. ASSUME NEW n \in 1..count
      PROVE  EncodeSlot(w.stage, m.slots[n]) = Piece(n)
  <2>1. /\ (n - 1) * width \in Nat /\ n * width = (n - 1) * width + width
        /\ n * width <= Len(w.records)
    <3>1. n \in Nat /\ n - 1 \in Nat /\ count - n \in Nat
      BY <1>1
    <3>2. \A k \in Nat : k * width \in Nat
      BY <1>3
    <3>3. (n - 1) * width \in Nat /\ (count - n) * width \in Nat
      BY <3>1, <3>2
    <3>4. n * width = (n - 1) * width + width /\ count * width = n * width + (count - n) * width
      BY <1>1, <1>3, <3>1
    <3> QED
      BY <1>2, <1>3, <3>3, <3>4
  <2> DEFINE p == (n - 1) * width
  <2>2. w.records \in Seq(ToSet(w.records))
    BY DEF IsWire, IsSequence
  <2>3. IsSequence(Piece(n)) /\ Len(Piece(n)) = width
    <3>1. Piece(n) = SubSeq(w.records, p + 1, p + width)
      BY <2>1
    <3>2. p \in Nat /\ p + width <= Len(w.records)
      BY <2>1
    <3> HIDE DEF p, width, Piece
    <3>3. Piece(n) \in Seq(ToSet(w.records)) /\ Len(Piece(n)) = width
      BY <1>3, <2>2, <3>1, <3>2
    <3> QED
      BY <3>3 DEF IsSequence, ToSet
  <2>4. m.slots[n] = DecodeSlot(w.stage, Piece(n))
    BY <1>4
  <2> HIDE DEF Piece
  <2> QED
    BY <1>2, <2>3, <2>4, RecordWrittenBack
<1>6. Encode(m).records = w.records
  <2>1. Encode(m).records = FlattenSeq([n \in 1..count |-> Piece(n)])
    <3>1. Encode(m).records = FlattenSeq([n \in DOMAIN m.slots |-> EncodeSlot(m.stage, m.slots[n])])
      BY DEF Encode
    <3>2. m.stage = w.stage
      BY DEF Decoded
    <3> HIDE DEF m, Piece
    <3>3. DOMAIN m.slots = 1..count
      BY <1>4
    <3>4. \A n \in 1..count : EncodeSlot(m.stage, m.slots[n]) = Piece(n)
      BY <1>5, <3>2
    <3>5. [n \in DOMAIN m.slots |-> EncodeSlot(m.stage, m.slots[n])] = [n \in 1..count |-> Piece(n)]
      BY <3>3, <3>4
    <3> QED
      BY <3>1, <3>5
  <2>2. w.records \in Seq(ToSet(w.records))
    BY DEF IsWire, IsSequence
  <2> QED
    BY <1>1, <1>2, <1>3, <2>1, <2>2, FlattenPieces
<1>7. /\ m.network = w.network /\ m.stage = w.stage /\ m.session_id = w.session_id
      /\ m.psbt_digest = w.psbt_digest
  BY DEF Decoded
<1> HIDE DEF m
<1>8. Encode(m) = [version |-> FORMAT_VERSION, network |-> w.network, stage |-> w.stage,
                   flags |-> FLAGS, payload_length |-> Len(w.records),
                   session_id |-> w.session_id, psbt_digest |-> w.psbt_digest,
                   slot_count |-> count, records |-> w.records]
  <2>1. Encode(m) = [version |-> FORMAT_VERSION, network |-> m.network, stage |-> m.stage,
                     flags |-> FLAGS, payload_length |-> Len(Encode(m).records),
                     session_id |-> m.session_id, psbt_digest |-> m.psbt_digest,
                     slot_count |-> Len(m.slots), records |-> Encode(m).records]
    BY DEF Encode
  <2> QED
    BY <1>1, <1>6, <1>7, <2>1
<1>9. /\ w.version = FORMAT_VERSION /\ w.flags = FLAGS
      /\ w.payload_length = Len(w.records)
  BY <1>1 DEF HeaderValid
<1>10. Encode(m) = w
  BY <1>8, <1>9 DEF IsWire
<1> QED
  BY <1>1, <1>10

-----------------------------------------------------------------------------
(***************************************************************************)
(* The session.  One thing may go wrong in it, so of the three facts that  *)
(* bind the signatures to what the root enumerates, the openings of        *)
(* message 2 and the host's rho, at most one is in doubt at any time, and  *)
(* the device's or the host's next check restores it.                      *)
(***************************************************************************)

SecretOf(raw, slot) ==
    Root.secret[PsbtOf[raw][slot.input_index].bip32_derivations[slot.signer_pubkey].path]

\* Message 3 or 4 asks about the slots of message 1.
SameSlots(m, other) ==
    /\ Len(other.slots) = Len(m.slots)
    /\ \A n \in DOMAIN m.slots :
          /\ Identifier(other.slots[n]) = Identifier(m.slots[n])
          /\ other.slots[n].message_hash = m.slots[n].message_hash
          /\ other.slots[n].commitment = m.slots[n].commitment

\* The slots of a message are those the root enumerates.
MatchesRoot(raw, m) ==
    /\ Cardinality(ByRoot(raw)) = Len(m.slots)
    /\ \A n \in DOMAIN m.slots :
          [input_index |-> m.slots[n].input_index, signer_pubkey |-> m.slots[n].signer_pubkey,
           message_hash |-> m.slots[n].message_hash] \in ByRoot(raw)

\* Message 2 is the device's own answer to message 1 as the host made it.
Honest(raw, hash, m1, m2) ==
    /\ MatchesRoot(raw, m1)
    /\ Len(m2.slots) = Len(m1.slots)
    /\ \A n \in DOMAIN m1.slots :
          /\ Identifier(m2.slots[n]) = Identifier(m1.slots[n])
          /\ m2.slots[n].opening = SignerOpening(hash, SecretOf(raw, m1.slots[n]),
                                                 m1.slots[n].message_hash, m1.slots[n].commitment)

\* Message 3 has the openings of message 2.
Kept(m2, m3) ==
    /\ Len(m3.slots) = Len(m2.slots)
    /\ \A n \in DOMAIN m2.slots :
          /\ Identifier(m3.slots[n]) = Identifier(m2.slots[n])
          /\ m3.slots[n].opening = m2.slots[n].opening

MessagesInv ==
    /\ DOMAIN sent = 1..4
    /\ \A k \in 1..3 : sent[k] # Absent =>
          IsMessage(sent[k]) /\ ValidMessage(sent[k]) /\ sent[k].stage = k
    /\ \A k \in 1..4 : sent[k] # Absent => sent[1] # Absent
    /\ sent[3] # Absent => sent[2] # Absent /\ SameSlots(sent[1], sent[3])
    /\ sent[4] # Absent /\ sent[3] = Absent =>
          sent[2] = Absent /\ altered # "no" /\ (wire # Absent => wire.stage = 4)
    /\ altered = "no" /\ wire # Absent => "stage" \in DOMAIN wire

\* While the device has not answered message 1.
FirstTurn ==
    sent[1] # Absent /\ sent[2] = Absent /\ altered = "no" /\ wire # Absent =>
        wire = Package(sent[1], psbt) \/ wire.stage = 2

OpeningsUnderWay == wire # Absent => wire = Package(sent[2], Absent) \/ wire.stage = 3

\* While the host has not answered message 2.
SecondTurn ==
    sent[2] # Absent /\ sent[3] = Absent =>
        /\ altered = "no" => OpeningsUnderWay
        /\ Honest(psbt, h, sent[1], sent[2]) \/ (altered # "no" /\ OpeningsUnderWay)

RevealUnderWay == wire # Absent => wire = Package(sent[3], psbt) \/ wire.stage = 4

\* While the device has not answered message 3.
ThirdTurn ==
    sent[3] # Absent /\ sent[4] = Absent =>
        /\ wire # Absent => wire.stage # 1
        /\ \/ Honest(psbt, h, sent[1], sent[2]) /\ Kept(sent[2], sent[3])
           \/ /\ altered # "no" /\ RevealUnderWay
              /\ Honest(psbt, h, sent[1], sent[2]) \/ Kept(sent[2], sent[3])

\* Once it has.
LastTurn ==
    sent[3] # Absent /\ sent[4] # Absent =>
        MatchesRoot(psbt, sent[1]) /\ Kept(sent[2], sent[3])

SessionInv ==
    MessagesInv /\ FirstTurn /\ SecondTurn /\ ThirdTurn /\ LastTurn /\ SignedSlots

-----------------------------------------------------------------------------
\* An enumeration is finite.
LEMMA SlotsFinite ==
    ASSUME NEW raw \in DOMAIN PsbtOf, NEW fingerprint,
           \A i \in DOMAIN PsbtOf[raw] : Supported(PsbtOf[raw][i])
    PROVE  IsFiniteSet(SlotsOf(PsbtOf[raw], fingerprint))
<1> DEFINE parsed == PsbtOf[raw]
           keys(i) == Controlled(parsed[i], fingerprint)
           SlotAt(i, key) == [input_index |-> i, signer_pubkey |-> key,
                              message_hash |-> parsed[i].sighash]
           here(i) == {SlotAt(i, key) : key \in keys(i)}
           all == {here(i) : i \in DOMAIN parsed}
<1>1. ASSUME NEW i \in DOMAIN parsed
      PROVE  IsFiniteSet(here(i))
  <2>1. keys(i) \subseteq SigningKeys(parsed[i])
    BY DEF Supported, Controlled
  <2>2. IsFiniteSet(keys(i))
    BY <2>1, SigningKeysBounded, FS_Subset, TranscriptAssumption
  <2> DEFINE f == [key \in keys(i) |-> SlotAt(i, key)]
  <2>3. f \in Surjection(keys(i), here(i))
    <3>1. f \in [keys(i) -> here(i)]
      OBVIOUS
    <3>2. \A slot \in here(i) : \E key \in keys(i) : f[key] = slot
      OBVIOUS
    <3> QED
      BY <3>1, <3>2 DEF Surjection
  <2> HIDE DEF f, keys, here
  <2> QED
    BY <2>2, <2>3, FS_Surjection
<1> DEFINE g == [i \in DOMAIN parsed |-> here(i)]
<1>2. g \in Surjection(DOMAIN parsed, all)
  <2> HIDE DEF here
  <2>1. g \in [DOMAIN parsed -> all]
    OBVIOUS
  <2>2. \A s \in all : \E i \in DOMAIN parsed : g[i] = s
    OBVIOUS
  <2> QED
    BY <2>1, <2>2 DEF Surjection
<1>3. IsFiniteSet(DOMAIN parsed)
  BY TranscriptAssumption
<1>4. SlotsOf(parsed, fingerprint) = UNION all
  BY DEF SlotsOf
<1>5. \A s \in all : IsFiniteSet(s)
  BY <1>1
<1> HIDE DEF g, all, here, parsed
<1>6. IsFiniteSet(all)
  BY <1>2, <1>3, FS_Surjection
<1>7. IsFiniteSet(UNION all)
  BY <1>5, <1>6, FS_UNION
<1> QED
  BY <1>4, <1>7 DEF parsed

LEMMA EnumerationsFinite ==
    ASSUME NEW raw
    PROVE  /\ IsFiniteSet(ByRoot(raw)) /\ Cardinality(ByRoot(raw)) \in Nat
           /\ IsFiniteSet(ByFingerprint(raw)) /\ Cardinality(ByFingerprint(raw)) \in Nat
<1> DEFINE slots == SlotsOf(PsbtOf[raw], Root.fingerprint)
<1>1. ByRoot(raw) = {} \/ (/\ raw \in DOMAIN PsbtOf /\ ByRoot(raw) = slots
                           /\ \A i \in DOMAIN PsbtOf[raw] : Supported(PsbtOf[raw][i]))
  BY DEF ByRoot, Parsed, EnumerateSigningSlots
<1>2. ByFingerprint(raw) = {}
        \/ (/\ raw \in DOMAIN PsbtOf /\ ByFingerprint(raw) = slots
            /\ \A i \in DOMAIN PsbtOf[raw] : Supported(PsbtOf[raw][i]))
  BY DEF ByFingerprint, Parsed, EnumerateForFingerprint
<1> HIDE DEF slots
<1>3. IsFiniteSet(ByRoot(raw)) /\ IsFiniteSet(ByFingerprint(raw))
  BY <1>1, <1>2, SlotsFinite, FS_EmptySet DEF slots
<1> QED
  BY <1>3, FS_CardinalityType

\* Changing one field of a slot leaves it a slot.
LEMMA SlotWithOpening ==
    ASSUME NEW slot, IsSlot(slot), NEW x, NEW new, new = [slot EXCEPT !.opening = x]
    PROVE  /\ IsSlot(new) /\ new.opening = x /\ Identifier(new) = Identifier(slot)
           /\ new.message_hash = slot.message_hash /\ new.commitment = slot.commitment
<1> DEFINE old == [input_index |-> slot.input_index, sighash_type |-> slot.sighash_type,
                   signer_pubkey |-> slot.signer_pubkey, message_hash |-> slot.message_hash,
                   commitment |-> slot.commitment, opening |-> slot.opening, rho |-> slot.rho,
                   signature |-> slot.signature]
<1>1. slot = old /\ new = [old EXCEPT !.opening = x]
  BY DEF IsSlot
<1>2. new = [input_index |-> slot.input_index, sighash_type |-> slot.sighash_type,
             signer_pubkey |-> slot.signer_pubkey, message_hash |-> slot.message_hash,
             commitment |-> slot.commitment, opening |-> x, rho |-> slot.rho,
             signature |-> slot.signature]
  BY <1>1
<1> QED
  BY <1>2 DEF IsSlot, Identifier

LEMMA SlotWithRho ==
    ASSUME NEW slot, IsSlot(slot), NEW x, NEW new, new = [slot EXCEPT !.rho = x]
    PROVE  /\ IsSlot(new) /\ new.opening = slot.opening /\ Identifier(new) = Identifier(slot)
           /\ new.message_hash = slot.message_hash /\ new.commitment = slot.commitment
<1> DEFINE old == [input_index |-> slot.input_index, sighash_type |-> slot.sighash_type,
                   signer_pubkey |-> slot.signer_pubkey, message_hash |-> slot.message_hash,
                   commitment |-> slot.commitment, opening |-> slot.opening, rho |-> slot.rho,
                   signature |-> slot.signature]
<1>1. slot = old /\ new = [old EXCEPT !.rho = x]
  BY DEF IsSlot
<1>2. new = [input_index |-> slot.input_index, sighash_type |-> slot.sighash_type,
             signer_pubkey |-> slot.signer_pubkey, message_hash |-> slot.message_hash,
             commitment |-> slot.commitment, opening |-> slot.opening, rho |-> x,
             signature |-> slot.signature]
  BY <1>1
<1> QED
  BY <1>2 DEF IsSlot, Identifier

IsFunctionOn(f, D) == f = [x \in D |-> f[x]]

Changed(m, stage, slots) == [m EXCEPT !.stage = stage, !.slots = slots]

\* Another stage and other slots make another message.
LEMMA MessageChanged ==
    ASSUME NEW m, IsMessage(m), NEW stage, NEW f, NEW new,
           new = Changed(m, stage, f),
           IsFunctionOn(f, DOMAIN m.slots), \A n \in DOMAIN m.slots : IsSlot(f[n])
    PROVE  /\ IsMessage(new) /\ new.stage = stage /\ new.slots = f
           /\ Len(f) = Len(m.slots) /\ DOMAIN f = DOMAIN m.slots
<1> DEFINE old == [network |-> m.network, stage |-> m.stage, session_id |-> m.session_id,
                   psbt_digest |-> m.psbt_digest, slots |-> m.slots]
<1>1. m = old /\ new = [old EXCEPT !.stage = stage, !.slots = f]
  BY DEF IsMessage, Changed
<1>2. new = [network |-> m.network, stage |-> stage, session_id |-> m.session_id,
             psbt_digest |-> m.psbt_digest, slots |-> f]
  BY <1>1
<1>3. Len(m.slots) \in Nat /\ DOMAIN m.slots = 1..Len(m.slots)
  BY SequenceShape DEF IsMessage
<1>4. IsSequence(f) /\ Len(f) = Len(m.slots) /\ DOMAIN f = DOMAIN m.slots
  BY <1>3, IsSequenceIff DEF IsFunctionOn
<1>5. IsMessage(new)
  BY <1>2, <1>4 DEF IsMessage
<1> QED
  BY <1>2, <1>4, <1>5

LEMMA OpeningsForIs ==
    ASSUME NEW m, IsMessage(m)
    PROVE  LET new == OpeningsFor(m)
           IN  /\ IsMessage(new) /\ new.stage = 2 /\ Len(new.slots) = Len(m.slots)
               /\ DOMAIN new.slots = DOMAIN m.slots
               /\ \A n \in DOMAIN m.slots :
                     /\ Identifier(new.slots[n]) = Identifier(m.slots[n])
                     /\ new.slots[n].opening
                          = SignerOpening(h, Secret(m.slots[n]), m.slots[n].message_hash,
                                          m.slots[n].commitment)
<1> DEFINE Opening(slot) == SignerOpening(h, Secret(slot), slot.message_hash, slot.commitment)
           f == [n \in DOMAIN m.slots |-> [m.slots[n] EXCEPT !.opening = Opening(m.slots[n])]]
<1>1. OpeningsFor(m) = [m EXCEPT !.stage = 2, !.slots = f]
  BY DEF OpeningsFor, SIGNER_OPENINGS
<1>2. \A n \in DOMAIN m.slots :
          /\ IsSlot(f[n]) /\ Identifier(f[n]) = Identifier(m.slots[n])
          /\ f[n].opening = Opening(m.slots[n])
  <2> SUFFICES ASSUME NEW n \in DOMAIN m.slots
               PROVE  /\ IsSlot(f[n]) /\ Identifier(f[n]) = Identifier(m.slots[n])
                      /\ f[n].opening = Opening(m.slots[n])
    OBVIOUS
  <2>1. IsSlot(m.slots[n])
    BY DEF IsMessage
  <2>2. f[n] = [m.slots[n] EXCEPT !.opening = Opening(m.slots[n])]
    OBVIOUS
  <2> HIDE DEF f, Opening
  <2> QED
    BY <2>1, <2>2, SlotWithOpening
<1>3. IsFunctionOn(f, DOMAIN m.slots)
  BY DEF IsFunctionOn
<1> HIDE DEF f, Opening
<1>4. /\ IsMessage(OpeningsFor(m)) /\ OpeningsFor(m).stage = 2 /\ OpeningsFor(m).slots = f
      /\ Len(f) = Len(m.slots) /\ DOMAIN f = DOMAIN m.slots
  <2>1. \A n \in DOMAIN m.slots : IsSlot(f[n])
    BY <1>2
  <2> DEFINE new == OpeningsFor(m)
  <2>2. new = Changed(m, 2, f)
    BY <1>1 DEF Changed
  <2> HIDE DEF new
  <2>3. /\ IsMessage(new) /\ new.stage = 2 /\ new.slots = f
        /\ Len(f) = Len(m.slots) /\ DOMAIN f = DOMAIN m.slots
    BY <1>3, <2>1, <2>2, MessageChanged
  <2> QED
    BY <2>3 DEF new
<1>5. \A n \in DOMAIN m.slots :
          Opening(m.slots[n]) = SignerOpening(h, Secret(m.slots[n]), m.slots[n].message_hash,
                                              m.slots[n].commitment)
  BY DEF Opening
<1> QED
  BY <1>2, <1>4, <1>5

LEMMA RevealForIs ==
    ASSUME NEW m, IsMessage(m)
    PROVE  LET new == RevealFor(m)
           IN  /\ IsMessage(new) /\ new.stage = 3 /\ Len(new.slots) = Len(m.slots)
               /\ DOMAIN new.slots = DOMAIN m.slots
               /\ \A n \in DOMAIN m.slots :
                     /\ Identifier(new.slots[n]) = Identifier(m.slots[n])
                     /\ new.slots[n].opening = m.slots[n].opening
                     /\ new.slots[n].message_hash = m.slots[n].message_hash
                     /\ new.slots[n].commitment = m.slots[n].commitment
<1> DEFINE Revealed(slot) == SessionRhos[Identifier(slot)]
           f == [n \in DOMAIN m.slots |-> [m.slots[n] EXCEPT !.rho = Revealed(m.slots[n])]]
<1>1. RevealFor(m) = [m EXCEPT !.stage = 3, !.slots = f]
  BY DEF RevealFor, HOST_REVEAL
<1>2. \A n \in DOMAIN m.slots :
          /\ IsSlot(f[n]) /\ Identifier(f[n]) = Identifier(m.slots[n])
          /\ f[n].opening = m.slots[n].opening
          /\ f[n].message_hash = m.slots[n].message_hash
          /\ f[n].commitment = m.slots[n].commitment
  <2> SUFFICES ASSUME NEW n \in DOMAIN m.slots
               PROVE  /\ IsSlot(f[n]) /\ Identifier(f[n]) = Identifier(m.slots[n])
                      /\ f[n].opening = m.slots[n].opening
                      /\ f[n].message_hash = m.slots[n].message_hash
                      /\ f[n].commitment = m.slots[n].commitment
    OBVIOUS
  <2>1. IsSlot(m.slots[n])
    BY DEF IsMessage
  <2>2. f[n] = [m.slots[n] EXCEPT !.rho = Revealed(m.slots[n])]
    OBVIOUS
  <2> HIDE DEF f, Revealed
  <2> QED
    BY <2>1, <2>2, SlotWithRho
<1>3. IsFunctionOn(f, DOMAIN m.slots)
  BY DEF IsFunctionOn
<1> HIDE DEF f, Revealed
<1>4. /\ IsMessage(RevealFor(m)) /\ RevealFor(m).stage = 3 /\ RevealFor(m).slots = f
      /\ Len(f) = Len(m.slots) /\ DOMAIN f = DOMAIN m.slots
  <2>1. \A n \in DOMAIN m.slots : IsSlot(f[n])
    BY <1>2
  <2> DEFINE new == RevealFor(m)
  <2>2. new = Changed(m, 3, f)
    BY <1>1 DEF Changed
  <2> HIDE DEF new
  <2>3. /\ IsMessage(new) /\ new.stage = 3 /\ new.slots = f
        /\ Len(f) = Len(m.slots) /\ DOMAIN f = DOMAIN m.slots
    BY <1>3, <2>1, <2>2, MessageChanged
  <2> QED
    BY <2>3 DEF new
<1> QED
  BY <1>2, <1>4

LEMMA SignaturesForIs ==
    ASSUME NEW m, IsMessage(m)
    PROVE  "stage" \in DOMAIN SignaturesFor(m) /\ SignaturesFor(m).stage = 4
<1> DEFINE f == [n \in DOMAIN m.slots |->
                  [m.slots[n] EXCEPT !.rho = Absent,
                      !.signature = AntiExfilSign(h, Secret(m.slots[n]), m.slots[n].message_hash,
                                                  m.slots[n].rho).signature]]
<1>1. SignaturesFor(m) = [m EXCEPT !.stage = 4, !.slots = f]
  BY DEF SignaturesFor, SIGNER_SIGNATURES
<1> HIDE DEF f
<1>2. SignaturesFor(m) = [network |-> m.network, stage |-> 4, session_id |-> m.session_id,
                          psbt_digest |-> m.psbt_digest, slots |-> f]
  BY <1>1 DEF IsMessage
<1> QED
  BY <1>2

\* What is received is a message of the stage the package states, and a package that comes
\* as it was sent holds the message that was sent.
LEMMA ReceivedIs ==
    ASSUME Received # Rejected
    PROVE  /\ IsMessage(Received) /\ ValidMessage(Received) /\ Received.stage = wire.stage
           /\ \A m, raw :
                 (wire = Package(m, raw) /\ IsMessage(m) /\ ValidMessage(m)) => Received = m
<1>1. Received = DecodeMessage(wire.message) /\ wire.stage = Received.stage
  BY DEF Received
<1>2. IsMessage(Received) /\ ValidMessage(Received)
  BY <1>1, ReadIsMessage
<1>3. ASSUME NEW m, NEW raw, wire = Package(m, raw), IsMessage(m), ValidMessage(m)
      PROVE  Received = m
  <2>1. wire.message = Encode(m)
    BY <1>3 DEF Package
  <2> QED
    BY <1>1, <1>3, <2>1, MessageReadBack
<1> QED
  BY <1>1, <1>2, <1>3

LEMMA HostCommitIs ==
    ASSUME NEW slots, Cardinality(slots) \in Nat, NEW rhos
    PROVE  LET m == HostCommitMessage(slots, TestNetwork, SessionId, psbt, rhos)
           IN  IsMessage(m) /\ m.stage = 1
<1> DEFINE Slot(n) == LET slot == InOrder(slots)[n]
                      IN  [input_index |-> slot.input_index, signer_pubkey |-> slot.signer_pubkey,
                           message_hash |-> slot.message_hash, sighash_type |-> SIGHASH_ALL,
                           commitment |-> HostCommit(rhos[Identifier(slot)]),
                           opening |-> Absent, rho |-> Absent, signature |-> Absent]
           f == [n \in 1..Cardinality(slots) |-> Slot(n)]
           m == HostCommitMessage(slots, TestNetwork, SessionId, psbt, rhos)
<1>1. m = [network |-> TestNetwork, stage |-> 1, session_id |-> SessionId, psbt_digest |-> psbt,
           slots |-> f]
  BY DEF HostCommitMessage, HOST_COMMIT
<1>2. \A n : IsSlot(Slot(n))
  BY DEF IsSlot
<1> HIDE DEF Slot, m
<1>3. f = [n \in 1..Cardinality(slots) |-> f[n]] /\ \A n \in 1..Cardinality(slots) : IsSlot(f[n])
  BY <1>2
<1> HIDE DEF f
<1>4. IsSequence(f) /\ DOMAIN f = 1..Cardinality(slots)
  BY <1>3, IsSequenceIff
<1>5. IsMessage(m)
  BY <1>1, <1>3, <1>4 DEF IsMessage
<1> QED
  BY <1>1, <1>5 DEF m

-----------------------------------------------------------------------------
\* Messages of as many slots number them alike.
LEMMA SameLength ==
    ASSUME NEW m, IsMessage(m), NEW other, IsMessage(other), Len(other.slots) = Len(m.slots)
    PROVE  DOMAIN other.slots = DOMAIN m.slots
  BY SequenceShape DEF IsMessage

LEMMA SendIs ==
    ASSUME NEW by, NEW m, NEW raw, NEW k \in 1..4, m.stage = k, DOMAIN sent = 1..4,
           Send(by, m, raw)
    PROVE  \/ Refuse(by, "encode")
           \/ /\ ValidMessage(m)
              /\ DOMAIN sent' = 1..4 /\ sent'[k] = m
              /\ \A j \in 1..4 : j # k => sent'[j] = sent[j]
              /\ wire' = Package(m, raw) /\ "stage" \in DOMAIN wire' /\ wire'.stage = k
              /\ UNCHANGED <<psbt, h, altered, refusal, signed>>
<1>1. "stage" \in DOMAIN Package(m, raw) /\ Package(m, raw).stage = m.stage
  BY DEF Package
<1> QED
  BY <1>1 DEF Send

LEMMA SignedSame ==
    ASSUME SignedSlots, UNCHANGED <<psbt, h, sent, signed>>
    PROVE  SignedSlots'
  BY DEF SignedSlots

LEMMA QuietStep ==
    ASSUME SessionInv, wire' = Absent, UNCHANGED <<psbt, h, sent, altered, signed>>
    PROVE  SessionInv'
<1>1. MessagesInv'
  BY DEF SessionInv, MessagesInv
<1>2. FirstTurn' /\ SecondTurn'
  BY DEF SessionInv, FirstTurn, SecondTurn, OpeningsUnderWay
<1>3. ThirdTurn' /\ LastTurn'
  BY DEF SessionInv, ThirdTurn, LastTurn, RevealUnderWay
<1>4. SignedSlots'
  BY SignedSame DEF SessionInv
<1> QED
  BY <1>1, <1>2, <1>3, <1>4 DEF SessionInv

LEMMA InitSession == Init => SessionInv
<1> SUFFICES ASSUME Init
             PROVE  SessionInv
  OBVIOUS
<1>1. signed = Absent /\ wire = Absent /\ DOMAIN sent = 1..4 /\ \A k \in 1..4 : sent[k] = Absent
  BY DEF Init, HOST_COMMIT, SIGNER_SIGNATURES
<1> QED
  BY <1>1 DEF SessionInv, MessagesInv, FirstTurn, SecondTurn, ThirdTurn, LastTurn, SignedSlots

LEMMA HostInitKeeps ==
    ASSUME SessionInv, HostInit
    PROVE  SessionInv'
<1>1. /\ signed = Absent /\ DOMAIN sent = 1..4 /\ \A k \in 1..4 : sent[k] = Absent
  BY DEF HostInit, Running, SessionInv, MessagesInv, HOST_COMMIT
<1>2. PICK slots \in {ByRoot(psbt), ByFingerprint(psbt)} :
          \/ Refuse("host", "enumerate")
          \/ Send("host", HostCommitMessage(slots, TestNetwork, SessionId, psbt, Rhos(slots)), psbt)
  BY DEF HostInit
<1>3. CASE Refuse("host", "enumerate")
  BY <1>3, QuietStep DEF Refuse
<1>4. CASE Send("host", HostCommitMessage(slots, TestNetwork, SessionId, psbt, Rhos(slots)), psbt)
  <2> DEFINE m == HostCommitMessage(slots, TestNetwork, SessionId, psbt, Rhos(slots))
  <2>1. IsMessage(m) /\ m.stage = 1
    BY EnumerationsFinite, HostCommitIs
  <2> HIDE DEF m
  <2>2. Refuse("host", "encode")
        \/ (/\ ValidMessage(m) /\ DOMAIN sent' = 1..4 /\ sent'[1] = m
            /\ \A j \in 1..4 : j # 1 => sent'[j] = sent[j]
            /\ wire' = Package(m, psbt) /\ "stage" \in DOMAIN wire' /\ wire'.stage = 1
            /\ UNCHANGED <<psbt, h, altered, refusal, signed>>)
    BY <1>1, <1>4, <2>1, SendIs DEF m
  <2>3. CASE Refuse("host", "encode")
    BY <2>3, QuietStep DEF Refuse
  <2>4. CASE /\ ValidMessage(m) /\ DOMAIN sent' = 1..4 /\ sent'[1] = m
             /\ \A j \in 1..4 : j # 1 => sent'[j] = sent[j]
             /\ wire' = Package(m, psbt) /\ "stage" \in DOMAIN wire' /\ wire'.stage = 1
             /\ UNCHANGED <<psbt, h, altered, refusal, signed>>
    <3>1. sent'[2] = Absent /\ sent'[3] = Absent /\ sent'[4] = Absent
      BY <1>1, <2>4
    <3>2. MessagesInv'
      <4>1. \A k \in 1..3 : sent'[k] # Absent =>
                IsMessage(sent'[k]) /\ ValidMessage(sent'[k]) /\ sent'[k].stage = k
        BY <2>1, <2>4, <3>1
      <4>2. \A k \in 1..4 : sent'[k] # Absent => sent'[1] # Absent
        BY <3>1
      <4> QED
        BY <2>4, <3>1, <4>1, <4>2 DEF MessagesInv
    <3>3. FirstTurn'
      BY <2>4 DEF FirstTurn
    <3>4. SecondTurn' /\ ThirdTurn' /\ LastTurn' /\ SignedSlots'
      BY <1>1, <2>4, <3>1 DEF SecondTurn, ThirdTurn, LastTurn, SignedSlots
    <3> QED
      BY <3>2, <3>3, <3>4 DEF SessionInv
  <2> QED
    BY <2>2, <2>3, <2>4
<1> QED
  BY <1>2, <1>3, <1>4

LEMMA TransitionSame ==
    ASSUME NEW m, IsMessage(m), NEW other, IsMessage(other), ValidTransition(m, other)
    PROVE  SameSlots(m, other) /\ Len(other.slots) = Len(m.slots)
<1>1. Len(other.slots) = Len(m.slots)
  BY DEF ValidTransition
<1>2. DOMAIN other.slots = DOMAIN m.slots
  BY <1>1, SameLength
<1> QED
  BY <1>1, <1>2 DEF ValidTransition, SameSlots

LEMMA HostAcceptOpeningsKeeps ==
    ASSUME SessionInv, HostAcceptOpenings
    PROVE  SessionInv'
<1> DEFINE R == Received
           m == RevealFor(R)
<1>1. /\ signed = Absent /\ wire # Absent /\ sent[2] # Absent /\ sent[3] = Absent
      /\ sent[4] = Absent /\ sent[1] # Absent /\ DOMAIN sent = 1..4
      /\ IsMessage(sent[1]) /\ IsMessage(sent[2]) /\ ValidMessage(sent[2])
  BY DEF HostAcceptOpenings, Awaits, Running, SessionInv, MessagesInv, SIGNER_OPENINGS
<1>2. \/ \E check : Refuse("host", check)
      \/ /\ R # Rejected /\ R.stage = 2 /\ ValidTransition(sent[1], R)
         /\ Send("host", m, psbt)
  BY DEF HostAcceptOpenings, SIGNER_OPENINGS, HOST_COMMIT
<1>3. CASE \E check : Refuse("host", check)
  BY <1>3, QuietStep DEF Refuse
<1>4. CASE /\ R # Rejected /\ R.stage = 2 /\ ValidTransition(sent[1], R)
           /\ Send("host", m, psbt)
  <2>1. /\ IsMessage(R) /\ wire.stage = 2
        /\ wire = Package(sent[2], Absent) => R = sent[2]
    BY <1>1, <1>4, ReceivedIs
  <2>2. /\ IsMessage(m) /\ m.stage = 3 /\ Len(m.slots) = Len(R.slots)
        /\ DOMAIN m.slots = DOMAIN R.slots
        /\ \A n \in DOMAIN R.slots :
              /\ Identifier(m.slots[n]) = Identifier(R.slots[n])
              /\ m.slots[n].opening = R.slots[n].opening
              /\ m.slots[n].message_hash = R.slots[n].message_hash
              /\ m.slots[n].commitment = R.slots[n].commitment
    BY <2>1, RevealForIs
  <2>3. SameSlots(sent[1], m)
    <3>1. SameSlots(sent[1], R) /\ Len(R.slots) = Len(sent[1].slots)
      BY <1>1, <1>4, <2>1, TransitionSame
    <3>2. DOMAIN R.slots = DOMAIN sent[1].slots
      BY <1>1, <2>1, <3>1, SameLength
    <3> HIDE DEF m, R
    <3> QED
      BY <2>2, <3>1, <3>2 DEF SameSlots
  <2>4. OpeningsUnderWay => Kept(sent[2], m)
    BY <1>1, <2>1, <2>2 DEF OpeningsUnderWay, Kept
  <2>5. Send("host", m, psbt)
    BY <1>4
  <2> HIDE DEF m, R
  <2>6. Refuse("host", "encode")
        \/ (/\ ValidMessage(m) /\ DOMAIN sent' = 1..4 /\ sent'[3] = m
            /\ \A j \in 1..4 : j # 3 => sent'[j] = sent[j]
            /\ wire' = Package(m, psbt) /\ "stage" \in DOMAIN wire' /\ wire'.stage = 3
            /\ UNCHANGED <<psbt, h, altered, refusal, signed>>)
    BY <1>1, <2>2, <2>5, SendIs
  <2>7. CASE Refuse("host", "encode")
    BY <2>7, QuietStep DEF Refuse
  <2>8. CASE /\ ValidMessage(m) /\ DOMAIN sent' = 1..4 /\ sent'[3] = m
             /\ \A j \in 1..4 : j # 3 => sent'[j] = sent[j]
             /\ wire' = Package(m, psbt) /\ "stage" \in DOMAIN wire' /\ wire'.stage = 3
             /\ UNCHANGED <<psbt, h, altered, refusal, signed>>
    <3>1. sent'[1] = sent[1] /\ sent'[2] = sent[2] /\ sent'[4] = Absent
      BY <1>1, <2>8
    <3>2. MessagesInv'
      <4>1. \A k \in 1..3 : sent'[k] # Absent =>
                IsMessage(sent'[k]) /\ ValidMessage(sent'[k]) /\ sent'[k].stage = k
        BY <2>2, <2>8, <3>1 DEF SessionInv, MessagesInv
      <4>2. \A k \in 1..4 : sent'[k] # Absent => sent'[1] # Absent
        BY <1>1, <3>1
      <4> QED
        BY <1>1, <2>3, <2>8, <3>1, <4>1, <4>2 DEF MessagesInv
    <3>3. FirstTurn' /\ LastTurn' /\ SignedSlots'
      BY <1>1, <2>8, <3>1 DEF FirstTurn, LastTurn, SignedSlots
    <3>4. SecondTurn /\ sent[2] # Absent /\ sent[3] = Absent
      BY <1>1 DEF SessionInv
    <3>5. SecondTurn'
      BY <2>8, <3>1, <3>4 DEF SecondTurn, OpeningsUnderWay
    <3>6. ThirdTurn'
      <4>1. RevealUnderWay'
        BY <2>8 DEF RevealUnderWay
      <4>2. \/ Honest(psbt, h, sent[1], sent[2]) /\ Kept(sent[2], m)
            \/ /\ altered # "no"
               /\ Honest(psbt, h, sent[1], sent[2]) \/ Kept(sent[2], m)
        BY <2>4, <3>4 DEF SecondTurn
      <4> QED
        BY <2>8, <3>1, <4>1, <4>2 DEF ThirdTurn
    <3> QED
      BY <3>2, <3>3, <3>5, <3>6 DEF SessionInv
  <2> QED
    BY <2>6, <2>7, <2>8
<1> QED
  BY <1>2, <1>3, <1>4

-----------------------------------------------------------------------------
\* What the device has checked when it goes on.
LEMMA DevicePasses ==
    ASSUME NEW m, DeviceCheck(m) = "none"
    PROVE  /\ m # Rejected /\ m.stage \in {1, 3} /\ SlotsMatch(m)
           /\ m.stage = 3 => \A n \in DOMAIN m.slots :
                 m.slots[n].opening = SignerOpening(h, Secret(m.slots[n]),
                                                    m.slots[n].message_hash,
                                                    m.slots[n].commitment)
<1>1. m # Rejected
  BY DEF DeviceCheck
<1>2. RequiresPsbt(m.stage)
  BY DEF DeviceCheck
<1>3. SlotsMatch(m)
  BY DEF DeviceCheck
<1>4. m.stage = 1 \/ ~(\E n \in DOMAIN m.slots :
               m.slots[n].opening # SignerOpening(h, Secret(m.slots[n]), m.slots[n].message_hash,
                                                  m.slots[n].commitment))
  BY DEF DeviceCheck, HOST_COMMIT
<1> QED
  BY <1>1, <1>2, <1>3, <1>4 DEF RequiresPsbt, HOST_COMMIT, HOST_REVEAL

LEMMA DeviceHolds ==
    ASSUME SessionInv, DeviceReceives, Received # Rejected, Received.stage \in {1, 3}
    PROVE  /\ signed = Absent /\ sent[1] # Absent /\ sent[4] = Absent /\ IsMessage(Received)
           /\ \/ /\ sent[2] = Absent /\ sent[3] = Absent
                 /\ altered = "no" => wire = Package(sent[1], psbt) /\ Received = sent[1]
              \/ /\ sent[2] # Absent /\ sent[3] # Absent /\ Received.stage = 3
                 /\ RevealUnderWay => wire = Package(sent[3], psbt) /\ Received = sent[3]
<1>1. IsMessage(Received) /\ Received.stage = wire.stage
  BY ReceivedIs
<1>2. /\ signed = Absent /\ wire # Absent /\ sent[1] # Absent
      /\ \/ sent[2] = Absent
         \/ sent[3] # Absent /\ sent[4] = Absent
      /\ \A k \in 1..3 : sent[k] # Absent => IsMessage(sent[k]) /\ ValidMessage(sent[k])
  BY DEF DeviceReceives, Awaits, Running, SessionInv, MessagesInv, HOST_COMMIT, HOST_REVEAL
<1>3. CASE sent[2] = Absent
  <2>1. sent[3] = Absent /\ sent[4] = Absent
    BY <1>1, <1>2, <1>3 DEF SessionInv, MessagesInv
  <2>2. altered = "no" => wire = Package(sent[1], psbt)
    BY <1>1, <1>2, <1>3 DEF SessionInv, FirstTurn
  <2> QED
    BY <1>1, <1>2, <1>3, <2>1, <2>2, ReceivedIs
<1>4. CASE sent[2] # Absent
  <2>1. sent[3] # Absent /\ sent[4] = Absent
    BY <1>2, <1>4
  <2>2. Received.stage = 3
    BY <1>1, <1>2, <2>1 DEF SessionInv, ThirdTurn
  <2>3. RevealUnderWay => wire = Package(sent[3], psbt)
    BY <1>1, <1>2, <2>2 DEF RevealUnderWay
  <2> QED
    BY <1>1, <1>2, <1>4, <2>1, <2>2, <2>3, ReceivedIs
<1> QED
  BY <1>3, <1>4

\* What the device finds to be its own is what the root enumerates.
LEMMA MatchesOwn ==
    ASSUME NEW m, SlotsMatch(m), NEW other, NEW raw, wire.psbt = raw,
           Len(other.slots) = Len(m.slots), DOMAIN other.slots = DOMAIN m.slots,
           \A n \in DOMAIN m.slots :
              /\ Identifier(m.slots[n]) = Identifier(other.slots[n])
              /\ m.slots[n].message_hash = other.slots[n].message_hash
    PROVE  MatchesRoot(raw, other)
<1>1. \A n \in DOMAIN m.slots : m.slots[n].input_index = other.slots[n].input_index
                                /\ m.slots[n].signer_pubkey = other.slots[n].signer_pubkey
  BY DEF Identifier
<1> QED
  BY <1>1 DEF SlotsMatch, MatchesRoot

LEMMA PackageFields ==
    ASSUME NEW m, NEW raw
    PROVE  Package(m, raw).psbt = raw
  BY DEF Package

LEMMA DeviceOpens ==
    ASSUME SessionInv, DeviceReceives, DeviceCheck(Received) = "none", Received.stage = 1,
           Send("device", OpeningsFor(Received), Absent)
    PROVE  SessionInv'
<1> DEFINE R == Received
           m == OpeningsFor(R)
<1>1. R # Rejected /\ SlotsMatch(R)
  BY DevicePasses
<1>2. /\ signed = Absent /\ sent[1] # Absent /\ sent[2] = Absent /\ sent[3] = Absent
      /\ sent[4] = Absent /\ IsMessage(R) /\ DOMAIN sent = 1..4
      /\ altered = "no" => wire = Package(sent[1], psbt) /\ R = sent[1]
  BY <1>1, DeviceHolds DEF SessionInv, MessagesInv
<1>3. /\ IsMessage(m) /\ m.stage = 2 /\ Len(m.slots) = Len(R.slots)
      /\ \A n \in DOMAIN R.slots :
            /\ Identifier(m.slots[n]) = Identifier(R.slots[n])
            /\ m.slots[n].opening
                  = SignerOpening(h, Secret(R.slots[n]), R.slots[n].message_hash,
                                  R.slots[n].commitment)
  BY <1>2, OpeningsForIs
<1>4. altered = "no" => Honest(psbt, h, sent[1], m)
  <2> SUFFICES ASSUME altered = "no"
               PROVE  Honest(psbt, h, sent[1], m)
    OBVIOUS
  <2>1. wire.psbt = psbt /\ R = sent[1]
    BY <1>2, PackageFields
  <2>2. MatchesRoot(psbt, sent[1])
    BY <1>1, <2>1, MatchesOwn
  <2>3. \A n \in DOMAIN R.slots : Secret(R.slots[n]) = SecretOf(psbt, R.slots[n])
    BY <2>1 DEF Secret, SecretOf
  <2> HIDE DEF R, m
  <2> QED
    BY <1>3, <2>1, <2>2, <2>3 DEF Honest
<1> HIDE DEF R, m
<1>5. Refuse("device", "encode")
      \/ (/\ ValidMessage(m) /\ DOMAIN sent' = 1..4 /\ sent'[2] = m
          /\ \A j \in 1..4 : j # 2 => sent'[j] = sent[j]
          /\ wire' = Package(m, Absent) /\ "stage" \in DOMAIN wire' /\ wire'.stage = 2
          /\ UNCHANGED <<psbt, h, altered, refusal, signed>>)
  BY <1>2, <1>3, SendIs DEF R, m
<1>6. CASE Refuse("device", "encode")
  BY <1>6, QuietStep DEF Refuse
<1>7. CASE /\ ValidMessage(m) /\ DOMAIN sent' = 1..4 /\ sent'[2] = m
           /\ \A j \in 1..4 : j # 2 => sent'[j] = sent[j]
           /\ wire' = Package(m, Absent) /\ "stage" \in DOMAIN wire' /\ wire'.stage = 2
           /\ UNCHANGED <<psbt, h, altered, refusal, signed>>
  <2>1. sent'[1] = sent[1] /\ sent'[3] = Absent /\ sent'[4] = Absent
    BY <1>2, <1>7
  <2>2. MessagesInv'
    <3>1. \A k \in 1..3 : sent'[k] # Absent =>
              IsMessage(sent'[k]) /\ ValidMessage(sent'[k]) /\ sent'[k].stage = k
      BY <1>3, <1>7, <2>1 DEF SessionInv, MessagesInv
    <3>2. \A k \in 1..4 : sent'[k] # Absent => sent'[1] # Absent
      BY <1>2, <2>1
    <3> QED
      BY <1>2, <1>7, <2>1, <3>1, <3>2 DEF MessagesInv
  <2>3. FirstTurn' /\ ThirdTurn' /\ LastTurn' /\ SignedSlots'
    BY <1>2, <1>7, <2>1 DEF FirstTurn, ThirdTurn, LastTurn, SignedSlots
  <2>4. SecondTurn'
    BY <1>4, <1>7, <2>1 DEF SecondTurn, OpeningsUnderWay
  <2> QED
    BY <2>2, <2>3, <2>4 DEF SessionInv
<1> QED
  BY <1>5, <1>6, <1>7

\* Message 3 as the device checked it vouches for what the session had in doubt.
LEMMA RevealVouches ==
    ASSUME SessionInv, DeviceReceives, DeviceCheck(Received) = "none", Received.stage = 3,
           sent[2] # Absent
    PROVE  MatchesRoot(psbt, sent[1]) /\ Kept(sent[2], sent[3])
<1> DEFINE R == Received
<1>1. /\ R # Rejected /\ SlotsMatch(R)
      /\ \A n \in DOMAIN R.slots :
            R.slots[n].opening = SignerOpening(h, Secret(R.slots[n]), R.slots[n].message_hash,
                                               R.slots[n].commitment)
  BY DevicePasses
<1>2. /\ sent[3] # Absent /\ sent[4] = Absent
      /\ RevealUnderWay => wire = Package(sent[3], psbt) /\ R = sent[3]
  BY <1>1, DeviceHolds
<1>3. \/ Honest(psbt, h, sent[1], sent[2]) /\ Kept(sent[2], sent[3])
      \/ /\ RevealUnderWay
         /\ Honest(psbt, h, sent[1], sent[2]) \/ Kept(sent[2], sent[3])
  BY <1>2 DEF SessionInv, ThirdTurn
<1>4. /\ SameSlots(sent[1], sent[3]) /\ sent[1] # Absent
      /\ IsMessage(sent[1]) /\ IsMessage(sent[2]) /\ IsMessage(sent[3])
  BY <1>2 DEF SessionInv, MessagesInv
<1>5. CASE Honest(psbt, h, sent[1], sent[2]) /\ Kept(sent[2], sent[3])
  BY <1>5 DEF Honest
<1>6. CASE /\ RevealUnderWay
           /\ Honest(psbt, h, sent[1], sent[2]) \/ Kept(sent[2], sent[3])
  <2>1. R = sent[3] /\ wire.psbt = psbt
    BY <1>2, <1>6, PackageFields
  <2> HIDE DEF R
  <2>2. Len(sent[3].slots) = Len(sent[1].slots) /\ DOMAIN sent[3].slots = DOMAIN sent[1].slots
    BY <1>4, SameLength DEF SameSlots
  <2>3. \A n \in DOMAIN sent[3].slots :
            /\ Identifier(sent[3].slots[n]) = Identifier(sent[1].slots[n])
            /\ sent[3].slots[n].message_hash = sent[1].slots[n].message_hash
            /\ sent[3].slots[n].commitment = sent[1].slots[n].commitment
    BY <1>4, <2>2 DEF SameSlots
  <2>4. MatchesRoot(psbt, sent[1])
    BY <1>1, <2>1, <2>2, <2>3, MatchesOwn
  <2>5. ASSUME Honest(psbt, h, sent[1], sent[2])
        PROVE  Kept(sent[2], sent[3])
    <3>1. Len(sent[2].slots) = Len(sent[1].slots)
      BY <2>5 DEF Honest
    <3>2. DOMAIN sent[2].slots = DOMAIN sent[1].slots
      BY <1>4, <3>1, SameLength
    <3>3. ASSUME NEW n \in DOMAIN sent[2].slots
          PROVE  /\ Identifier(sent[3].slots[n]) = Identifier(sent[2].slots[n])
                 /\ sent[3].slots[n].opening = sent[2].slots[n].opening
      <4>1. n \in DOMAIN sent[1].slots /\ n \in DOMAIN sent[3].slots
        BY <2>2, <3>2
      <4>2. /\ Identifier(sent[2].slots[n]) = Identifier(sent[1].slots[n])
            /\ sent[2].slots[n].opening
                  = SignerOpening(h, SecretOf(psbt, sent[1].slots[n]),
                                  sent[1].slots[n].message_hash, sent[1].slots[n].commitment)
        BY <2>5, <4>1 DEF Honest
      <4>3. Secret(sent[3].slots[n]) = SecretOf(psbt, sent[1].slots[n])
        <5>1. /\ sent[3].slots[n].input_index = sent[1].slots[n].input_index
              /\ sent[3].slots[n].signer_pubkey = sent[1].slots[n].signer_pubkey
          BY <2>3, <4>1 DEF Identifier
        <5> QED
          BY <2>1, <5>1 DEF Secret, SecretOf
      <4>4. sent[3].slots[n].opening
               = SignerOpening(h, SecretOf(psbt, sent[1].slots[n]),
                               sent[1].slots[n].message_hash, sent[1].slots[n].commitment)
        BY <1>1, <2>1, <2>3, <4>1, <4>3
      <4> QED
        BY <2>3, <4>1, <4>2, <4>4
    <3> QED
      BY <2>2, <3>1, <3>3 DEF Kept
  <2> QED
    BY <1>6, <2>4, <2>5
<1> QED
  BY <1>3, <1>5, <1>6

\* The device signs, honestly or with a nonce of its own.
LEMMA DeviceSigns ==
    ASSUME SessionInv, DeviceReceives, DeviceCheck(Received) = "none", Received.stage = 3,
           NEW m, DOMAIN sent' = 1..4, sent'[4] = m,
           \A j \in 1..4 : j # 4 => sent'[j] = sent[j],
           wire' # Absent => wire'.stage = 4 /\ (altered' = "no" => "stage" \in DOMAIN wire'),
           altered' = altered \/ (altered = "no" /\ altered' = "nonce"),
           UNCHANGED <<psbt, h, signed>>
    PROVE  SessionInv'
<1>1. Received # Rejected
  BY DevicePasses
<1>2. /\ signed = Absent /\ sent[1] # Absent /\ sent[4] = Absent
      /\ \/ /\ sent[2] = Absent /\ sent[3] = Absent
            /\ altered = "no" => Received = sent[1]
         \/ sent[2] # Absent /\ sent[3] # Absent
  BY <1>1, DeviceHolds
<1>3. sent'[1] = sent[1] /\ sent'[2] = sent[2] /\ sent'[3] = sent[3]
  OBVIOUS
<1>4. SignedSlots'
  BY <1>2 DEF SignedSlots
<1>5. sent[2] = Absent => sent[3] = Absent /\ altered # "no" /\ altered' = altered
  <2>1. sent[1].stage = 1
    BY <1>2 DEF SessionInv, MessagesInv
  <2> QED
    BY <1>2, <2>1
<1>6. MessagesInv'
  <2>1. \A k \in 1..3 : sent'[k] # Absent =>
            IsMessage(sent'[k]) /\ ValidMessage(sent'[k]) /\ sent'[k].stage = k
    BY <1>3 DEF SessionInv, MessagesInv
  <2>2. \A k \in 1..4 : sent'[k] # Absent => sent'[1] # Absent
    BY <1>2, <1>3
  <2>3. sent'[3] # Absent => sent'[2] # Absent /\ SameSlots(sent'[1], sent'[3])
    BY <1>3 DEF SessionInv, MessagesInv
  <2>4. sent'[4] # Absent /\ sent'[3] = Absent =>
            sent'[2] = Absent /\ altered' # "no" /\ (wire' # Absent => wire'.stage = 4)
    BY <1>2, <1>3, <1>5
  <2> QED
    BY <2>1, <2>2, <2>3, <2>4 DEF MessagesInv
<1>7. CASE sent[2] = Absent
  BY <1>2, <1>3, <1>4, <1>5, <1>6, <1>7
     DEF SessionInv, FirstTurn, SecondTurn, ThirdTurn, LastTurn
<1>8. CASE sent[2] # Absent
  <2>1. sent[3] # Absent
    BY <1>2, <1>8
  <2>2. MatchesRoot(psbt, sent[1]) /\ Kept(sent[2], sent[3])
    BY <1>8, RevealVouches
  <2>3. FirstTurn' /\ SecondTurn'
    BY <1>3, <1>8, <2>1 DEF FirstTurn, SecondTurn
  <2>4. LastTurn'
    BY <1>3, <2>2 DEF LastTurn
  <2>5. ThirdTurn'
    <3>1. RevealUnderWay'
      BY DEF RevealUnderWay
    <3>2. \/ Honest(psbt, h, sent[1], sent[2]) /\ Kept(sent[2], sent[3])
          \/ /\ altered # "no"
             /\ Honest(psbt, h, sent[1], sent[2]) \/ Kept(sent[2], sent[3])
      BY <1>2, <2>1 DEF SessionInv, ThirdTurn
    <3> QED
      BY <1>3, <3>1, <3>2 DEF ThirdTurn
  <2> QED
    BY <1>4, <1>6, <2>3, <2>4, <2>5 DEF SessionInv
<1> QED
  BY <1>7, <1>8

LEMMA DeviceAnswersKeeps ==
    ASSUME SessionInv, DeviceAnswers
    PROVE  SessionInv'
<1> DEFINE R == Received
<1>1. DeviceReceives
  BY DEF DeviceAnswers
<1>2. \/ \E check : Refuse("device", check)
      \/ /\ DeviceCheck(R) = "none"
         /\ \/ R.stage = 1 /\ Send("device", OpeningsFor(R), Absent)
            \/ R.stage # 1 /\ Send("device", SignaturesFor(R), Absent)
  BY DEF DeviceAnswers, HOST_COMMIT
<1>3. CASE \E check : Refuse("device", check)
  BY <1>3, QuietStep DEF Refuse
<1>4. CASE DeviceCheck(R) = "none" /\ R.stage = 1 /\ Send("device", OpeningsFor(R), Absent)
  BY <1>1, <1>4, DeviceOpens
<1>5. CASE DeviceCheck(R) = "none" /\ R.stage # 1 /\ Send("device", SignaturesFor(R), Absent)
  <2>1. R # Rejected /\ R.stage = 3
    BY <1>5, DevicePasses
  <2>2. IsMessage(R)
    BY <2>1, ReceivedIs
  <2> DEFINE m == SignaturesFor(R)
  <2>3. m.stage = 4
    BY <2>2, SignaturesForIs
  <2>4. Send("device", m, Absent)
    BY <1>5
  <2>5. DOMAIN sent = 1..4
    BY DEF SessionInv, MessagesInv
  <2> HIDE DEF m
  <2>6. Refuse("device", "encode")
        \/ (/\ DOMAIN sent' = 1..4 /\ sent'[4] = m
            /\ \A j \in 1..4 : j # 4 => sent'[j] = sent[j]
            /\ "stage" \in DOMAIN wire' /\ wire'.stage = 4
            /\ UNCHANGED <<psbt, h, altered, signed>>)
    BY <2>3, <2>4, <2>5, SendIs
  <2>7. CASE Refuse("device", "encode")
    BY <2>7, QuietStep DEF Refuse
  <2>8. CASE /\ DOMAIN sent' = 1..4 /\ sent'[4] = m
             /\ \A j \in 1..4 : j # 4 => sent'[j] = sent[j]
             /\ "stage" \in DOMAIN wire' /\ wire'.stage = 4
             /\ UNCHANGED <<psbt, h, altered, signed>>
    BY <1>1, <1>5, <2>1, <2>8, DeviceSigns
  <2> QED
    BY <2>6, <2>7, <2>8
<1> QED
  BY <1>2, <1>3, <1>4, <1>5

LEMMA DeviceOwnNonceKeeps ==
    ASSUME SessionInv, DeviceOwnNonce
    PROVE  SessionInv'
<1> DEFINE R == Received
           honest == SignaturesFor(R)
<1>1. /\ DeviceReceives /\ altered = "no" /\ DeviceCheck(R) = "none" /\ R.stage = 3
      /\ \E n, own : SendsOwn([honest EXCEPT !.slots[n].signature = own])
  BY DEF DeviceOwnNonce, HOST_REVEAL
<1>2. PICK n, own : SendsOwn([honest EXCEPT !.slots[n].signature = own])
  BY <1>1
<1>3. R # Rejected
  BY <1>1, DevicePasses
<1>4. IsMessage(R)
  BY <1>3, ReceivedIs
<1>5. "stage" \in DOMAIN honest /\ honest.stage = 4
  BY <1>4, SignaturesForIs
<1> DEFINE m == [honest EXCEPT !.slots[n].signature = own]
<1>6. m.stage = 4
  <2> HIDE DEF honest
  <2> QED
    BY <1>5
<1> HIDE DEF m
<1>7. DOMAIN sent = 1..4
  BY DEF SessionInv, MessagesInv
<1>8. /\ DOMAIN sent' = 1..4 /\ sent'[4] = m /\ \A j \in 1..4 : j # 4 => sent'[j] = sent[j]
      /\ wire' = Package(m, Absent) /\ altered' = "nonce" /\ UNCHANGED <<psbt, h, signed>>
  BY <1>2, <1>7 DEF SendsOwn, SIGNER_SIGNATURES, m
<1>9. wire'.stage = 4
  BY <1>6, <1>8 DEF Package
<1> QED
  BY <1>1, <1>8, <1>9, DeviceSigns

-----------------------------------------------------------------------------
\* What goes wrong on the way keeps the stage the package states, once message 2 is sent.
LEMMA AlterKeeps ==
    ASSUME SessionInv, NEW how, NEW package, how # "no", Alter(how, package),
           sent[2] # Absent => package.stage = wire.stage
    PROVE  SessionInv'
<1>1. /\ altered = "no" /\ altered' # "no" /\ wire # Absent /\ signed = Absent
      /\ wire' = package /\ UNCHANGED <<psbt, h, sent, signed>>
  BY DEF Alter, Running
<1>2. SignedSlots' /\ FirstTurn'
  BY <1>1 DEF SignedSlots, FirstTurn
<1>3. MessagesInv'
  <2>1. sent[4] # Absent => sent[3] # Absent
    BY <1>1 DEF SessionInv, MessagesInv
  <2> QED
    BY <1>1, <2>1 DEF SessionInv, MessagesInv
<1>4. SecondTurn'
  BY <1>1 DEF SessionInv, SecondTurn
<1>5. ThirdTurn' /\ LastTurn'
  <2>1. sent[3] # Absent => sent[2] # Absent
    BY DEF SessionInv, MessagesInv
  <2> QED
    BY <1>1, <2>1 DEF SessionInv, ThirdTurn, LastTurn
<1> QED
  BY <1>2, <1>3, <1>4, <1>5 DEF SessionInv

LEMMA DamageKeepsStage ==
    ASSUME "stage" \in DOMAIN wire, Damage
    PROVE  \E package : Alter("damage", package) /\ package.stage = wire.stage
<1>1. \A records : WithRecords(records).stage = wire.stage
                   /\ "stage" \in DOMAIN WithRecords(records)
  BY DEF WithRecords
<1>2. \A order, lengths : Relaid(order, lengths).stage = wire.stage
  <2> SUFFICES ASSUME NEW order, NEW lengths
               PROVE  Relaid(order, lengths).stage = wire.stage
    OBVIOUS
  <2> DEFINE records == FlattenSeq([k \in DOMAIN order |-> Record(order[k])])
             count == Len(order)
             length == Len(records)
  <2>1. \/ Relaid(order, lengths) = WithRecords(records)
        \/ Relaid(order, lengths) = [WithRecords(records) EXCEPT !.message.slot_count = count,
                                                              !.message.payload_length = length]
    BY DEF Relaid
  <2> HIDE DEF records, count, length
  <2>2. WithRecords(records).stage = wire.stage /\ "stage" \in DOMAIN WithRecords(records)
    BY <1>1
  <2> QED
    BY <2>1, <2>2
<1>3. /\ \A message : [wire EXCEPT !.message = message].stage = wire.stage
      /\ \A network : [wire EXCEPT !.message.network = network].stage = wire.stage
      /\ [wire EXCEPT !.message.session_id = OtherSession].stage = wire.stage
      /\ \A raw : [wire EXCEPT !.psbt = raw].stage = wire.stage
      /\ \A raw, digest :
            [wire EXCEPT !.message.psbt_digest = digest, !.psbt = raw].stage = wire.stage
  OBVIOUS
<1> DEFINE Shifted(f, d) == [wire.message EXCEPT ![f] = @ + d]
           Records == \E records : Alter("damage", WithRecords(records))
           Orders == \E order, lengths : Alter("damage", Relaid(order, lengths))
           Shifts == \E message : Alter("damage", [wire EXCEPT !.message = message])
           Networks == \E network : Alter("damage", [wire EXCEPT !.message.network = network])
           Sessions == Alter("damage", [wire EXCEPT !.message.session_id = OtherSession])
           Psbts == \E raw : Alter("damage", [wire EXCEPT !.psbt = raw])
           Digests == \E raw, digest :
               Alter("damage", [wire EXCEPT !.message.psbt_digest = digest, !.psbt = raw])
<1>4. Records \/ Orders \/ Shifts \/ Networks \/ Sessions \/ Psbts \/ Digests
  <2>1. \/ Records \/ Orders \/ Networks \/ Sessions \/ Psbts \/ Digests
        \/ \E f, d : Alter("damage", [wire EXCEPT !.message = Shifted(f, d)])
    BY Zenon DEF Damage
  <2> QED
    BY <2>1
<1>5. CASE Records \/ Orders
  BY <1>1, <1>2, <1>5
<1>6. CASE Shifts
  BY <1>3, <1>6
<1>7. CASE Networks
  BY <1>3, <1>7
<1>8. CASE Sessions
  BY <1>3, <1>8
<1>9. CASE Psbts
  BY <1>3, <1>9
<1>10. CASE Digests
  BY <1>3, <1>10
<1> QED
  BY <1>4, <1>5, <1>6, <1>7, <1>8, <1>9, <1>10

LEMMA NoCaseIsNo == "no" \notin DOMAIN ExpectedCheck
  BY TranscriptAssumption DEF ExpectedCheck

LEMMA AlterationKeeps ==
    ASSUME SessionInv, (wire # Absent /\ Damage) \/ PresentCase
    PROVE  SessionInv'
<1>1. CASE wire # Absent /\ Damage
  <2>1. \E package : Alter("damage", package)
    BY <1>1 DEF Damage
  <2>2. altered = "no"
    BY <2>1 DEF Alter
  <2>3. "stage" \in DOMAIN wire
    BY <1>1, <2>2 DEF SessionInv, MessagesInv
  <2>4. PICK package : Alter("damage", package) /\ package.stage = wire.stage
    BY <1>1, <2>3, DamageKeepsStage
  <2> QED
    BY <2>4, AlterKeeps
<1>2. CASE PresentCase
  <2>1. PICK case \in DOMAIN ExpectedCheck : Alter(case, CorpusPackage(case))
    BY <1>2 DEF PresentCase
  <2>2. sent[2] = Absent
    BY <1>2 DEF PresentCase, Awaits, HOST_COMMIT
  <2>3. case # "no"
    BY <2>1, NoCaseIsNo
  <2> QED
    BY <2>1, <2>2, <2>3, AlterKeeps
<1> QED
  BY <1>1, <1>2

-----------------------------------------------------------------------------
\* The signatures of message 4, checked against message 1, are for the slots the root
\* enumerates: commitments differ, so slots do, and there are as many of them.
LEMMA SlotsCovered ==
    ASSUME NEW raw, NEW m, IsMessage(m), MatchesRoot(raw, m),
           \A i, j \in DOMAIN m.slots :
              i # j => Identifier(m.slots[i]) # Identifier(m.slots[j])
    PROVE  ByRoot(raw) = {[input_index |-> m.slots[n].input_index,
                           signer_pubkey |-> m.slots[n].signer_pubkey,
                           message_hash |-> m.slots[n].message_hash] : n \in DOMAIN m.slots}
<1> DEFINE D == DOMAIN m.slots
           Own(n) == [input_index |-> m.slots[n].input_index,
                      signer_pubkey |-> m.slots[n].signer_pubkey,
                      message_hash |-> m.slots[n].message_hash]
           f == [n \in D |-> Own(n)]
<1>1. Len(m.slots) \in Nat /\ D = 1..Len(m.slots)
  BY SequenceShape DEF IsMessage
<1>2. IsFiniteSet(D) /\ Cardinality(D) = Len(m.slots)
  BY <1>1, FS_Interval
<1>3. \A n \in D : Own(n) \in ByRoot(raw)
  BY DEF MatchesRoot
<1>4. \A i, j \in D : Own(i) = Own(j) => i = j
  <2> SUFFICES ASSUME NEW i \in D, NEW j \in D, Own(i) = Own(j)
               PROVE  i = j
    OBVIOUS
  <2>1. Own(i).input_index = Own(j).input_index /\ Own(i).signer_pubkey = Own(j).signer_pubkey
    OBVIOUS
  <2>2. Identifier(m.slots[i]) = Identifier(m.slots[j])
    BY <2>1 DEF Identifier
  <2> QED
    BY <2>2
<1>5. Cardinality(D) = Cardinality(ByRoot(raw))
  BY <1>2 DEF MatchesRoot
<1> HIDE DEF Own, D
<1>6. f \in Injection(D, ByRoot(raw))
  BY <1>3, <1>4 DEF Injection, IsInjective
<1>7. f \in Surjection(D, ByRoot(raw))
  BY <1>5, <1>6, EnumerationsFinite, FS_Injection
<1>8. ByRoot(raw) = {Own(n) : n \in D}
  <2>1. \A slot \in ByRoot(raw) : \E n \in D : slot = Own(n)
    BY <1>7 DEF Surjection
  <2> HIDE DEF f
  <2> QED
    BY <1>3, <2>1
<1> QED
  BY <1>8 DEF Own, D

LEMMA HostCompleteSigns ==
    ASSUME SessionInv, sent[3] # Absent, sent[4] # Absent, NEW R, IsMessage(R),
           ValidTransition(sent[3], R), SignaturesVerify(R),
           Reconstructs(h, PsbtOf[psbt], psbt, sent[1], R, SessionRhos),
           signed' = PartialSignatures(R), UNCHANGED <<psbt, h, sent>>
    PROVE  SignedSlots'
<1> DEFINE M1 == sent[1].slots
           M2 == sent[2].slots
           M3 == sent[3].slots
           M4 == R.slots
           D == DOMAIN M1
<1>1. /\ IsMessage(sent[1]) /\ ValidMessage(sent[1])
      /\ IsMessage(sent[2]) /\ IsMessage(sent[3]) /\ sent[3].stage = 3
      /\ SameSlots(sent[1], sent[3]) /\ Kept(sent[2], sent[3]) /\ MatchesRoot(psbt, sent[1])
  BY DEF SessionInv, MessagesInv, LastTurn
<1>2. DOMAIN M3 = D /\ DOMAIN M2 = D /\ DOMAIN M4 = D
  <2>1. DOMAIN M3 = D
    BY <1>1, SameLength DEF SameSlots
  <2>2. DOMAIN M3 = DOMAIN M2
    BY <1>1, SameLength DEF Kept
  <2>3. DOMAIN M4 = DOMAIN M3
    BY <1>1, SameLength DEF ValidTransition
  <2> QED
    BY <2>1, <2>2, <2>3
<1>3. \A n \in D : /\ Identifier(M2[n]) = Identifier(M1[n])
                   /\ Identifier(M3[n]) = Identifier(M1[n])
                   /\ Identifier(M4[n]) = Identifier(M1[n])
                   /\ M4[n].message_hash = M1[n].message_hash
                   /\ M4[n].opening = M2[n].opening
  <2> SUFFICES ASSUME NEW n \in D
               PROVE  /\ Identifier(M2[n]) = Identifier(M1[n])
                      /\ Identifier(M3[n]) = Identifier(M1[n])
                      /\ Identifier(M4[n]) = Identifier(M1[n])
                      /\ M4[n].message_hash = M1[n].message_hash
                      /\ M4[n].opening = M2[n].opening
    OBVIOUS
  <2>1. Identifier(M3[n]) = Identifier(M1[n]) /\ M3[n].message_hash = M1[n].message_hash
    BY <1>1 DEF SameSlots
  <2>2. Identifier(M3[n]) = Identifier(M2[n]) /\ M3[n].opening = M2[n].opening
    BY <1>1, <1>2 DEF Kept
  <2>3. /\ Identifier(M3[n]) = Identifier(M4[n]) /\ M3[n].message_hash = M4[n].message_hash
        /\ M3[n].opening = M4[n].opening
    BY <1>1, <1>2 DEF ValidTransition, SIGNER_OPENINGS
  <2> QED
    BY <2>1, <2>2, <2>3
<1>4. \A n \in D : /\ SessionRhos[Identifier(M1[n])] = Rho(Identifier(M1[n]))
                   /\ HostCommit(Rho(Identifier(M1[n]))) = M1[n].commitment
                   /\ M1[n].message_hash = PsbtOf[psbt][M1[n].input_index].sighash
  <2>1. \A n \in D : SessionRhos[Identifier(M1[n])] = Rho(Identifier(M1[n]))
    BY DEF SessionRhos, HOST_COMMIT
  <2>2. \A n \in D : HostCommit(SessionRhos[Identifier(M1[n])]) = M1[n].commitment
    BY DEF Reconstructs
  <2>3. \A n \in D : M1[n].message_hash = PsbtOf[psbt][M1[n].input_index].sighash
    BY DEF Reconstructs, ProtocolSlotsValid
  <2> QED
    BY <2>1, <2>2, <2>3
<1>5. \A i, j \in D : i # j => Identifier(M1[i]) # Identifier(M1[j])
  <2>1. \A n \in D : \A k \in 1..(n - 1) : M1[k].commitment # M1[n].commitment
    BY <1>1 DEF ValidMessage
  <2>2. Len(M1) \in Nat /\ D = 1..Len(M1)
    BY <1>1, SequenceShape DEF IsMessage
  <2> HIDE DEF M1, D
  <2>3. \A i, j \in D : i # j => M1[i].commitment # M1[j].commitment
    <3>1. \A i, j \in D : i # j => i \in 1..(j - 1) \/ j \in 1..(i - 1)
      BY <2>2
    <3> QED
      BY <2>1, <3>1
  <2> QED
    BY <1>4, <2>3
<1>6. \A n \in D : M4[n].input_index = M1[n].input_index
                   /\ M4[n].signer_pubkey = M1[n].signer_pubkey
  BY <1>3 DEF Identifier
<1> DEFINE Import(n) == [input_index |-> M4[n].input_index, signer_pubkey |-> M4[n].signer_pubkey,
                         signature |-> M4[n].signature]
           Own(n) == [input_index |-> M1[n].input_index, signer_pubkey |-> M1[n].signer_pubkey,
                      message_hash |-> M1[n].message_hash]
           Asked(s) == [input_index |-> s.input_index, signer_pubkey |-> s.signer_pubkey,
                        message_hash |-> PsbtOf[psbt][s.input_index].sighash]
<1>7. signed' = {Import(n) : n \in D}
  BY <1>2 DEF PartialSignatures
<1>8. \A n \in D : /\ Identifier(Import(n)) = Identifier(M1[n])
                   /\ Import(n).signer_pubkey = M4[n].signer_pubkey
                   /\ Import(n).signature = M4[n].signature
                   /\ Import(n).input_index = M1[n].input_index
                   /\ Asked(Import(n)) = Own(n)
  BY <1>4, <1>6 DEF Identifier
<1>9. {Asked(s) : s \in signed'} = ByRoot(psbt)
  <2>1. ByRoot(psbt) = {Own(n) : n \in D}
    BY <1>1, <1>5, SlotsCovered
  <2> HIDE DEF Own, Asked, Import, D, M1, M4
  <2> QED
    BY <1>7, <1>8, <2>1
<1>10. ASSUME NEW n \in D
       PROVE  VerifyAntiExfil(h, M4[n].signer_pubkey, PsbtOf[psbt][M1[n].input_index].sighash,
                              Rho(Identifier(M1[n])), M2[n].opening, M4[n].signature)
  <2>1. VerifyAntiExfil(h, M4[n].signer_pubkey, M4[n].message_hash,
                        SessionRhos[Identifier(M4[n])], M4[n].opening, M4[n].signature)
    BY <1>2 DEF SignaturesVerify
  <2> HIDE DEF M1, M2, M4, D
  <2> QED
    BY <1>3, <1>4, <2>1
<1> DEFINE openings(s) == {o \in ToSet(M2) : Identifier(o) = Identifier(s)}
<1>11. ASSUME NEW n \in D
       PROVE  /\ EcdsaVerify(Import(n).signer_pubkey,
                             PsbtOf[psbt][Import(n).input_index].sighash, Import(n).signature)
              /\ \A o \in openings(Import(n)) :
                    CommittedPoint(h, Rho(Identifier(Import(n))), o.opening).x % GroupN
                        = Import(n).signature.r
  <2>1. ASSUME NEW o \in openings(Import(n))
        PROVE  o = M2[n]
    <3>1. PICK j \in D : o = M2[j]
      BY <1>2 DEF ToSet
    <3>2. Identifier(M2[j]) = Identifier(M1[n])
      BY <1>8, <3>1
    <3>3. j = n
      BY <1>3, <1>5, <3>2
    <3> QED
      BY <3>1, <3>3
  <2> HIDE DEF openings, Import, M1, M2, M4, D
  <2>2. /\ CommittedPoint(h, Rho(Identifier(M1[n])), M2[n].opening).x % GroupN = M4[n].signature.r
        /\ EcdsaVerify(M4[n].signer_pubkey, PsbtOf[psbt][M1[n].input_index].sighash,
                       M4[n].signature)
    BY <1>10 DEF VerifyAntiExfil
  <2> QED
    BY <1>8, <2>1, <2>2
<1> HIDE DEF Import, D
<1>12. \A s \in signed' :
           /\ EcdsaVerify(s.signer_pubkey, PsbtOf[psbt][s.input_index].sighash, s.signature)
           /\ \A o \in openings(s) :
                 CommittedPoint(h, Rho(Identifier(s)), o.opening).x % GroupN = s.signature.r
  BY <1>7, <1>11
<1> QED
  BY <1>9, <1>12 DEF SignedSlots, SIGNER_OPENINGS

LEMMA HostCompleteKeeps ==
    ASSUME SessionInv, HostComplete
    PROVE  SessionInv'
<1>1. sent[3] # Absent /\ sent[4] # Absent
  BY DEF HostComplete, HOST_REVEAL, SIGNER_SIGNATURES
<1>2. \/ \E check : Refuse("host", check)
      \/ /\ Received # Rejected /\ ValidTransition(sent[3], Received)
         /\ SignaturesVerify(Received)
         /\ Reconstructs(h, PsbtOf[psbt], psbt, sent[1], Received, SessionRhos)
         /\ signed' = PartialSignatures(Received) /\ wire' = Absent
         /\ UNCHANGED <<psbt, h, sent, altered, refusal>>
  BY DEF HostComplete, HOST_COMMIT, HOST_REVEAL
<1>3. CASE \E check : Refuse("host", check)
  BY <1>3, QuietStep DEF Refuse
<1>4. CASE /\ Received # Rejected /\ ValidTransition(sent[3], Received)
           /\ SignaturesVerify(Received)
           /\ Reconstructs(h, PsbtOf[psbt], psbt, sent[1], Received, SessionRhos)
           /\ signed' = PartialSignatures(Received) /\ wire' = Absent
           /\ UNCHANGED <<psbt, h, sent, altered, refusal>>
  <2>1. IsMessage(Received)
    BY <1>4, ReceivedIs
  <2>2. SignedSlots'
    BY <1>1, <1>4, <2>1, HostCompleteSigns
  <2>3. MessagesInv' /\ FirstTurn' /\ SecondTurn' /\ ThirdTurn' /\ LastTurn'
    BY <1>1, <1>4
       DEF SessionInv, MessagesInv, FirstTurn, SecondTurn, ThirdTurn, LastTurn
  <2> QED
    BY <2>2, <2>3 DEF SessionInv
<1> QED
  BY <1>2, <1>3, <1>4

LEMMA SessionSteps ==
    ASSUME SessionInv, [Next]_vars
    PROVE  SessionInv'
<1>1. CASE HostInit
  BY <1>1, HostInitKeeps
<1>2. CASE HostAcceptOpenings
  BY <1>2, HostAcceptOpeningsKeeps
<1>3. CASE HostComplete
  BY <1>3, HostCompleteKeeps
<1>4. CASE DeviceAnswers
  BY <1>4, DeviceAnswersKeeps
<1>5. CASE DeviceOwnNonce
  BY <1>5, DeviceOwnNonceKeeps
<1>6. CASE (wire # Absent /\ Damage) \/ PresentCase
  BY <1>6, AlterationKeeps
<1>7. CASE UNCHANGED vars
  <2>1. UNCHANGED <<psbt, h, sent, wire, altered, refusal, signed>>
    BY <1>7 DEF vars
  <2>2. SignedSlots'
    BY <2>1, SignedSame DEF SessionInv
  <2>3. MessagesInv' /\ FirstTurn' /\ SecondTurn' /\ ThirdTurn' /\ LastTurn'
    BY <2>1 DEF SessionInv, MessagesInv, FirstTurn, SecondTurn, ThirdTurn, LastTurn,
                OpeningsUnderWay, RevealUnderWay
  <2> QED
    BY <2>2, <2>3 DEF SessionInv
<1> QED
  BY <1>1, <1>2, <1>3, <1>4, <1>5, <1>6, <1>7 DEF Next

\* Whatever PSBT is signed, whatever the hash functions, and whichever one thing goes wrong on
\* the way, signatures are imported for exactly the slots the owner of the root would
\* enumerate, and each has for its nonce point the opening of message 2 tweaked by the host's
\* own rho (host_complete_v1, reconstruct_signed_psbt_v1, verify_anti_exfil).
THEOREM SlotsSigned == Spec => []SignedSlots
<1>1. SessionInv => SignedSlots
  BY DEF SessionInv
<1> QED
  BY <1>1, InitSession, SessionSteps, PTL DEF Spec

-----------------------------------------------------------------------------
(***************************************************************************)
(* The arithmetic                                                          *)
(***************************************************************************)

\* The remainder is the one number below n at a multiple of n.
LEMMA Division ==
    ASSUME NEW n \in Nat, n > 0, NEW a \in Int
    PROVE  /\ a % n \in 0..(n - 1) /\ a \div n \in Int /\ a = n * (a \div n) + (a % n)
           /\ \A q \in Int : (a + n * q) % n = a % n
           /\ a \in 0..(n - 1) => a % n = a
<1>1. a % n \in 0..(n - 1) /\ a \div n \in Int /\ a = n * (a \div n) + (a % n)
  OBVIOUS
<1>2. \A q \in Int, r \in 0..(n - 1) : (n * q + r) % n = r
  OBVIOUS
<1>3. ASSUME NEW q \in Int
      PROVE  (a + n * q) % n = a % n
  <2>1. PICK d \in Int, r \in 0..(n - 1) : a = n * d + r /\ r = a % n
    BY <1>1
  <2>2. a + n * q = n * (d + q) + r
    BY <2>1
  <2>3. (n * (d + q) + r) % n = r
    BY <1>2
  <2> QED
    BY <2>1, <2>2, <2>3
<1>4. a \in 0..(n - 1) => a % n = a
  <2>1. a = n * 0 + a
    OBVIOUS
  <2> QED
    BY <1>2, <2>1
<1> QED
  BY <1>1, <1>3, <1>4

\* What is left of a number modulo the group order.
Scalar == 0..(GroupN - 1)

\* The points as a commutative group.
LEMMA GroupFacts ==
    /\ GroupN \in Nat /\ GroupN > 7
    /\ Infinity \in Point
    /\ \A q \in Point : PointAdd(q, Infinity) = q /\ PointAdd(Infinity, q) = q
    /\ \A p, q \in Point : PointAdd(p, q) \in Point /\ PointAdd(p, q) = PointAdd(q, p)
    /\ \A p, q, t \in Point : PointAdd(PointAdd(p, q), t) = PointAdd(p, PointAdd(q, t))
<1>1. \A q : PointAdd(Infinity, q) = q
  BY DEF PointAdd
<1>2. Infinity \in Point
  BY DEF Point
<1> QED
  BY <1>1, <1>2, GroupAssumption, CurveAssumption

\* Equal as scalars.
Like(a, b) == a % GroupN = b % GroupN

\* Sums and products depend on remainders only.
LEMMA Remainders ==
    ASSUME NEW a \in Int, NEW b \in Int, NEW c \in Int, NEW d \in Int, Like(a, b), Like(c, d)
    PROVE  Like(a + c, b + d) /\ Like(a * c, b * d) /\ Like(a - c, b - d)
<1> DEFINE n == GroupN
<1>0. n \in Nat /\ n > 0 /\ a % n = b % n /\ c % n = d % n
  BY GroupFacts DEF Like
<1> HIDE DEF n
<1> USE <1>0
<1>1. PICK k \in Int : a = b + n * k
  <2>1. PICK p \in Int : a = n * p + (a % n)
    BY Division
  <2>2. PICK q \in Int : b = n * q + (b % n)
    BY Division
  <2>3. a % n \in Int
    BY Division
  <2>4. a = b + n * (p - q)
    BY <2>1, <2>2, <2>3
  <2> QED
    BY <2>4
<1>2. PICK l \in Int : c = d + n * l
  <2>1. PICK p \in Int : c = n * p + (c % n)
    BY Division
  <2>2. PICK q \in Int : d = n * q + (d % n)
    BY Division
  <2>3. c % n \in Int
    BY Division
  <2>4. c = d + n * (p - q)
    BY <2>1, <2>2, <2>3
  <2> QED
    BY <2>4
<1>3. a + c = (b + d) + n * (k + l)
  <2>1. \A p, q \in Int : (b + n * p) + (d + n * q) = (b + d) + n * (p + q)
    OBVIOUS
  <2> QED
    BY <1>1, <1>2, <2>1
<1>4. a * c = b * d + n * (b * l + d * k + n * (k * l))
  <2>1. \A u, v \in Int : (b + u) * (d + v) = b * d + (b * v + d * u + u * v)
    OBVIOUS
  <2>2. \A u, v \in Int : u * (n * v) = n * (u * v) /\ (n * u) * (n * v) = n * (n * (u * v))
    OBVIOUS
  <2>3. \A u, v, w \in Int : n * u + n * v + n * w = n * (u + v + w)
    OBVIOUS
  <2>4. n * k \in Int /\ n * l \in Int /\ b * l \in Int /\ d * k \in Int /\ n * (k * l) \in Int
    OBVIOUS
  <2>5. a * c = b * d + (b * (n * l) + d * (n * k) + (n * k) * (n * l))
    BY <1>1, <1>2, <2>1, <2>4
  <2> QED
    BY <2>2, <2>3, <2>4, <2>5
<1>5. a - c = (b - d) + n * (k - l)
  <2>1. \A p, q \in Int : (b + n * p) - (d + n * q) = (b - d) + n * (p - q)
    OBVIOUS
  <2> QED
    BY <1>1, <1>2, <2>1
<1>6. b * l + d * k + n * (k * l) \in Int
  OBVIOUS
<1>7. \A u, v \in Int : (u + n * v) % n = u % n
  BY Division
<1>8. b + d \in Int /\ b * d \in Int /\ b - d \in Int /\ k + l \in Int /\ k - l \in Int
  OBVIOUS
<1>9. (a + c) % n = (b + d) % n
  <2> DEFINE u == b + d
             v == k + l
  <2>1. u \in Int /\ v \in Int /\ a + c = u + n * v
    BY <1>3, <1>8
  <2> HIDE DEF u, v
  <2>2. (a + c) % n = u % n
    BY <1>7, <2>1
  <2> QED
    BY <2>2 DEF u
<1>10. (a * c) % n = (b * d) % n
  <2> DEFINE u == b * d
             v == b * l + d * k + n * (k * l)
  <2>1. u \in Int /\ v \in Int /\ a * c = u + n * v
    BY <1>4, <1>6, <1>8
  <2> HIDE DEF u, v
  <2>2. (a * c) % n = u % n
    BY <1>7, <2>1
  <2> QED
    BY <2>2 DEF u
<1>11. (a - c) % n = (b - d) % n
  <2> DEFINE u == b - d
             v == k - l
  <2>1. u \in Int /\ v \in Int /\ a - c = u + n * v
    BY <1>5, <1>8
  <2> HIDE DEF u, v
  <2>2. (a - c) % n = u % n
    BY <1>7, <2>1
  <2> QED
    BY <2>2 DEF u
<1> QED
  BY <1>9, <1>10, <1>11 DEF Like, n


\* Calculating modulo the group order.
LEMMA LikeLaws ==
    /\ \A a \in Int : Like(a, a) /\ Like(a % GroupN, a) /\ a % GroupN \in Scalar /\ a % GroupN \in Int
    /\ \A a, b \in Int : Like(a, b) => Like(b, a)
    /\ \A a, b, c \in Int : Like(a, b) /\ Like(b, c) => Like(a, c)
    /\ \A a, b, c, d \in Int :
          Like(a, b) /\ Like(c, d) => Like(a + c, b + d) /\ Like(a * c, b * d) /\ Like(a - c, b - d)
    /\ \A a \in Scalar : a \in Int /\ a % GroupN = a
<1>1. \A a \in Int : a % GroupN \in Scalar /\ a % GroupN \in Int
  BY Division, GroupFacts DEF Scalar
<1>2. \A a \in Scalar : a \in Int /\ a % GroupN = a
  BY Division, GroupFacts DEF Scalar
<1>3. ASSUME NEW a \in Int, NEW b \in Int, NEW c \in Int, NEW d \in Int, Like(a, b), Like(c, d)
      PROVE  Like(a + c, b + d) /\ Like(a * c, b * d) /\ Like(a - c, b - d)
  BY <1>3, Remainders
<1>4. \A a \in Int : Like(a % GroupN, a)
  BY <1>1, <1>2 DEF Like
<1>5. \A a, b, c \in Int : Like(a, a) /\ (Like(a, b) => Like(b, a))
                            /\ (Like(a, b) /\ Like(b, c) => Like(a, c))
  BY DEF Like
<1> QED
  BY <1>1, <1>2, <1>3, <1>4, <1>5, Zenon

\* One turn of the loop of point_mul, the other turns being g.
Turn(g, k, q) ==
    IF k = 0 THEN Infinity
    ELSE IF k % 2 = 1 THEN PointAdd(q, g[<<k \div 2, PointAdd(q, q)>>])
    ELSE g[<<k \div 2, PointAdd(q, q)>>]

\* Halving a scalar.
LEMMA Halves ==
    ASSUME NEW k \in Nat, k # 0
    PROVE  k \div 2 \in Nat /\ k \div 2 < k /\ k % 2 \in {0, 1} /\ k = 2 * (k \div 2) + (k % 2)
OBVIOUS

\* A turn yields a point, and looks at the other turns at half the scalar only.
LEMMA TurnIs ==
    ASSUME NEW g \in [Scalar \X Point -> Point], NEW k \in Scalar, NEW q \in Point
    PROVE  Turn(g, k, q) \in Point /\ (k # 0 => k \div 2 \in Scalar /\ PointAdd(q, q) \in Point)
<1>1. CASE k = 0
  BY <1>1, GroupFacts DEF Turn
<1>2. CASE k # 0
  <2>1. k \div 2 \in Scalar
    BY <1>2, Halves, GroupFacts DEF Scalar
  <2>2. PointAdd(q, q) \in Point
    BY GroupFacts
  <2>3. g[<<k \div 2, PointAdd(q, q)>>] \in Point
    BY <2>1, <2>2
  <2> QED
    BY <1>2, <2>1, <2>2, <2>3, GroupFacts DEF Turn
<1> QED
  BY <1>1, <1>2

\* The recursion has a solution: after i turns nothing changes for scalars below i.
LEMMA DoubleAndAddIs ==
    /\ DoubleAndAdd \in [Scalar \X Point -> Point]
    /\ \A k \in Scalar, q \in Point : DoubleAndAdd[<<k, q>>] = Turn(DoubleAndAdd, k, q)
<1> DEFINE T == [Scalar \X Point -> Point]
           Step(g) == [factors \in Scalar \X Point |-> Turn(g, factors[1], factors[2])]
           n == GroupN + 1
           step == [p \in (1..n) \X T |-> Step(p[2])]
           start == [factors \in Scalar \X Point |-> Infinity]
<1>1. start \in T /\ n \in Nat
  BY GroupFacts
<1>2. \A g \in T : Step(g) \in T
  BY TurnIs
<1>3. step \in [(1..n) \X T -> T] /\ \A i \in 1..n, g \in T : step[<<i, g>>] = Step(g)
  <2> HIDE DEF T, Step
  <2> QED
    BY <1>2
<1>4. PICK f \in [1..n -> T] : Iterates(f, n, start, step)
  <2> HIDE DEF T, step, start, n
  <2> QED
    BY <1>1, <1>3, IterationExists
<1>5. ASSUME NEW i \in 2..n
      PROVE  i - 1 \in 1..n /\ i \in 1..n /\ f[i - 1] \in T /\ f[i] = Step(f[i - 1])
  <2> HIDE DEF T, step, start, Step
  <2>1. i - 1 \in 1..n /\ i \in 1..n /\ i # 1
    BY <1>1
  <2> HIDE DEF n
  <2> QED
    BY <1>3, <1>4, <2>1 DEF Iterates
<1> HIDE DEF n
<1> DEFINE Settled(i) == \A k \in Scalar, q \in Point : k < i => f[i + 1][<<k, q>>] = f[i][<<k, q>>]
           M == {i \in 1..GroupN : Settled(i)}
<1>6. 1 \in M
  <2>1. f[2] = Step(f[1])
    <3>1. 2 \in 2..n /\ 2 - 1 = 1
      BY GroupFacts DEF n
    <3> HIDE DEF Step, T
    <3> QED
      BY <1>5, <3>1
  <2>2. f[1] = start
    <3>1. 1 \in 1..n
      BY GroupFacts DEF n
    <3> HIDE DEF step, start, T
    <3> QED
      BY <1>4, <3>1 DEF Iterates
  <2>3. ASSUME NEW k \in Scalar, NEW q \in Point, k < 1
        PROVE  f[2][<<k, q>>] = f[1][<<k, q>>]
    <3>1. k = 0
      BY <2>3, GroupFacts DEF Scalar
    <3> QED
      BY <2>1, <2>2, <3>1 DEF Turn
  <2> QED
    BY <2>3, GroupFacts
<1>7. ASSUME NEW i \in 1..(GroupN - 1), i \in M
      PROVE  i + 1 \in M
  <2>1. i + 1 \in 2..n /\ i + 2 \in 2..n /\ (i + 2) - 1 = i + 1 /\ (i + 1) - 1 = i /\ i + 1 \in 1..GroupN
    BY GroupFacts DEF n
  <2>2. /\ f[i + 2] = Step(f[i + 1]) /\ f[i + 1] = Step(f[i])
    BY <1>5, <2>1
  <2>3. Settled(i)
    BY <1>7
  <2>4. ASSUME NEW k \in Scalar, NEW q \in Point, k < i + 1
        PROVE  f[i + 2][<<k, q>>] = f[i + 1][<<k, q>>]
    <3>1. Turn(f[i + 1], k, q) = Turn(f[i], k, q)
      <4>1. CASE k = 0
        BY <4>1 DEF Turn
      <4>2. CASE k # 0
        <5>1. k \div 2 \in Scalar /\ k \div 2 < i /\ PointAdd(q, q) \in Point
          BY <2>4, <4>2, Halves, GroupFacts DEF Scalar
        <5>2. f[i + 1][<<k \div 2, PointAdd(q, q)>>] = f[i][<<k \div 2, PointAdd(q, q)>>]
          BY <2>3, <5>1
        <5> QED
          BY <5>2 DEF Turn
      <4> QED
        BY <4>1, <4>2
    <3> QED
      BY <2>2, <3>1
  <2>5. Settled(i + 1)
    <3>1. (i + 1) + 1 = i + 2
      OBVIOUS
    <3> QED
      BY <2>4, <3>1
  <2> QED
    BY <2>1, <2>5
<1>8. GroupN \in M
  <2>1. \A i \in 1..GroupN : i \in M
    <3> HIDE DEF M
    <3> QED
      BY <1>6, <1>7, GroupFacts, IntervalInduction
  <2> QED
    BY <2>1, GroupFacts
<1> DEFINE g == f[GroupN]
<1>9. g \in T /\ g = Step(g)
  <2>1. /\ GroupN + 1 \in 2..n /\ GroupN \in 1..n /\ (GroupN + 1) - 1 = GroupN
    BY GroupFacts DEF n
  <2>2. f[GroupN + 1] = Step(g) /\ g \in T
    BY <1>5, <2>1
  <2>3. \A k \in Scalar, q \in Point : Step(g)[<<k, q>>] = g[<<k, q>>]
    <3> SUFFICES ASSUME NEW k \in Scalar, NEW q \in Point
                 PROVE  Step(g)[<<k, q>>] = g[<<k, q>>]
      OBVIOUS
    <3>1. k < GroupN
      BY GroupFacts DEF Scalar
    <3>2. f[GroupN + 1][<<k, q>>] = f[GroupN][<<k, q>>]
      BY <1>8, <3>1
    <3> HIDE DEF T, Step
    <3> QED
      BY <2>2, <3>2
  <2>4. Step(g) \in T
    BY <1>2, <2>2
  <2> HIDE DEF g, Step
  <2> QED
    BY <2>2, <2>3, <2>4
<1>10. DoubleAndAdd = Step(DoubleAndAdd)
  <2>1. DoubleAndAdd = CHOOSE e : e = Step(e)
    BY DEF DoubleAndAdd, Turn, Scalar
  <2> HIDE DEF Step, g
  <2> QED
    BY <1>9, <2>1
<1>11. \A e : e = Step(e) => e = g
  <2> SUFFICES ASSUME NEW e, e = Step(e)
               PROVE  e = g
    OBVIOUS
  <2> DEFINE Agree(i) == \A k \in Scalar, q \in Point : k < i => e[<<k, q>>] = g[<<k, q>>]
             E == {i \in Nat : Agree(i)}
  <2> HIDE DEF g
  <2>1. 0 \in E
    BY GroupFacts DEF Scalar
  <2>2. ASSUME NEW i \in Nat, i \in E
        PROVE  i + 1 \in E
    <3> SUFFICES Agree(i + 1)
      <4> HIDE DEF Agree, Step
      <4> QED
        OBVIOUS
    <3>0. SUFFICES ASSUME NEW k \in Scalar, NEW q \in Point, k < i + 1
                   PROVE  e[<<k, q>>] = g[<<k, q>>]
      OBVIOUS
    <3>1. e[<<k, q>>] = Turn(e, k, q) /\ g[<<k, q>>] = Turn(g, k, q)
      BY <1>9
    <3>2. CASE k = 0
      BY <3>1, <3>2 DEF Turn
    <3>3. CASE k # 0
      <4>1. k \div 2 \in Scalar /\ k \div 2 < i /\ PointAdd(q, q) \in Point
        BY <3>0, <3>3, Halves, GroupFacts DEF Scalar
      <4>2. e[<<k \div 2, PointAdd(q, q)>>] = g[<<k \div 2, PointAdd(q, q)>>]
        BY <2>2, <4>1
      <4>3. Turn(e, k, q) = Turn(g, k, q)
        <5> HIDE DEF Agree, E
        <5> QED
          BY <4>2 DEF Turn
      <4> QED
        BY <3>1, <4>3
    <3> QED
      BY <3>2, <3>3
  <2>3. \A i \in Nat : i \in E
    <3> HIDE DEF E
    <3> QED
      BY <2>1, <2>2, NatSetInduction
  <2>4. \A k \in Scalar, q \in Point : e[<<k, q>>] = g[<<k, q>>]
    <3> SUFFICES ASSUME NEW k \in Scalar, NEW q \in Point
                 PROVE  e[<<k, q>>] = g[<<k, q>>]
      OBVIOUS
    <3>1. GroupN \in E
      <4> HIDE DEF E
      <4> QED
        BY <2>3, GroupFacts
    <3>2. k < GroupN
      BY GroupFacts DEF Scalar
    <3> QED
      BY <3>1, <3>2
  <2>5. Step(e) = Step(g)
    <3> SUFFICES ASSUME NEW k \in Scalar, NEW q \in Point
                 PROVE  Turn(e, k, q) = Turn(g, k, q)
      OBVIOUS
    <3> QED
      BY <2>4, TurnIs, <1>9 DEF Turn
  <2> HIDE DEF Step
  <2> QED
    BY <1>9, <2>5
<1> QED
  BY <1>9, <1>10, <1>11

\* The loop adds q as often as the scalar says.
LEMMA OneMore ==
    ASSUME NEW m \in Nat, m + 1 < GroupN, NEW p \in Point
    PROVE  DoubleAndAdd[<<m + 1, p>>] = PointAdd(DoubleAndAdd[<<m, p>>], p)
<1> DEFINE Adds(k, q) == DoubleAndAdd[<<k + 1, q>>] = PointAdd(DoubleAndAdd[<<k, q>>], q)
           Below(i) == \A k \in Nat, q \in Point : k < i /\ k + 1 < GroupN => Adds(k, q)
           S == {i \in Nat : Below(i)}
<1>1. 0 \in S
  OBVIOUS
<1>2. ASSUME NEW i \in Nat, i \in S
      PROVE  i + 1 \in S
  <2> SUFFICES Below(i + 1)
    <3> HIDE DEF Below
    <3> QED
      OBVIOUS
  <2>0. SUFFICES ASSUME NEW k \in Nat, NEW q \in Point, k < i + 1, k + 1 < GroupN
                 PROVE  Adds(k, q)
    OBVIOUS
  <2> DEFINE D(j, t) == DoubleAndAdd[<<j, t>>]
             qq == PointAdd(q, q)
             half == k \div 2
  <2>1. /\ k \in Scalar /\ k + 1 \in Scalar /\ qq \in Point
        /\ \A j \in Scalar, t \in Point : D(j, t) \in Point
    <3>1. k \in Scalar /\ k + 1 \in Scalar
      BY <2>0, GroupFacts DEF Scalar
    <3>2. qq \in Point
      BY GroupFacts
    <3>3. \A j \in Scalar, t \in Point : D(j, t) \in Point
      BY DoubleAndAddIs
    <3> QED
      BY <3>1, <3>2, <3>3
  <2>2. /\ half \in Nat /\ half \in Scalar /\ k = 2 * half + (k % 2) /\ k % 2 \in {0, 1}
        /\ k # 0 => half < k
        /\ k = 0 => half = 0
    <3>1. CASE k = 0
      <4>1. 0 \div 2 = 0 /\ 0 % 2 = 0
        OBVIOUS
      <4> QED
        BY <3>1, <4>1, GroupFacts DEF Scalar
    <3>2. CASE k # 0
      <4>1. half \in Nat /\ half < k /\ k % 2 \in {0, 1} /\ k = 2 * half + (k % 2)
        BY <3>2, Halves
      <4>2. half \in Scalar
        <5> HIDE DEF half
        <5> QED
          BY <2>0, <4>1, GroupFacts DEF Scalar
      <4> QED
        BY <3>2, <4>1, <4>2
    <3> QED
      BY <3>1, <3>2
  <2>3. CASE k % 2 = 0
    <3>1. (k + 1) \div 2 = half /\ (k + 1) % 2 = 1 /\ k + 1 # 0
      BY <2>2, <2>3
    <3>2. D(k + 1, q) = PointAdd(q, D(half, qq))
      BY <2>1, <3>1, DoubleAndAddIs DEF Turn
    <3>3. D(k, q) = D(half, qq)
      <4>1. CASE k = 0
        BY <2>1, <2>2, <4>1, DoubleAndAddIs DEF Turn
      <4>2. CASE k # 0
        BY <2>1, <2>3, <4>2, DoubleAndAddIs DEF Turn
      <4> QED
        BY <4>1, <4>2
    <3> HIDE DEF D, half, qq
    <3>4. D(half, qq) \in Point
      BY <2>1, <2>2
    <3>5. D(k + 1, q) = PointAdd(D(k, q), q)
      BY <3>2, <3>3, <3>4, GroupFacts
    <3> QED
      BY <3>5 DEF D
  <2>4. CASE k % 2 = 1
    <3>1. /\ k # 0 /\ (k + 1) \div 2 = half + 1 /\ (k + 1) % 2 = 0 /\ k + 1 # 0
          /\ half < i /\ half + 1 < GroupN
      <4> HIDE DEF half
      <4>1. k = 2 * half + 1 /\ half \in Nat
        BY <2>2, <2>4
      <4>2. \A j \in Nat : (2 * j) \div 2 = j /\ (2 * j) % 2 = 0
        OBVIOUS
      <4>3. k + 1 = 2 * (half + 1) /\ half + 1 \in Nat
        BY <4>1
      <4>4. (k + 1) \div 2 = half + 1 /\ (k + 1) % 2 = 0
        BY <4>2, <4>3
      <4>5. k # 0 /\ half < i /\ half + 1 < GroupN
        BY <2>0, <4>1, GroupFacts
      <4> QED
        BY <4>4, <4>5
    <3>2. D(k + 1, q) = D(half + 1, qq)
      BY <2>1, <3>1, DoubleAndAddIs DEF Turn
    <3>3. D(k, q) = PointAdd(q, D(half, qq))
      BY <2>1, <2>4, <3>1, DoubleAndAddIs DEF Turn
    <3>4. D(half + 1, qq) = PointAdd(D(half, qq), qq)
      <4>1. Below(i)
        BY <1>2
      <4>2. half \in Nat /\ half < i /\ half + 1 < GroupN /\ qq \in Point
        BY <2>1, <2>2, <3>1
      <4> HIDE DEF half, qq, D
      <4>3. Adds(half, qq)
        BY <4>1, <4>2
      <4> QED
        BY <4>3 DEF D
    <3>5. D(half, qq) \in Point
      <4> HIDE DEF D, half, qq
      <4> QED
        BY <2>1, <2>2
    <3> HIDE DEF D, half
    <3>6. PointAdd(D(half, qq), qq) = PointAdd(PointAdd(q, D(half, qq)), q)
      <4>1. \A r \in Point : PointAdd(r, PointAdd(q, q)) = PointAdd(PointAdd(q, r), q)
        BY GroupFacts
      <4> QED
        BY <3>5, <4>1
    <3>7. D(k + 1, q) = PointAdd(D(k, q), q)
      BY <3>2, <3>3, <3>4, <3>6
    <3> QED
      BY <3>7 DEF D
  <2> QED
    BY <2>2, <2>3, <2>4
<1>3. \A i \in Nat : i \in S
  <2> HIDE DEF S
  <2> QED
    BY <1>1, <1>2, NatSetInduction
<1>4. Below(m + 1)
  <2> HIDE DEF Below
  <2> QED
    BY <1>3
<1> QED
  BY <1>4

\* A multiple of the generator.
Multiple(k) == PointMul(k, Generator)

\* PointMul multiplies modulo the group order.
LEMMA MulIs ==
    ASSUME NEW a \in Int, NEW q \in Point
    PROVE  /\ a % GroupN \in Scalar /\ PointMul(a, q) \in Point
           /\ a % GroupN = 0 => PointMul(a, q) = Infinity
<1>1. a % GroupN \in Scalar
  BY Division, GroupFacts DEF Scalar
<1>2. PointMul(a, q) \in Point
  BY <1>1, DoubleAndAddIs DEF PointMul
<1>3. 0 \in Scalar /\ DoubleAndAdd[<<0, q>>] = Infinity
  <2>1. 0 \in Scalar
    BY GroupFacts DEF Scalar
  <2> QED
    BY <2>1, DoubleAndAddIs DEF Turn
<1> QED
  BY <1>1, <1>2, <1>3 DEF PointMul

\* One more, below the order or around it.
LEMMA MultipleNext ==
    ASSUME NEW a \in Int
    PROVE  Multiple(a + 1) = PointAdd(Multiple(a), Generator)
<1> DEFINE m == a % GroupN
<1>1. m \in 0..(GroupN - 1) /\ (a + 1) % GroupN = (m + 1) % GroupN /\ Generator \in Point
  <2>1. m % GroupN = a % GroupN /\ m \in 0..(GroupN - 1)
    BY Division, GroupFacts
  <2>2. m \in Int
    BY <2>1
  <2>3. Like(a + 1, m + 1)
    BY <2>2, LikeLaws DEF m
  <2> QED
    BY <2>1, <2>3, GroupAssumption DEF Like
<1>2. CASE m + 1 < GroupN
  <2>1. (m + 1) % GroupN = m + 1
    BY <1>1, <1>2, Division, GroupFacts
  <2>2. m \in Nat
    BY <1>1
  <2>3. DoubleAndAdd[<<m + 1, Generator>>] = PointAdd(DoubleAndAdd[<<m, Generator>>], Generator)
    <3> HIDE DEF m
    <3> QED
      BY <1>1, <1>2, <2>2, OneMore
  <2> QED
    BY <1>1, <2>1, <2>3 DEF Multiple, PointMul
<1>3. CASE m + 1 = GroupN
  <2>1. (m + 1) % GroupN = 0
    <3>1. GroupN = 0 + GroupN * 1 /\ 0 % GroupN = 0
      BY Division, GroupFacts
    <3> QED
      BY <1>3, <3>1, Division, GroupFacts
  <2>2. Multiple(a + 1) = Infinity
    BY <1>1, <2>1, MulIs DEF Multiple
  <2>3. (GroupN - 1) % GroupN = GroupN - 1
    BY Division, GroupFacts
  <2>4. Multiple(a) = PointMul(GroupN - 1, Generator)
    BY <1>1, <1>3, <2>3, GroupFacts DEF Multiple, PointMul
  <2> QED
    BY <2>2, <2>4, GroupAssumption
<1> QED
  BY <1>1, <1>2, <1>3, GroupFacts

\* The multiple by a sum is the sum of the multiples.
LEMMA MultipleSum ==
    ASSUME NEW a \in Int, NEW b \in Int
    PROVE  Multiple(a + b) = PointAdd(Multiple(a), Multiple(b))
<1> DEFINE S == {i \in Nat : Multiple(a + i) = PointAdd(Multiple(a), Multiple(i))}
<1>0. Generator \in Point /\ \A i \in Int : Multiple(i) \in Point
  BY MulIs, GroupAssumption DEF Multiple
<1>1. 0 \in S
  <2>1. Multiple(0) = Infinity
    <3>1. 0 % GroupN = 0
      BY Division, GroupFacts
    <3> QED
      BY <1>0, <3>1, MulIs DEF Multiple
  <2>2. a + 0 = a
    OBVIOUS
  <2> QED
    BY <1>0, <2>1, <2>2, GroupFacts
<1>2. ASSUME NEW i \in Nat, i \in S
      PROVE  i + 1 \in S
  <2>1. a + i \in Int /\ a + (i + 1) = (a + i) + 1
    OBVIOUS
  <2>2. Multiple(a + (i + 1)) = PointAdd(Multiple(a + i), Generator)
    BY <2>1, MultipleNext
  <2>3. Multiple(i + 1) = PointAdd(Multiple(i), Generator)
    BY MultipleNext
  <2>4. Multiple(a + i) = PointAdd(Multiple(a), Multiple(i))
    BY <1>2
  <2>5. PointAdd(PointAdd(Multiple(a), Multiple(i)), Generator)
           = PointAdd(Multiple(a), PointAdd(Multiple(i), Generator))
    BY <1>0, GroupFacts
  <2> QED
    BY <2>2, <2>3, <2>4, <2>5
<1>3. \A i \in Nat : i \in S
  <2> HIDE DEF S
  <2> QED
    BY <1>1, <1>2, NatSetInduction
<1> DEFINE m == b % GroupN
<1>4. m \in Nat /\ m % GroupN = b % GroupN /\ (a + m) % GroupN = (a + b) % GroupN
  <2>1. m \in 0..(GroupN - 1) /\ m % GroupN = b % GroupN
    BY Division, GroupFacts
  <2>2. m \in Nat /\ m \in Int
    BY <2>1
  <2>3. Like(a + m, a + b)
    BY LikeLaws
  <2> QED
    BY <2>1, <2>2, <2>3 DEF Like
<1>5. Multiple(a + m) = PointAdd(Multiple(a), Multiple(m))
  BY <1>3, <1>4
<1>6. Multiple(m) = Multiple(b) /\ Multiple(a + m) = Multiple(a + b)
  BY <1>4 DEF Multiple, PointMul
<1> QED
  BY <1>5, <1>6

\* The multiple of a multiple is the multiple by the product.
LEMMA MultipleProduct ==
    ASSUME NEW a \in Int, NEW b \in Int
    PROVE  PointMul(b, Multiple(a)) = Multiple(a * b)
<1> DEFINE q == Multiple(a)
           S == {i \in Nat : i < GroupN => DoubleAndAdd[<<i, q>>] = Multiple(a * i)}
<1>0. q \in Point /\ Generator \in Point
  BY MulIs, GroupAssumption DEF Multiple
<1>1. 0 \in S
  <2>1. Multiple(a * 0) = Infinity /\ PointMul(0, q) = Infinity /\ 0 % GroupN = 0
    <3>1. 0 % GroupN = 0 /\ a * 0 = 0
      BY Division, GroupFacts
    <3> HIDE DEF q
    <3> QED
      BY <1>0, <3>1, MulIs DEF Multiple
  <2> QED
    BY <2>1 DEF PointMul
<1>2. ASSUME NEW i \in Nat, i \in S
      PROVE  i + 1 \in S
  <2> SUFFICES ASSUME i + 1 < GroupN
               PROVE  DoubleAndAdd[<<i + 1, q>>] = Multiple(a * (i + 1))
    OBVIOUS
  <2>1. i < GroupN
    BY GroupFacts
  <2>2. DoubleAndAdd[<<i, q>>] = Multiple(a * i)
    BY <1>2, <2>1
  <2>3. DoubleAndAdd[<<i + 1, q>>] = PointAdd(DoubleAndAdd[<<i, q>>], q)
    BY <1>0, OneMore
  <2>4. a * i \in Int /\ a * (i + 1) = a * i + a
    OBVIOUS
  <2>5. Multiple(a * i + a) = PointAdd(Multiple(a * i), Multiple(a))
    BY <2>4, MultipleSum
  <2> QED
    BY <2>2, <2>3, <2>4, <2>5
<1>3. \A i \in Nat : i \in S
  <2> HIDE DEF S
  <2> QED
    BY <1>1, <1>2, NatSetInduction
<1> DEFINE m == b % GroupN
<1>4. m \in Nat /\ m < GroupN /\ (a * m) % GroupN = (a * b) % GroupN
  <2>1. m \in 0..(GroupN - 1) /\ m % GroupN = b % GroupN
    BY Division, GroupFacts
  <2>2. m \in Nat /\ m \in Int /\ m < GroupN
    BY <2>1, GroupFacts
  <2>3. Like(a * m, a * b)
    BY LikeLaws
  <2> QED
    BY <2>2, <2>3 DEF Like
<1>5. DoubleAndAdd[<<m, q>>] = Multiple(a * m)
  <2> HIDE DEF m
  <2> QED
    BY <1>3, <1>4
<1>6. Multiple(a * m) = Multiple(a * b)
  BY <1>4 DEF Multiple, PointMul
<1> QED
  BY <1>5, <1>6 DEF PointMul

\* ModInverse finds the inverse of a scalar.
LEMMA InverseIs ==
    ASSUME NEW v \in 1..(GroupN - 1)
    PROVE  ModInverse(v, GroupN) \in Int /\ Like(v * ModInverse(v, GroupN), 1)
<1>1. ModInverse(v, GroupN) \in 1..(GroupN - 1) /\ (v * ModInverse(v, GroupN)) % GroupN = 1
  BY PrimeAssumption DEF ModInverse
<1>2. 1 % GroupN = 1
  BY LikeLaws, GroupFacts DEF Scalar
<1> QED
  BY <1>1, <1>2 DEF Like

\* Only the scalar matters.
LEMMA LikeMultiple ==
    ASSUME NEW a \in Int, NEW b \in Int, Like(a, b)
    PROVE  Multiple(a) = Multiple(b)
BY DEF Like, Multiple, PointMul

\* No scalar but 0 gives the point at infinity: GroupN is prime.
LEMMA MultipleNonzero ==
    ASSUME NEW a \in 1..(GroupN - 1)
    PROVE  Multiple(a) # Infinity
<1>1. SUFFICES ASSUME Multiple(a) = Infinity
               PROVE  FALSE
  OBVIOUS
<1> DEFINE w == ModInverse(a, GroupN)
<1>2. w \in Int /\ Like(a * w, 1) /\ a \in Int /\ a * w \in Int
  BY InverseIs
<1> HIDE DEF w
<1>3. Multiple(0) = Infinity
  <2>1. 0 % GroupN = 0
    BY LikeLaws, GroupFacts DEF Scalar
  <2> QED
    BY <2>1, MulIs, GroupAssumption DEF Multiple
<1>4. Multiple(a * w) = Multiple(0 * w)
  <2>1. PointMul(w, Multiple(a)) = Multiple(a * w)
    BY <1>2, MultipleProduct
  <2>2. PointMul(w, Multiple(0)) = Multiple(0 * w)
    BY <1>2, MultipleProduct
  <2> QED
    BY <1>1, <1>3, <2>1, <2>2
<1>5. Multiple(1) = Infinity
  <2>1. 0 * w = 0
    BY <1>2
  <2>2. Multiple(a * w) = Multiple(1)
    BY <1>2, LikeMultiple
  <2> QED
    BY <1>3, <1>4, <2>1, <2>2
<1>6. Multiple(1) = Generator
  <2>1. Multiple(0 + 1) = PointAdd(Multiple(0), Generator)
    BY MultipleNext
  <2> QED
    BY <1>3, <2>1, GroupFacts, GroupAssumption
<1> QED
  BY <1>5, <1>6, GroupAssumption

\* The point mirrored at the axis.
Opposite(q) == IF q = Infinity THEN Infinity ELSE [x |-> q.x, y |-> (FieldP - q.y) % FieldP]

\* The size of the field.
LEMMA FieldFacts == FieldP \in Nat /\ FieldP > 0
BY CurveAssumption

\* It is the inverse of the point.
LEMMA OppositeIs ==
    ASSUME NEW q \in Point
    PROVE  Opposite(q) \in Point /\ PointAdd(q, Opposite(q)) = Infinity /\ Opposite(q).x = q.x
<1>1. CASE q = Infinity
  BY <1>1, GroupFacts DEF Opposite
<1>2. CASE q # Infinity
  <2>1. q.x \in 0..(FieldP - 1) /\ q.y \in 0..(FieldP - 1) /\ OnCurve(q.x, q.y)
    BY <1>2 DEF Point
  <2> DEFINE z == (FieldP - q.y) % FieldP
             c == q.x * q.x * q.x + 7
  <2>2. z \in 0..(FieldP - 1) /\ (q.y = 0 => z = 0) /\ (q.y # 0 => z = FieldP - q.y)
    <3>1. CASE q.y = 0
      <4>1. FieldP % FieldP = 0
        <5>1. FieldP = 0 + FieldP * 1 /\ 0 % FieldP = 0
          BY Division, FieldFacts
        <5> QED
          BY <5>1, Division, FieldFacts
      <4>2. FieldP - q.y = FieldP
        BY <3>1, FieldFacts
      <4> QED
        BY <3>1, <4>1, <4>2, FieldFacts
    <3>2. CASE q.y # 0
      <4>1. FieldP - q.y \in 0..(FieldP - 1)
        BY <2>1, <3>2, FieldFacts
      <4>2. FieldP - q.y \in Int
        BY <4>1
      <4>3. z = FieldP - q.y
        BY <4>1, <4>2, Division, FieldFacts
      <4> QED
        BY <3>2, <4>1, <4>3
    <3> QED
      BY <3>1, <3>2
  <2> HIDE DEF z
  <2>3. (q.y + z) % FieldP = 0
    <3>1. 0 % FieldP = 0 /\ (0 + FieldP * 1) % FieldP = 0
      BY Division, FieldFacts
    <3>2. q.y + z = 0 \/ q.y + z = 0 + FieldP * 1
      BY <2>1, <2>2, FieldFacts
    <3> QED
      BY <3>1, <3>2
  <2>4. OnCurve(q.x, z)
    <3>1. CASE q.y = 0
      BY <2>1, <2>2, <3>1
    <3>2. CASE q.y # 0
      <4>1. c \in Int
        BY <2>1
      <4> HIDE DEF c
      <4>2. z * z - c = (q.y * q.y - c) + FieldP * (FieldP - 2 * q.y)
        <5>1. \A p, y, d \in Int : (p - y) * (p - y) - d = (y * y - d) + p * (p - 2 * y)
          OBVIOUS
        <5> QED
          BY <2>1, <2>2, <3>2, <4>1, <5>1, FieldFacts
      <4>3. q.y * q.y - c \in Int /\ FieldP - 2 * q.y \in Int
        BY <2>1, <4>1, FieldFacts
      <4>4. (z * z - c) % FieldP = (q.y * q.y - c) % FieldP
        <5>1. \A u, v \in Int : (u + FieldP * v) % FieldP = u % FieldP
          BY Division, FieldFacts
        <5> QED
          BY <4>2, <4>3, <5>1
      <4> QED
        BY <2>1, <4>4 DEF OnCurve, c
    <3> QED
      BY <3>1, <3>2
  <2>5. Opposite(q) = [x |-> q.x, y |-> z]
    BY <1>2 DEF Opposite, z
  <2>6. Opposite(q) \in Point /\ Opposite(q) # Infinity
    BY <2>1, <2>2, <2>4, <2>5 DEF Point, Infinity
  <2>7. PointAdd(q, Opposite(q)) = Infinity
    BY <1>2, <2>3, <2>5, <2>6 DEF PointAdd
  <2> QED
    BY <2>5, <2>6, <2>7
<1> QED
  BY <1>1, <1>2

\* Opposite multiples differ in y only.
LEMMA MultipleOpposite ==
    ASSUME NEW a \in Int
    PROVE  Multiple(0 - a).x = Multiple(a).x
<1> DEFINE p == Multiple(a)
           m == Multiple(0 - a)
<1>1. p \in Point /\ m \in Point /\ Opposite(p) \in Point
  BY MulIs, OppositeIs, GroupAssumption DEF Multiple
<1>2. PointAdd(p, m) = Infinity
  <2>1. Multiple(a + (0 - a)) = PointAdd(p, m)
    BY MultipleSum
  <2>2. a + (0 - a) = 0 /\ 0 % GroupN = 0
    BY LikeLaws, GroupFacts DEF Scalar
  <2>3. Multiple(0) = Infinity
    BY <2>2, MulIs, GroupAssumption DEF Multiple
  <2> QED
    BY <2>1, <2>2, <2>3
<1>3. PointAdd(p, Opposite(p)) = Infinity /\ Opposite(p).x = p.x
  BY <1>1, OppositeIs
<1> HIDE DEF p, m
<1>4. m = PointAdd(PointAdd(p, Opposite(p)), m)
  BY <1>1, <1>3, GroupFacts
<1>5. PointAdd(PointAdd(p, Opposite(p)), m) = PointAdd(Opposite(p), PointAdd(p, m))
  BY <1>1, GroupFacts
<1>6. m = Opposite(p)
  BY <1>1, <1>2, <1>4, <1>5, GroupFacts
<1> QED
  BY <1>3, <1>6 DEF p, m

\* A point is read back from its 33 bytes: the two roots differ in parity.
LEMMA PointReadBack ==
    ASSUME NEW q \in Point, q # Infinity
    PROVE  ParsePoint(SerializePoint(q)) = q
<1> DEFINE c == q.x * q.x * q.x + 7
           prefix == IF q.y % 2 = 1 THEN 3 ELSE 2
           roots == {y \in 0..(FieldP - 1) : OnCurve(q.x, y) /\ y % 2 = prefix % 2}
<1>1. /\ q.x \in 0..(FieldP - 1) /\ q.y \in 0..(FieldP - 1) /\ OnCurve(q.x, q.y)
      /\ q = [x |-> q.x, y |-> q.y]
  BY DEF Point
<1>2. prefix \in {2, 3} /\ q.y % 2 = prefix % 2
  <2>1. q.y % 2 \in {0, 1} /\ 3 % 2 = 1 /\ 2 % 2 = 0
    BY <1>1
  <2> QED
    BY <2>1
<1> HIDE DEF prefix
<1>3. SerializePoint(q) % Bytes32 = q.x /\ SerializePoint(q) \div Bytes32 = prefix
  <2>1. Bytes32 \in Nat /\ Bytes32 > 0 /\ q.x \in 0..(Bytes32 - 1)
    BY <1>1, CurveAssumption
  <2>2. \A p \in Nat, r \in 0..(Bytes32 - 1) :
            (p * Bytes32 + r) % Bytes32 = r /\ (p * Bytes32 + r) \div Bytes32 = p
    BY <2>1
  <2> QED
    BY <1>2, <2>1, <2>2 DEF SerializePoint, prefix
<1>4. q.y \in roots
  BY <1>1, <1>2
<1>5. ASSUME NEW y \in roots
      PROVE  y = q.y
  <2>1. y \in 0..(FieldP - 1) /\ OnCurve(q.x, y) /\ y % 2 = q.y % 2
    BY <1>2
  <2>2. c \in Int
    BY <1>1
  <2>3. (y * y - c) % FieldP = 0 /\ (q.y * q.y - c) % FieldP = 0
    BY <1>1, <2>1 DEF OnCurve
  <2> HIDE DEF c, roots
  <2>4. ASSUME NEW u \in Int, (u - c) % FieldP = 0
        PROVE  u % FieldP = c % FieldP
    <3> DEFINE d == (u - c) \div FieldP
    <3>1. u - c = FieldP * d + ((u - c) % FieldP) /\ d \in Int
      <4>1. u - c \in Int
        BY <2>2
      <4>2. FieldP \in Nat /\ FieldP > 0
        BY FieldFacts
      <4> HIDE DEF d
      <4>3. \A v \in Int : v \div FieldP \in Int /\ v = FieldP * (v \div FieldP) + (v % FieldP)
        BY <4>2, Division
      <4> QED
        BY <4>1, <4>3 DEF d
    <3> HIDE DEF d
    <3>2. u = c + FieldP * d
      <4>1. u - c = FieldP * d + 0
        BY <2>4, <3>1
      <4>2. FieldP * d \in Int
        BY <3>1, FieldFacts
      <4> QED
        BY <2>2, <4>1, <4>2
    <3>3. \A v, w \in Int : (v + FieldP * w) % FieldP = v % FieldP
      BY Division, FieldFacts
    <3> QED
      BY <2>2, <3>1, <3>2, <3>3
  <2>5. (y * y) % FieldP = (q.y * q.y) % FieldP
    <3>1. y * y \in Int /\ q.y * q.y \in Int
      BY <1>1, <2>1
    <3> QED
      BY <2>3, <2>4, <3>1
  <2>6. y = q.y \/ y + q.y = FieldP
    BY <1>1, <2>1, <2>5, PrimeAssumption
  <2>7. y + q.y # FieldP
    <3>1. \A a, b \in Int : a % 2 = b % 2 => (a + b) % 2 = 0
      OBVIOUS
    <3> QED
      BY <1>1, <2>1, <3>1, PrimeAssumption
  <2> QED
    BY <2>6, <2>7
<1>6. (CHOOSE y \in roots : TRUE) = q.y /\ roots # {}
  <2> HIDE DEF roots
  <2> QED
    BY <1>4, <1>5
<1>7. q.x < FieldP
  BY <1>1, FieldFacts
<1> QED
  BY <1>1, <1>2, <1>3, <1>6, <1>7 DEF ParsePoint

\* A remainder that is not 0.
LEMMA Nonzero ==
    ASSUME NEW a \in Int, a % GroupN # 0
    PROVE  a % GroupN \in 1..(GroupN - 1)
<1>1. a % GroupN \in 0..(GroupN - 1)
  BY LikeLaws DEF Scalar
<1> QED
  BY <1>1, GroupFacts

\* The low-S form is s or its negation, never 0 and in the lower half.
LEMMA LowSIs ==
    ASSUME NEW s \in 1..(GroupN - 1)
    PROVE  /\ LowS(s) \in 1..(GroupN - 1) /\ (LowS(s) = s \/ LowS(s) = GroupN - s)
           /\ LowS(s) \in 1..(GroupN \div 2)
<1>1. LowS(s) = s \/ LowS(s) = GroupN - s
  BY DEF LowS
<1>2. LowS(s) \in 1..(GroupN - 1)
  BY <1>1, GroupFacts
<1> DEFINE half == GroupN \div 2
<1>3. half \in Int /\ GroupN <= 2 * half + 1
  BY GroupFacts, Halves
<1>4. LowS(s) = IF s > half THEN GroupN - s ELSE s
  BY DEF LowS
<1> HIDE DEF half
<1>5. LowS(s) <= half
  BY <1>3, <1>4, GroupFacts
<1> QED
  BY <1>1, <1>2, <1>3, <1>5 DEF half

\* What signing solves for: nonce * s is the hash plus r times the secret.
LEMMA Signing ==
    ASSUME NEW k \in Int, NEW v \in Int, NEW e \in Int, NEW s \in Int,
           Like(k * v, 1), Like(s, v * e)
    PROVE  Like(k * s, e)
<1>1. v * e \in Int /\ k * v \in Int /\ k * s \in Int /\ k * (v * e) \in Int
  OBVIOUS
<1>2. Like(k * s, k * (v * e))
  BY <1>1, LikeLaws
<1>3. Like((k * v) * e, 1 * e)
  BY <1>1, LikeLaws
<1>4. (k * v) * e = k * (v * e) /\ 1 * e = e
  OBVIOUS
<1>5. Like(k * (v * e), e)
  BY <1>3, <1>4
<1> QED
  BY <1>1, <1>2, <1>5, LikeLaws

\* Dividing by s again gives the nonce, by its negation the negated nonce.
LEMMA Verifying ==
    ASSUME NEW k \in Int, NEW e \in Int, NEW s \in Int, NEW t \in Int, NEW i \in Int,
           Like(k * s, e), Like(t * i, 1), t = s \/ t = GroupN - s
    PROVE  Like(e * i, k) \/ Like(e * i, 0 - k)
<1>1. k * s \in Int /\ t * i \in Int /\ 0 - k \in Int /\ e * i \in Int /\ GroupN \in Int
  BY GroupFacts
<1>2. Like(e * i, (k * s) * i)
  <2>1. Like(e, k * s)
    BY <1>1, LikeLaws
  <2> QED
    BY <1>1, <2>1, LikeLaws
<1>3. ASSUME NEW j \in Int
      PROVE  Like(j * (t * i), j)
  <2>1. Like(j * (t * i), j * 1) /\ j * 1 = j
    BY <1>1, LikeLaws
  <2> QED
    BY <2>1
<1>4. CASE t = s
  <2>1. (k * s) * i = k * (t * i)
    BY <1>4
  <2>2. Like(k * (t * i), k) /\ k * (t * i) \in Int
    BY <1>1, <1>3
  <2>3. Like(e * i, k * (t * i))
    BY <1>2, <2>1
  <2>4. Like(e * i, k)
    BY <2>2, <2>3 DEF Like
  <2> QED
    BY <2>4
<1>5. CASE t = GroupN - s
  <2>1. GroupN % GroupN = 0 /\ 0 % GroupN = 0
    <3>1. 0 % GroupN = 0 /\ (0 + GroupN * 1) % GroupN = 0 % GroupN
      BY Division, GroupFacts
    <3>2. 0 + GroupN * 1 = GroupN
      BY GroupFacts
    <3> QED
      BY <3>1, <3>2
  <2>2. Like(GroupN - t, 0 - t)
    BY <1>1, <2>1, LikeLaws DEF Like
  <2>3. s = GroupN - t /\ 0 - t \in Int /\ k * (0 - t) \in Int
    BY <1>1, <1>5
  <2>4. Like(k * s, k * (0 - t))
    <3>1. Like(k, k) /\ Like(s, 0 - t)
      BY <2>2, <2>3 DEF Like
    <3> QED
      BY <2>3, <3>1, LikeLaws
  <2>5. Like((k * s) * i, (k * (0 - t)) * i)
    BY <1>1, <2>3, <2>4, LikeLaws
  <2>6. (k * (0 - t)) * i = (0 - k) * (t * i)
    OBVIOUS
  <2>7. Like((0 - k) * (t * i), 0 - k)
    BY <1>1, <1>3
  <2>8. (k * s) * i \in Int /\ (0 - k) * (t * i) \in Int
    BY <1>1
  <2>9. Like(e * i, (0 - k) * (t * i))
    BY <1>1, <1>2, <2>5, <2>6, <2>8, LikeLaws
  <2> QED
    BY <1>1, <2>7, <2>8, <2>9, LikeLaws
<1> QED
  BY <1>4, <1>5

\* Whatever nonce candidate signing takes, the host accepts the signature: it is a
\* signature of the hash, and its nonce point the opening tweaked by rho.
LEMMA CandidateAccepted ==
    ASSUME NEW hashes, NEW secret \in 1..(GroupN - 1), NEW hash \in Int, NEW rho,
           NEW candidate \in 1..(GroupN - 1),
           PointHash(hashes, SerializePoint(PointMul(candidate, Generator)), rho) \in Nat,
           SignWith(hashes, secret, hash, rho, candidate).signature \notin {Invalid, Skipped}
    PROVE  LET made == SignWith(hashes, secret, hash, rho, candidate)
           IN  /\ made.opening = SerializePoint(PointMul(candidate, Generator))
               /\ VerifyAntiExfil(hashes, PublicKey(secret), hash, rho, made.opening, made.signature)
               /\ made.signature \in [r : 1..(GroupN - 1), s : 1..(GroupN \div 2)]
<1> DEFINE opening == SerializePoint(Multiple(candidate))
           tweak == S2cTweak(hashes, opening, rho)
           sum == candidate + tweak
           nonce == sum % GroupN
           z == hash % GroupN
           r == PointAdd(Multiple(candidate), Multiple(tweak)).x % GroupN
           s == (ModInverse(nonce, GroupN) * (z + r * secret)) % GroupN
           t == LowS(s)
           out == SignWith(hashes, secret, hash, rho, candidate)
<1>1. /\ tweak # Invalid /\ nonce # 0 /\ r # 0 /\ s # 0
      /\ out = [signature |-> [r |-> r, s |-> t], opening |-> opening]
  BY DEF SignWith, Multiple
<1>2. tweak \in 0..(GroupN - 1)
  BY <1>1, GroupFacts DEF S2cTweak, Multiple
<1>3. /\ candidate \in Int /\ secret \in Int /\ tweak \in Int /\ sum \in Int
      /\ nonce \in 1..(GroupN - 1)
  <2>1. candidate \in Int /\ secret \in Int /\ tweak \in Int
    BY <1>2
  <2> HIDE DEF tweak
  <2>2. sum \in Int
    BY <2>1
  <2> HIDE DEF sum
  <2>3. nonce \in 1..(GroupN - 1)
    BY <1>1, <2>2, Nonzero
  <2> QED
    BY <2>1, <2>2, <2>3
<1> HIDE DEF tweak
<1>4. PointAdd(Multiple(candidate), Multiple(tweak)) = Multiple(nonce)
  <2>1. Multiple(sum) = PointAdd(Multiple(candidate), Multiple(tweak))
    BY <1>3, MultipleSum
  <2>2. Like(nonce, sum) /\ nonce \in Int
    BY <1>3, LikeLaws
  <2> HIDE DEF sum, nonce
  <2> QED
    BY <1>3, <2>1, <2>2, LikeMultiple
<1> HIDE DEF sum, nonce
<1>5. Multiple(nonce) \in Point /\ Multiple(nonce) # Infinity
  BY <1>3, MulIs, MultipleNonzero, GroupAssumption DEF Multiple
<1>6. r = Multiple(nonce).x % GroupN /\ r \in 1..(GroupN - 1)
  <2>1. Multiple(nonce).x \in 0..(FieldP - 1)
    BY <1>5 DEF Point
  <2>2. r = Multiple(nonce).x % GroupN
    BY <1>4
  <2>3. Multiple(nonce).x \in Int
    BY <2>1
  <2> HIDE DEF r
  <2> QED
    BY <1>1, <2>2, <2>3, Nonzero
<1> HIDE DEF r
<1>7. z \in Int /\ ModInverse(nonce, GroupN) \in Int /\ Like(nonce * ModInverse(nonce, GroupN), 1)
  BY <1>3, InverseIs, LikeLaws
<1> HIDE DEF z
<1> DEFINE e == z + r * secret
           v == ModInverse(nonce, GroupN)
<1>8. e \in Int /\ v \in Int /\ r \in Int
  BY <1>3, <1>6, <1>7
<1>9. s \in 1..(GroupN - 1) /\ Like(nonce * s, e)
  <2>1. s = (v * e) % GroupN
    OBVIOUS
  <2> HIDE DEF s, e, v
  <2>2. v * e \in Int
    BY <1>8
  <2>3. s \in 1..(GroupN - 1)
    BY <1>1, <2>1, <2>2, Nonzero
  <2>4. Like(s, v * e)
    BY <2>1, <2>2, LikeLaws
  <2>5. s \in Int /\ nonce \in Int /\ Like(nonce * v, 1)
    BY <1>3, <1>7, <2>3 DEF v
  <2> QED
    BY <1>8, <2>3, <2>4, <2>5, Signing
<1> HIDE DEF s, e, v
<1>10. /\ t \in 1..(GroupN - 1) /\ (t = s \/ t = GroupN - s)
       /\ t \in 1..(GroupN \div 2)
  BY <1>9, LowSIs
<1> HIDE DEF t
<1> DEFINE i == ModInverse(t, GroupN)
<1>11. i \in Int /\ Like(t * i, 1) /\ t \in Int /\ s \in Int /\ nonce \in Int
  BY <1>3, <1>9, <1>10, InverseIs
<1> HIDE DEF i
<1>12. Like(e * i, nonce) \/ Like(e * i, 0 - nonce)
  BY <1>8, <1>9, <1>10, <1>11, Verifying
<1>13. ParsePoint(PublicKey(secret)) = Multiple(secret) /\ ParsePoint(opening) = Multiple(candidate)
  <2>1. \A k \in 1..(GroupN - 1) : Multiple(k) \in Point /\ Multiple(k) # Infinity
    BY MulIs, MultipleNonzero, GroupAssumption DEF Multiple
  <2> QED
    BY <2>1, PointReadBack DEF PublicKey, Multiple
<1>14. PointAdd(PointMul(z * i, Generator), PointMul(r * i, Multiple(secret))) = Multiple(e * i)
  <2>1. z * i \in Int /\ r * i \in Int /\ secret * (r * i) \in Int
    BY <1>3, <1>7, <1>8, <1>11
  <2>2. PointMul(r * i, Multiple(secret)) = Multiple(secret * (r * i))
    BY <1>3, <2>1, MultipleProduct
  <2>3. z * i + secret * (r * i) = e * i
    BY <1>3, <1>7, <1>8, <1>11 DEF e
  <2>4. Multiple(z * i + secret * (r * i)) = PointAdd(Multiple(z * i), Multiple(secret * (r * i)))
    BY <2>1, MultipleSum
  <2> QED
    BY <2>2, <2>3, <2>4 DEF Multiple
<1>15. Multiple(e * i) # Infinity /\ Multiple(e * i).x = Multiple(nonce).x
  <2>1. e * i \in Int /\ 0 - nonce \in Int
    BY <1>8, <1>11
  <2>2. Multiple(0 - nonce).x = Multiple(nonce).x
    BY <1>11, MultipleOpposite
  <2>3. Multiple(e * i).x = Multiple(nonce).x
    BY <1>11, <1>12, <2>1, <2>2, LikeMultiple
  <2>4. Multiple(nonce).x # Infinity.x
    BY <1>5 DEF Point, Infinity
  <2> QED
    BY <2>3, <2>4
<1> DEFINE sig == [r |-> r, s |-> t]
<1>16. EcdsaVerify(PublicKey(secret), hash, sig)
  <2>1. ParsePoint(PublicKey(secret)) # Invalid
    BY <1>3, <1>13, MulIs, GroupAssumption DEF Multiple
  <2>2. sig.r = r /\ sig.s = t
    OBVIOUS
  <2> HIDE DEF sig
  <2> QED
    BY <1>6, <1>10, <1>13, <1>14, <1>15, <2>1, <2>2 DEF EcdsaVerify, z, i
<1>17. CommittedPoint(hashes, rho, opening) = Multiple(nonce)
  BY <1>4, <1>13 DEF CommittedPoint, Multiple, tweak
<1>18. ParsePoint(opening) # Invalid
  BY <1>3, <1>13, MulIs, GroupAssumption DEF Multiple
<1>19. VerifyAntiExfil(hashes, PublicKey(secret), hash, rho, opening, sig)
  <2>1. sig.r = r
    OBVIOUS
  <2> HIDE DEF sig, opening
  <2> QED
    BY <1>1, <1>5, <1>6, <1>16, <1>17, <1>18, <2>1 DEF VerifyAntiExfil, tweak
<1>20. sig \in [r : 1..(GroupN - 1), s : 1..(GroupN \div 2)]
  BY <1>6, <1>10
<1> QED
  BY <1>1, <1>19, <1>20 DEF Multiple

\* The hash functions take what signing puts in to numbers.
HashesToNumbers(hashes, secret, hash, rho) ==
    /\ NonceBlocks(hashes, secret, hash % GroupN, HostCommit(rho)) \in Seq(Nat)
    /\ \A opening \in Nat : PointHash(hashes, opening, rho) \in Nat

\* The nonce candidates are scalars.
LEMMA CandidatesAre ==
    ASSUME NEW hashes, NEW secret, NEW hash, NEW data,
           NonceBlocks(hashes, secret, hash % GroupN, data) \in Seq(Nat)
    PROVE  LET blocks == NonceBlocks(hashes, secret, hash % GroupN, data)
               candidates == NonceCandidates(hashes, secret, hash, data)
           IN  /\ DOMAIN candidates \in SUBSET Nat
               /\ \A i \in DOMAIN candidates : candidates[i] \in 1..(GroupN - 1)
               /\ (\E i \in DOMAIN blocks : blocks[i] \in 1..(GroupN - 1)) => DOMAIN candidates # {}
<1> DEFINE blocks == NonceBlocks(hashes, secret, hash % GroupN, data)
           candidates == NonceCandidates(hashes, secret, hash, data)
<1>1. blocks \in Seq(Nat) /\ GroupN \in Nat
  BY GroupFacts
<1>2. candidates = [i \in {i \in DOMAIN blocks : 1 <= blocks[i] /\ blocks[i] < GroupN} |-> blocks[i]]
  BY DEF NonceCandidates
<1> HIDE DEF blocks, candidates
<1>3. Len(blocks) \in Nat /\ DOMAIN blocks = 1..Len(blocks)
  BY <1>1
<1>4. \A i \in DOMAIN blocks : i \in Nat /\ blocks[i] \in Nat
  BY <1>1, <1>3
<1>5. \A i \in DOMAIN candidates :
          i \in DOMAIN blocks /\ candidates[i] = blocks[i] /\ 1 <= blocks[i] /\ blocks[i] < GroupN
  BY <1>2
<1>6. \A i \in DOMAIN blocks : 1 <= blocks[i] /\ blocks[i] < GroupN => i \in DOMAIN candidates
  BY <1>2
<1>7. \A i \in DOMAIN blocks : blocks[i] \in 1..(GroupN - 1) => 1 <= blocks[i] /\ blocks[i] < GroupN
  BY <1>1
<1>8. DOMAIN candidates \in SUBSET Nat /\ \A i \in DOMAIN candidates : candidates[i] \in 1..(GroupN - 1)
  BY <1>1, <1>4, <1>5
<1> QED
  BY <1>6, <1>7, <1>8 DEF blocks, candidates

\* There is a first among some places.
LEMMA FirstIs ==
    ASSUME NEW places \in SUBSET Nat, places # {}
    PROVE  FirstOf(places) \in places /\ \A j \in places : FirstOf(places) <= j
  BY LeastExists DEF FirstOf

\* Over any curve of prime order and whatever the hash functions, the signature of an honest
\* signer is in low-S form and passes the host's verification with the opening it comes with;
\* and unless signing passes the first nonce candidate over, that is the opening of message 2
\* (anti_exfil_sign, signer_opening, verify_anti_exfil).
THEOREM HonestSignatureAccepted ==
    ASSUME NEW hashes, NEW secret \in 1..(GroupN - 1), NEW hash \in Int, NEW rho,
           HashesToNumbers(hashes, secret, hash, rho),
           AntiExfilSign(hashes, secret, hash, rho).signature # Invalid
    PROVE  LET made == AntiExfilSign(hashes, secret, hash, rho)
               first == FirstCandidate(hashes, secret, hash, HostCommit(rho))
           IN  /\ VerifyAntiExfil(hashes, PublicKey(secret), hash, rho, made.opening, made.signature)
               /\ SignWith(hashes, secret, hash, rho, first).signature # Skipped
                     => made.opening = SignerOpening(hashes, secret, hash, HostCommit(rho))
               /\ made.signature \in [r : 1..(GroupN - 1), s : 1..(GroupN \div 2)]
<1> DEFINE candidates == NonceCandidates(hashes, secret, hash, HostCommit(rho))
           tries == [i \in DOMAIN candidates |-> SignWith(hashes, secret, hash, rho, candidates[i])]
           taken == {i \in DOMAIN tries : tries[i].signature # Skipped}
           made == AntiExfilSign(hashes, secret, hash, rho)
           first == FirstCandidate(hashes, secret, hash, HostCommit(rho))
<1>1. /\ DOMAIN candidates \in SUBSET Nat
      /\ \A i \in DOMAIN candidates : candidates[i] \in 1..(GroupN - 1)
  BY CandidatesAre DEF HashesToNumbers
<1> HIDE DEF candidates
<1>3. taken # {} /\ made = tries[FirstOf(taken)]
  BY DEF AntiExfilSign, candidates
<1>4. taken \in SUBSET Nat /\ taken \subseteq DOMAIN candidates
  BY <1>1
<1> HIDE DEF made
<1> DEFINE place == FirstOf(taken)
           candidate == candidates[place]
<1>5. place \in taken /\ place \in DOMAIN candidates /\ \A j \in taken : place <= j
  <2> HIDE DEF taken
  <2> QED
    BY <1>3, <1>4, FirstIs
<1>6. /\ candidate \in 1..(GroupN - 1)
      /\ made = SignWith(hashes, secret, hash, rho, candidate)
      /\ made.signature \notin {Invalid, Skipped}
  <2>1. tries[place].signature # Skipped
    BY <1>5
  <2>2. made = tries[place] /\ made.signature # Invalid
    BY <1>3 DEF made
  <2>3. tries[place] = SignWith(hashes, secret, hash, rho, candidate)
    BY <1>5
  <2>4. candidate \in 1..(GroupN - 1)
    BY <1>1, <1>5
  <2> HIDE DEF tries, place, candidate
  <2> QED
    BY <2>1, <2>2, <2>3, <2>4
<1>7. /\ made.opening = SerializePoint(PointMul(candidate, Generator))
      /\ VerifyAntiExfil(hashes, PublicKey(secret), hash, rho, made.opening, made.signature)
      /\ made.signature \in [r : 1..(GroupN - 1), s : 1..(GroupN \div 2)]
  <2> HIDE DEF candidate
  <2> DEFINE q == PointMul(candidate, Generator)
  <2>1. q \in Point /\ q # Infinity
    BY <1>6, MulIs, MultipleNonzero, GroupAssumption DEF Multiple
  <2>2. q.x \in Nat
    BY <2>1, CurveAssumption DEF Point
  <2> HIDE DEF q
  <2>3. SerializePoint(q) \in Nat
    <3>1. Bytes32 \in Nat
      BY CurveAssumption
    <3>2. \A x \in Nat : 3 * Bytes32 + x \in Nat /\ 2 * Bytes32 + x \in Nat
      BY <3>1
    <3> QED
      BY <2>2, <3>2 DEF SerializePoint
  <2>4. PointHash(hashes, SerializePoint(PointMul(candidate, Generator)), rho) \in Nat
    BY <2>3 DEF q, HashesToNumbers
  <2> QED
    BY <1>6, <2>4, CandidateAccepted
<1>8. ASSUME SignWith(hashes, secret, hash, rho, first).signature # Skipped
      PROVE  made.opening = SignerOpening(hashes, secret, hash, HostCommit(rho))
  <2> DEFINE least == FirstOf(DOMAIN candidates)
  <2>1. least \in DOMAIN candidates /\ \A j \in DOMAIN candidates : least <= j
    BY <1>1, <1>5, FirstIs
  <2>2. first = candidates[least]
    BY DEF FirstCandidate, candidates
  <2>3. least \in taken
    BY <1>8, <2>1, <2>2
  <2>4. place = least
    <3>1. place <= least /\ least <= place /\ place \in Nat /\ least \in Nat
      BY <1>1, <1>5, <2>1, <2>3
    <3> HIDE DEF place, least
    <3> QED
      BY <3>1
  <2>5. candidate = first
    BY <2>2, <2>4
  <2> QED
    BY <1>7, <2>5 DEF SignerOpening
<1> QED
  BY <1>7, <1>8 DEF made

-----------------------------------------------------------------------------
(***************************************************************************)
(* The undisturbed session.  If nothing goes wrong on the way, message 1   *)
(* lists what the host enumerates from public metadata, each later message *)
(* is message 1 with what honest signing puts into it, and the package     *)
(* under way holds the last of them.  So each check that may refuse is     *)
(* made of known values, and passes but where HonestNotRefused says.       *)
(***************************************************************************)

\* The slots of a message in the making: numbers for identifiers, no two the same.
Sortable(slots) ==
    /\ IsFiniteSet(slots)
    /\ \A s \in slots : s.input_index \in Nat /\ s.signer_pubkey \in Nat
    /\ \A s, t \in slots : Identifier(s) = Identifier(t) => s = t

\* The slots before a slot.
Below(slots, s) == {t \in slots : Precedes(Identifier(t), Identifier(s))}

\* Identifiers are in a linear order.
LEMMA PrecedesLaws ==
    ASSUME NEW slots, Sortable(slots)
    PROVE  /\ \A s \in slots : ~Precedes(Identifier(s), Identifier(s))
           /\ \A s, t, u \in slots :
                 Precedes(Identifier(s), Identifier(t)) /\ Precedes(Identifier(t), Identifier(u))
                    => Precedes(Identifier(s), Identifier(u))
           /\ \A s, t \in slots :
                 s = t \/ Precedes(Identifier(s), Identifier(t)) \/ Precedes(Identifier(t), Identifier(s))
<1>1. \A s : Identifier(s)[1] = s.input_index /\ Identifier(s)[2] = s.signer_pubkey
             /\ Identifier(s) = <<s.input_index, s.signer_pubkey>>
  BY DEF Identifier
<1>2. \A s \in slots : Identifier(s)[1] \in Int /\ Identifier(s)[2] \in Int
  BY <1>1 DEF Sortable
<1>3. \A s, t \in slots : Identifier(s)[1] = Identifier(t)[1] /\ Identifier(s)[2] = Identifier(t)[2]
          => s = t
  BY <1>1 DEF Sortable
<1>4. \A s \in slots : ~Precedes(Identifier(s), Identifier(s))
  BY <1>2 DEF Precedes
<1>5. ASSUME NEW s \in slots, NEW t \in slots, NEW u \in slots,
             Precedes(Identifier(s), Identifier(t)), Precedes(Identifier(t), Identifier(u))
      PROVE  Precedes(Identifier(s), Identifier(u))
  BY <1>2, <1>5 DEF Precedes
<1>6. ASSUME NEW s \in slots, NEW t \in slots
      PROVE  s = t \/ Precedes(Identifier(s), Identifier(t)) \/ Precedes(Identifier(t), Identifier(s))
  BY <1>2, <1>3 DEF Precedes
<1> QED
  BY <1>4, <1>5, <1>6

\* sort(key=identifier) lists every slot once, in strictly increasing order.
LEMMA InOrderIs ==
    ASSUME NEW slots, Sortable(slots)
    PROVE  LET n == Cardinality(slots)
               order == InOrder(slots)
           IN  /\ n \in Nat
               /\ \A k \in 1..n : order[k] \in slots
               /\ \A k, i \in 1..n : order[k] = order[i] => k = i
               /\ \A s \in slots : \E k \in 1..n : order[k] = s
               /\ \A k \in 1..(n - 1) : Precedes(Identifier(order[k]), Identifier(order[k + 1]))
<1> DEFINE n == Cardinality(slots)
           order == InOrder(slots)
           before(s) == Below(slots, s)
           rank(s) == 1 + Cardinality(before(s))
<1>1. IsFiniteSet(slots) /\ n \in Nat
  BY FS_CardinalityType DEF Sortable
<1>2. ASSUME NEW s \in slots
      PROVE  IsFiniteSet(before(s)) /\ Cardinality(before(s)) \in Nat /\ rank(s) \in 1..n
  <2>1. IsFiniteSet(slots \ {s}) /\ Cardinality(slots \ {s}) = n - 1
    BY <1>1, FS_RemoveElement
  <2>2. before(s) \in SUBSET (slots \ {s})
    BY PrecedesLaws DEF Below
  <2>3. IsFiniteSet(before(s)) /\ Cardinality(before(s)) <= Cardinality(slots \ {s})
    BY <2>1, <2>2, FS_Subset
  <2>4. Cardinality(before(s)) \in Nat
    BY <2>3, FS_CardinalityType
  <2> HIDE DEF before, n
  <2> QED
    BY <1>1, <2>1, <2>3, <2>4
<1>3. ASSUME NEW s \in slots, NEW t \in slots, Precedes(Identifier(s), Identifier(t))
      PROVE  rank(s) < rank(t)
  <2>1. before(s) \union {s} \in SUBSET before(t)
    BY <1>3, PrecedesLaws DEF Below
  <2>2. s \notin before(s)
    BY PrecedesLaws DEF Below
  <2>3. Cardinality(before(s) \union {s}) = Cardinality(before(s)) + 1
    BY <1>2, <2>2, FS_AddElement
  <2>4. Cardinality(before(s) \union {s}) <= Cardinality(before(t))
    BY <1>2, <2>1, FS_Subset
  <2> HIDE DEF before
  <2> QED
    BY <1>2, <2>3, <2>4
<1>4. ASSUME NEW s \in slots, NEW t \in slots, rank(s) = rank(t)
      PROVE  s = t
  <2>1. rank(s) \in Int /\ rank(t) \in Int
    BY <1>2
  <2> HIDE DEF rank
  <2> QED
    BY <1>3, <1>4, <2>1, PrecedesLaws
<1> DEFINE f == [s \in slots |-> rank(s)]
<1>5. \A k \in 1..n : \E s \in slots : k = rank(s)
  <2> HIDE DEF rank, n
  <2>1. f \in Injection(slots, 1..n)
    BY <1>2, <1>4 DEF Injection, IsInjective
  <2>2. IsFiniteSet(1..n) /\ Cardinality(1..n) = n
    BY <1>1, FS_Interval
  <2>3. f \in Surjection(slots, 1..n)
    <3> HIDE DEF f
    <3> QED
      BY <1>1, <2>1, <2>2, FS_Injection DEF n
  <2> QED
    BY <2>3 DEF Surjection
<1>6. ASSUME NEW k \in 1..n
      PROVE  order[k] \in slots /\ k = rank(order[k])
  <2>1. order[k] = CHOOSE s \in slots : k = rank(s)
    BY DEF InOrder, Below
  <2> HIDE DEF order, rank, n
  <2> QED
    BY <1>5, <2>1
<1>7. ASSUME NEW s \in slots
      PROVE  \E k \in 1..n : order[k] = s
  <2>1. rank(s) \in 1..n
    BY <1>2
  <2> HIDE DEF order, rank, n
  <2> QED
    BY <1>4, <1>6, <2>1
<1>8. ASSUME NEW k \in 1..(n - 1)
      PROVE  Precedes(Identifier(order[k]), Identifier(order[k + 1]))
  <2> HIDE DEF order, rank, n
  <2>1. k \in 1..n /\ k + 1 \in 1..n /\ k < k + 1
    BY <1>1
  <2>2. rank(order[k]) < rank(order[k + 1]) /\ order[k] \in slots /\ order[k + 1] \in slots
    BY <1>6, <2>1
  <2>3. rank(order[k]) \in Int /\ rank(order[k + 1]) \in Int
    BY <1>6, <2>1
  <2> QED
    BY <1>3, <2>2, <2>3, PrecedesLaws
<1>9. ASSUME NEW k \in 1..n, NEW i \in 1..n, order[k] = order[i]
      PROVE  k = i
  BY <1>6, <1>9
<1> QED
  BY <1>1, <1>6, <1>7, <1>8, <1>9

-----------------------------------------------------------------------------
Own(slot) == [input_index |-> slot.input_index, signer_pubkey |-> slot.signer_pubkey,
              message_hash |-> slot.message_hash]

\* One slot of an enumeration of a PSBT, as the PSBT declares it.
Declared(parsed, slot) ==
    /\ slot = Own(slot)
    /\ slot.input_index \in DOMAIN parsed
    /\ slot.signer_pubkey \in Controlled(parsed[slot.input_index], Root.fingerprint)
    /\ slot.message_hash = parsed[slot.input_index].sighash

\* Identifiers get rhos of 32 bytes, no two of them the same or with the same commitment.
RhosApart(ids) ==
    \A id, other \in ids :
        /\ Rho(id) \in Octets32
        /\ id # other => Rho(id) # Rho(other) /\ HostCommit(Rho(id)) # HostCommit(Rho(other))

\* The PSBT passes what the host's enumeration looks at.
Enumerable(parsed) ==
    \A i \in DOMAIN parsed :
        /\ WellFormed(parsed[i]) /\ i \in Nat
        /\ Supported(parsed[i])
        /\ Unsigned(parsed[i], Controlled(parsed[i], Root.fingerprint))

LEMMA DeclaredIs ==
    ASSUME NEW parsed
    PROVE  \A slot : slot \in SlotsOf(parsed, Root.fingerprint) <=> Declared(parsed, slot)
<1>1. ASSUME NEW slot \in SlotsOf(parsed, Root.fingerprint)
      PROVE  Declared(parsed, slot)
  <2>1. PICK i \in DOMAIN parsed : \E key \in Controlled(parsed[i], Root.fingerprint) :
            slot = [input_index |-> i, signer_pubkey |-> key, message_hash |-> parsed[i].sighash]
    BY DEF SlotsOf
  <2> QED
    BY <2>1 DEF Declared, Own
<1>2. ASSUME NEW slot, Declared(parsed, slot)
      PROVE  slot \in SlotsOf(parsed, Root.fingerprint)
  <2>1. slot \in {[input_index |-> slot.input_index, signer_pubkey |-> key,
                   message_hash |-> parsed[slot.input_index].sighash] :
                     key \in Controlled(parsed[slot.input_index], Root.fingerprint)}
    BY <1>2 DEF Declared, Own
  <2> QED
    BY <1>2, <2>1 DEF SlotsOf, Declared
<1> QED
  BY <1>1, <1>2

\* What the host enumerates from public metadata.
LEMMA EnumerationIs ==
    ASSUME NEW raw, ByFingerprint(raw) # {}
    PROVE  LET slots == ByFingerprint(raw)
               parsed == PsbtOf[raw]
           IN  /\ raw \in DOMAIN PsbtOf /\ Enumerable(parsed)
               /\ \A slot : slot \in slots <=> Declared(parsed, slot)
               /\ slots = SlotsOf(parsed, Root.fingerprint)
               /\ Sortable(slots)
               /\ Cardinality(slots) \in 1..MaxSlots
               /\ RhosApart({Identifier(slot) : slot \in slots})
               /\ \A slot \in slots :
                     /\ slot.input_index \in Nat /\ IsPoint(slot.signer_pubkey)
                     /\ slot.message_hash \in Octets32
<1> DEFINE slots == ByFingerprint(raw)
           parsed == PsbtOf[raw]
<1>1. /\ raw \in DOMAIN PsbtOf /\ slots = SlotsOf(parsed, Root.fingerprint)
      /\ slots = EnumerateForFingerprint(parsed, Root.fingerprint)
      /\ Cardinality(slots) <= MaxSlots
      /\ \A i \in DOMAIN parsed :
            /\ Supported(parsed[i])
            /\ Unsigned(parsed[i], Controlled(parsed[i], Root.fingerprint))
  BY DEF ByFingerprint, Parsed, EnumerateForFingerprint
<1>2. \A i \in DOMAIN parsed : WellFormed(parsed[i])
  BY <1>1, TranscriptAssumption
<1>3. DOMAIN parsed \subseteq Nat
  BY <1>1, SettingAssumption
<1>4. Enumerable(parsed)
  BY <1>1, <1>2, <1>3 DEF Enumerable
<1>5. \A slot : slot \in slots <=> Declared(parsed, slot)
  BY <1>1, DeclaredIs
<1>6. RhosApart({Identifier(slot) : slot \in slots})
  BY <1>1, SettingAssumption DEF RhosApart
<1> HIDE DEF slots, parsed
<1>7. ASSUME NEW slot \in slots
      PROVE  /\ slot.input_index \in Nat /\ slot.signer_pubkey \in Nat
             /\ IsPoint(slot.signer_pubkey) /\ slot.message_hash \in Octets32
  <2>1. /\ slot.input_index \in DOMAIN parsed
        /\ slot.signer_pubkey \in DOMAIN parsed[slot.input_index].bip32_derivations
        /\ slot.message_hash = parsed[slot.input_index].sighash
    BY <1>5 DEF Declared, Controlled
  <2>2. WellFormed(parsed[slot.input_index])
    BY <1>2, <2>1
  <2> QED
    BY <1>3, <2>1, <2>2 DEF WellFormed, IsPoint
<1>8. ASSUME NEW s \in slots, NEW t \in slots, Identifier(s) = Identifier(t)
      PROVE  s = t
  <2>1. s.input_index = t.input_index /\ s.signer_pubkey = t.signer_pubkey
    BY <1>8 DEF Identifier
  <2>2. s = Own(s) /\ t = Own(t) /\ s.message_hash = t.message_hash
    BY <1>5, <2>1 DEF Declared
  <2> QED
    BY <2>1, <2>2 DEF Own
<1>9. IsFiniteSet(slots) /\ Cardinality(slots) \in Nat /\ slots # {}
  BY EnumerationsFinite DEF slots
<1>10. Sortable(slots)
  BY <1>7, <1>8, <1>9 DEF Sortable
<1>11. Cardinality(slots) # 0
  BY <1>9, FS_EmptySet
<1>12. Cardinality(slots) \in 1..MaxSlots
  BY <1>1, <1>9, <1>11, SlotLimitAssumption DEF slots
<1> QED
  BY <1>1, <1>4, <1>5, <1>6, <1>7, <1>10, <1>12 DEF slots, parsed

\* What the root enumerates, if anything, is what its fingerprint does; and if its paths
\* derive their keys, it does enumerate it.
LEMMA RootEnumerates ==
    ASSUME NEW raw
    PROVE  /\ ByRoot(raw) # {} => ByRoot(raw) = ByFingerprint(raw) /\ PathsDerive(PsbtOf[raw], Root)
           /\ raw \in DOMAIN PsbtOf /\ PathsDerive(PsbtOf[raw], Root) => ByRoot(raw) = ByFingerprint(raw)
<1> DEFINE parsed == PsbtOf[raw]
<1>1. ASSUME ByRoot(raw) # {}
      PROVE  ByRoot(raw) = ByFingerprint(raw) /\ PathsDerive(PsbtOf[raw], Root)
  BY <1>1 DEF ByRoot, ByFingerprint, EnumerateSigningSlots, EnumerateForFingerprint
<1>2. ASSUME raw \in DOMAIN PsbtOf, PathsDerive(parsed, Root)
      PROVE  ByRoot(raw) = ByFingerprint(raw)
  <2>1. \A i \in DOMAIN parsed : WellFormed(parsed[i])
    BY <1>2, TranscriptAssumption
  <2> HIDE DEF parsed
  <2>2. EnumerateSigningSlots(parsed, Root) = EnumerateForFingerprint(parsed, Root.fingerprint)
    BY <1>2, <2>1, EnumerationsAgree
  <2> QED
    BY <1>2, <2>2 DEF ByRoot, ByFingerprint, Parsed, parsed
<1> QED
  BY <1>1, <1>2

-----------------------------------------------------------------------------
\* Message 1 lists what the host enumerates from public metadata, each slot with the
\* commitment to its own rho.
CommitMade(m) ==
    /\ IsMessage(m) /\ ValidMessage(m)
    /\ <<m.network, m.stage, m.session_id, m.psbt_digest>> = <<TestNetwork, 1, SessionId, psbt>>
    /\ ByFingerprint(psbt) # {} /\ Len(m.slots) = Cardinality(ByFingerprint(psbt))
    /\ \A n \in DOMAIN m.slots :
          /\ Own(m.slots[n]) \in ByFingerprint(psbt)
          /\ m.slots[n].commitment = HostCommit(Rho(Identifier(m.slots[n])))
    /\ \A slot \in ByFingerprint(psbt) : \E n \in DOMAIN m.slots : Own(m.slots[n]) = slot

\* The fields of message 1 and its slots.
LEMMA CommitFields ==
    ASSUME NEW slots, Sortable(slots)
    PROVE  LET m == HostCommitMessage(slots, TestNetwork, SessionId, psbt, Rhos(slots))
               order == InOrder(slots)
           IN  /\ IsMessage(m)
               /\ <<m.network, m.stage, m.session_id, m.psbt_digest>>
                     = <<TestNetwork, 1, SessionId, psbt>>
               /\ Len(m.slots) = Cardinality(slots) /\ DOMAIN m.slots = 1..Cardinality(slots)
               /\ \A n \in 1..Cardinality(slots) :
                     /\ Own(m.slots[n]) = Own(order[n])
                     /\ Identifier(m.slots[n]) = Identifier(order[n])
                     /\ m.slots[n].input_index = order[n].input_index
                     /\ m.slots[n].signer_pubkey = order[n].signer_pubkey
                     /\ m.slots[n].sighash_type = SIGHASH_ALL
                     /\ m.slots[n].commitment = HostCommit(Rho(Identifier(order[n])))
                     /\ m.slots[n].opening = Absent /\ m.slots[n].rho = Absent
                     /\ m.slots[n].signature = Absent
<1> DEFINE m == HostCommitMessage(slots, TestNetwork, SessionId, psbt, Rhos(slots))
           size == Cardinality(slots)
           Slot(slot) == [input_index |-> slot.input_index, signer_pubkey |-> slot.signer_pubkey,
                          message_hash |-> slot.message_hash, sighash_type |-> SIGHASH_ALL,
                          commitment |-> HostCommit(Rhos(slots)[Identifier(slot)]),
                          opening |-> Absent, rho |-> Absent, signature |-> Absent]
           f == [n \in 1..size |-> Slot(InOrder(slots)[n])]
<1>1. m = [network |-> TestNetwork, stage |-> 1, session_id |-> SessionId, psbt_digest |-> psbt,
           slots |-> f]
  BY DEF HostCommitMessage, HOST_COMMIT
<1>2. size \in Nat /\ \A n \in 1..size : InOrder(slots)[n] \in slots
  BY InOrderIs
<1>3. IsMessage(m)
  BY <1>2, HostCommitIs
<1>4. ASSUME NEW slot \in slots
      PROVE  /\ Own(Slot(slot)) = Own(slot) /\ Identifier(Slot(slot)) = Identifier(slot)
             /\ Slot(slot).input_index = slot.input_index
             /\ Slot(slot).signer_pubkey = slot.signer_pubkey
             /\ Slot(slot).sighash_type = SIGHASH_ALL
             /\ Slot(slot).commitment = HostCommit(Rho(Identifier(slot)))
             /\ Slot(slot).opening = Absent /\ Slot(slot).rho = Absent
             /\ Slot(slot).signature = Absent
  <2>1. Rhos(slots)[Identifier(slot)] = Rho(Identifier(slot))
    BY DEF Rhos
  <2> QED
    BY <2>1 DEF Own, Identifier
<1> HIDE DEF Slot, size, m
<1>5. DOMAIN f = 1..size /\ Len(f) = size
  BY <1>2
<1>6. \A n \in 1..size : f[n] = Slot(InOrder(slots)[n])
  OBVIOUS
<1> HIDE DEF f
<1>7. m.slots = f /\ <<m.network, m.stage, m.session_id, m.psbt_digest>>
                        = <<TestNetwork, 1, SessionId, psbt>>
  BY <1>1
<1> QED
  BY <1>2, <1>3, <1>4, <1>5, <1>6, <1>7 DEF m, size

\* No input has more slots in message 1 than the signer allows.
LEMMA CommitPerInput ==
    ASSUME NEW raw, ByFingerprint(raw) # {}, NEW f, NEW size \in Nat,
           \A n \in 1..size : f[n] \in ByFingerprint(raw),
           \A n, k \in 1..size : f[n] = f[k] => n = k,
           NEW n \in 1..size
    PROVE  Cardinality({k \in 1..n : f[k].input_index = f[n].input_index}) <= MaxSlotsPerInput
<1> DEFINE slots == ByFingerprint(raw)
           parsed == PsbtOf[raw]
           i == f[n].input_index
           here == {slot \in SlotsOf(parsed, Root.fingerprint) : slot.input_index = i}
           places == {k \in 1..n : f[k].input_index = i}
           g == [k \in places |-> f[k]]
<1>1. /\ slots = SlotsOf(parsed, Root.fingerprint) /\ Enumerable(parsed)
      /\ Sortable(slots) /\ \A slot \in slots : slot.input_index \in DOMAIN parsed
  BY EnumerationIs DEF Declared
<1>2. i \in DOMAIN parsed
  BY <1>1
<1>3. Cardinality(here) <= MaxSlotsPerInput
  <2> HIDE DEF parsed, i
  <2> QED
    BY <1>1, <1>2, SlotsOfInputBounded DEF Enumerable
<1>4. here \in SUBSET slots
  BY <1>1
<1>5. IsFiniteSet(here)
  BY <1>1, <1>4, FS_Subset DEF Sortable
<1>6. places \subseteq 1..size
  OBVIOUS
<1>7. g \in Injection(places, here)
  <2>1. \A k \in places : f[k] \in here
    BY <1>1, <1>6
  <2> HIDE DEF here, places
  <2> QED
    BY <1>6, <2>1 DEF Injection, IsInjective
<1>8. IsFiniteSet(places) /\ Cardinality(places) <= Cardinality(here)
  <2> HIDE DEF g, here, places
  <2> QED
    BY <1>5, <1>7, FS_Injection
<1>9. Cardinality(places) \in Nat /\ Cardinality(here) \in Nat /\ MaxSlotsPerInput \in Nat
  BY <1>5, <1>8, FS_CardinalityType, MultisigAssumption
<1> QED
  BY <1>3, <1>8, <1>9

LEMMA CommitIsMade ==
    ASSUME ByFingerprint(psbt) # {}
    PROVE  CommitMade(HostCommitMessage(ByFingerprint(psbt), TestNetwork, SessionId, psbt,
                                        Rhos(ByFingerprint(psbt))))
<1> DEFINE slots == ByFingerprint(psbt)
           m == HostCommitMessage(slots, TestNetwork, SessionId, psbt, Rhos(slots))
           order == InOrder(slots)
           size == Cardinality(slots)
<1>1. /\ Sortable(slots) /\ size \in 1..MaxSlots /\ RhosApart({Identifier(slot) : slot \in slots})
      /\ \A slot \in slots :
            /\ slot = Own(slot) /\ slot.input_index \in Nat /\ IsPoint(slot.signer_pubkey)
            /\ slot.message_hash \in Octets32
  BY EnumerationIs DEF Declared
<1>2. /\ size \in Nat
      /\ \A n \in 1..size : order[n] \in slots
      /\ \A k, i \in 1..size : order[k] = order[i] => k = i
      /\ \A s \in slots : \E k \in 1..size : order[k] = s
      /\ \A k \in 1..(size - 1) : Precedes(Identifier(order[k]), Identifier(order[k + 1]))
  BY <1>1, InOrderIs
<1>3. /\ IsMessage(m)
      /\ <<m.network, m.stage, m.session_id, m.psbt_digest>> = <<TestNetwork, 1, SessionId, psbt>>
      /\ Len(m.slots) = size /\ DOMAIN m.slots = 1..size
      /\ \A n \in 1..size :
            /\ Own(m.slots[n]) = Own(order[n])
            /\ Identifier(m.slots[n]) = Identifier(order[n])
            /\ m.slots[n].input_index = order[n].input_index
            /\ m.slots[n].signer_pubkey = order[n].signer_pubkey
            /\ m.slots[n].sighash_type = SIGHASH_ALL
            /\ m.slots[n].commitment = HostCommit(Rho(Identifier(order[n])))
            /\ m.slots[n].opening = Absent /\ m.slots[n].rho = Absent
            /\ m.slots[n].signature = Absent
  BY <1>1, CommitFields
<1> HIDE DEF m, order, size, slots
<1>4. ASSUME NEW n \in 1..size
      PROVE  ValidSlot(1, m.slots[n])
  <2>1. order[n] \in slots /\ Own(m.slots[n]) = Own(order[n])
    BY <1>2, <1>3
  <2>2. m.slots[n].message_hash \in Octets32
    BY <1>1, <2>1 DEF Own
  <2>3. m.slots[n].commitment \in Nat
    <3>1. Identifier(order[n]) \in {Identifier(slot) : slot \in slots}
      BY <2>1
    <3>2. Rho(Identifier(order[n])) \in Octets32
      BY <1>1, <3>1 DEF RhosApart
    <3> QED
      BY <1>3, <3>2, CommitmentAssumption
  <2>4. m.slots[n].input_index \in Nat /\ IsPoint(m.slots[n].signer_pubkey)
    BY <1>1, <1>3, <2>1
  <2>5. /\ m.slots[n].sighash_type = SIGHASH_ALL /\ m.slots[n].opening = Absent
        /\ m.slots[n].rho = Absent /\ m.slots[n].signature = Absent
    BY <1>3
  <2> QED
    BY <2>2, <2>3, <2>4, <2>5 DEF ValidSlot, SIGNER_OPENINGS, HOST_REVEAL, SIGNER_SIGNATURES
<1>5. Ordered(m.slots)
  BY <1>2, <1>3 DEF Ordered
<1>6. ASSUME NEW n \in 1..size, NEW k \in 1..(n - 1)
      PROVE  m.slots[k].commitment # m.slots[n].commitment
  <2>1. k \in 1..size /\ k # n
    BY <1>2
  <2>2. order[k] # order[n] /\ order[k] \in slots /\ order[n] \in slots
    BY <1>2, <2>1
  <2>3. Identifier(order[k]) # Identifier(order[n])
    BY <1>1, <2>2 DEF Sortable
  <2>4. HostCommit(Rho(Identifier(order[k]))) # HostCommit(Rho(Identifier(order[n])))
    BY <1>1, <2>2, <2>3 DEF RhosApart
  <2> QED
    BY <1>3, <2>1, <2>4
<1>7. ASSUME NEW n \in 1..size
      PROVE  Cardinality({k \in 1..n : m.slots[k].input_index = m.slots[n].input_index})
                 <= MaxSlotsPerInput
  <2>1. {k \in 1..n : m.slots[k].input_index = m.slots[n].input_index}
            = {k \in 1..n : order[k].input_index = order[n].input_index}
    BY <1>2, <1>3
  <2>2. Cardinality({k \in 1..n : order[k].input_index = order[n].input_index})
            <= MaxSlotsPerInput
    <3>1. /\ size \in Nat
          /\ \A k \in 1..size : order[k] \in ByFingerprint(psbt)
          /\ \A i, k \in 1..size : order[i] = order[k] => i = k
      BY <1>2 DEF slots
    <3> QED
      BY <3>1, CommitPerInput
  <2> QED
    BY <2>1, <2>2
<1>8. m.network \in Network /\ m.stage = 1
  BY <1>3, SettingAssumption
<1>9. ValidMessage(m)
  <2>1. ASSUME NEW n \in 1..size, NEW k \in 1..(n - 1)
        PROVE  /\ m.slots[n].rho = Absent /\ m.slots[n].opening = Absent
    BY <1>3
  <2>2. ASSUME NEW n \in DOMAIN m.slots, NEW k \in 1..(n - 1)
        PROVE  /\ m.slots[k].commitment # m.slots[n].commitment
               /\ m.slots[n].rho # Absent => m.slots[k].rho # m.slots[n].rho
               /\ (m.slots[n].opening # Absent /\ m.slots[k].signer_pubkey = m.slots[n].signer_pubkey)
                    => m.slots[k].opening # m.slots[n].opening
    BY <1>3, <1>6, <2>1
  <2>3. \A n \in DOMAIN m.slots : ValidSlot(m.stage, m.slots[n])
    BY <1>3, <1>4, <1>8
  <2>4. \A n \in DOMAIN m.slots :
            Cardinality({k \in 1..n : m.slots[k].input_index = m.slots[n].input_index})
                <= MaxSlotsPerInput
    BY <1>3, <1>7
  <2>5. Len(m.slots) \in 1..MaxSlots /\ m.stage \in HOST_COMMIT..SIGNER_SIGNATURES
    BY <1>1, <1>3, <1>8 DEF HOST_COMMIT, SIGNER_SIGNATURES
  <2> QED
    BY <1>5, <1>8, <2>2, <2>3, <2>4, <2>5 DEF ValidMessage
<1>10. /\ \A n \in DOMAIN m.slots :
             /\ Own(m.slots[n]) \in slots
             /\ m.slots[n].commitment = HostCommit(Rho(Identifier(m.slots[n])))
       /\ \A slot \in slots : \E n \in DOMAIN m.slots : Own(m.slots[n]) = slot
  <2>1. \A n \in 1..size : Own(m.slots[n]) = order[n]
    BY <1>1, <1>2, <1>3
  <2>2. ASSUME NEW slot \in slots
        PROVE  \E n \in DOMAIN m.slots : Own(m.slots[n]) = slot
    <3>1. PICK n \in 1..size : order[n] = slot
      BY <1>2
    <3> QED
      BY <1>3, <2>1, <3>1
  <2> QED
    BY <1>2, <1>3, <2>1, <2>2
<1> QED
  BY <1>3, <1>9, <1>10 DEF CommitMade, m, size, slots

-----------------------------------------------------------------------------
\* The hash functions have numbers for their values, and among the blocks of the nonce
\* stream there is a candidate: the code draws blocks until there is one.
HashesTyped(hashes) ==
    /\ \A secret \in 1..(GroupN - 1), digest \in 0..(GroupN - 1), data \in Nat :
          LET blocks == NonceBlocks(hashes, secret, digest, data)
          IN  blocks \in Seq(Nat) /\ \E i \in DOMAIN blocks : blocks[i] \in 1..(GroupN - 1)
    /\ \A opening, rho \in Nat : PointHash(hashes, opening, rho) \in Nat

\* The first candidate is a scalar.
LEMMA FirstCandidateIs ==
    ASSUME NEW hashes, HashesTyped(hashes), NEW secret \in 1..(GroupN - 1), NEW hash \in Nat,
           NEW data \in Nat
    PROVE  FirstCandidate(hashes, secret, hash, data) \in 1..(GroupN - 1)
<1> DEFINE blocks == NonceBlocks(hashes, secret, hash % GroupN, data)
           candidates == NonceCandidates(hashes, secret, hash, data)
<1>1. hash % GroupN \in 0..(GroupN - 1)
  BY GroupFacts
<1>2. blocks \in Seq(Nat) /\ \E i \in DOMAIN blocks : blocks[i] \in 1..(GroupN - 1)
  BY <1>1 DEF HashesTyped
<1>3. /\ DOMAIN candidates \in SUBSET Nat /\ DOMAIN candidates # {}
      /\ \A i \in DOMAIN candidates : candidates[i] \in 1..(GroupN - 1)
  BY <1>2, CandidatesAre
<1>4. FirstCandidate(hashes, secret, hash, data) = candidates[FirstOf(DOMAIN candidates)]
  BY DEF FirstCandidate
<1> HIDE DEF candidates
<1> QED
  BY <1>3, <1>4, FirstIs

\* An opening is a point that can be read back, and a number.
LEMMA OpeningIs ==
    ASSUME NEW hashes, HashesTyped(hashes), NEW secret \in 1..(GroupN - 1), NEW hash \in Nat,
           NEW data \in Nat
    PROVE  LET opening == SignerOpening(hashes, secret, hash, data)
           IN  opening \in Nat /\ ParsePoint(opening) # Invalid
<1> DEFINE candidate == FirstCandidate(hashes, secret, hash, data)
           q == PointMul(candidate, Generator)
<1>1. candidate \in 1..(GroupN - 1)
  BY FirstCandidateIs
<1> HIDE DEF candidate
<1>2. q \in Point /\ q # Infinity
  BY <1>1, MulIs, MultipleNonzero, GroupAssumption DEF Multiple
<1>3. q.x \in Nat
  BY <1>2, CurveAssumption DEF Point
<1>4. SignerOpening(hashes, secret, hash, data) = SerializePoint(q)
  BY DEF SignerOpening, candidate
<1> HIDE DEF q
<1>5. SerializePoint(q) \in Nat
  <2>1. \A x \in Nat : 3 * Bytes32 + x \in Nat /\ 2 * Bytes32 + x \in Nat
    BY CurveAssumption
  <2> QED
    BY <1>3, <2>1 DEF SerializePoint
<1>6. ParsePoint(SerializePoint(q)) # Invalid
  BY <1>2, PointReadBack, GroupAssumption
<1> QED
  BY <1>4, <1>5, <1>6

\* When signing gives up, the first candidate was already no good.
LEMMA GivesUp ==
    ASSUME NEW hashes, HashesTyped(hashes), NEW secret \in 1..(GroupN - 1), NEW hash \in Nat,
           NEW rho \in Octets32, AntiExfilSign(hashes, secret, hash, rho).signature = Invalid
    PROVE  LET first == FirstCandidate(hashes, secret, hash, HostCommit(rho))
           IN  SignWith(hashes, secret, hash, rho, first).signature \in {Invalid, Skipped}
<1> DEFINE blocks == NonceBlocks(hashes, secret, hash % GroupN, HostCommit(rho))
           candidates == NonceCandidates(hashes, secret, hash, HostCommit(rho))
           tries == [i \in DOMAIN candidates |-> SignWith(hashes, secret, hash, rho, candidates[i])]
           taken == {i \in DOMAIN tries : tries[i].signature # Skipped}
           least == FirstOf(DOMAIN candidates)
<1>1. hash % GroupN \in 0..(GroupN - 1) /\ HostCommit(rho) \in Nat
  <2>1. hash % GroupN \in 0..(GroupN - 1)
    BY GroupFacts
  <2>2. HostCommit(rho) \in Nat
    BY CommitmentAssumption
  <2> QED
    BY <2>1, <2>2
<1>2. blocks \in Seq(Nat) /\ \E i \in DOMAIN blocks : blocks[i] \in 1..(GroupN - 1)
  BY <1>1 DEF HashesTyped
<1>3. DOMAIN candidates \in SUBSET Nat /\ DOMAIN candidates # {}
  BY <1>2, CandidatesAre
<1>4. FirstCandidate(hashes, secret, hash, HostCommit(rho)) = candidates[least]
  BY DEF FirstCandidate
<1>5. AntiExfilSign(hashes, secret, hash, rho)
          = IF taken = {} THEN [signature |-> Invalid, opening |-> Invalid] ELSE tries[FirstOf(taken)]
  BY DEF AntiExfilSign
<1> HIDE DEF candidates, blocks
<1>6. least \in DOMAIN candidates /\ \A j \in DOMAIN candidates : least <= j
  BY <1>3, FirstIs
<1> HIDE DEF least
<1>7. tries[least] = SignWith(hashes, secret, hash, rho, candidates[least])
  BY <1>6
<1> HIDE DEF tries
<1>8. DOMAIN tries = DOMAIN candidates
  BY DEF tries
<1>9. ASSUME tries[least].signature # Skipped
      PROVE  tries[least].signature = Invalid
  <2>1. least \in taken /\ taken \in SUBSET Nat
    BY <1>3, <1>6, <1>8, <1>9
  <2> HIDE DEF taken
  <2>2. FirstOf(taken) \in taken /\ FirstOf(taken) <= least
    BY <2>1, FirstIs
  <2>3. FirstOf(taken) \in DOMAIN candidates
    BY <1>8, <2>2 DEF taken
  <2>4. FirstOf(taken) = least
    BY <1>3, <1>6, <2>2, <2>3
  <2> QED
    BY <1>5, <2>1, <2>4
<1> QED
  BY <1>4, <1>7, <1>9

-----------------------------------------------------------------------------
\* What signing makes of a slot, at whichever candidate.
HonestSignature(slot) ==
    AntiExfilSign(h, SlotSecret(slot), slot.message_hash, Rho(Identifier(slot))).signature

\* The slot as the message of a stage has it when nothing goes wrong.
Answered(stage, slot) ==
    [input_index |-> slot.input_index, sighash_type |-> slot.sighash_type,
     signer_pubkey |-> slot.signer_pubkey, message_hash |-> slot.message_hash,
     commitment |-> slot.commitment,
     opening |-> IF stage >= 2 THEN FirstPoint(slot) ELSE Absent,
     rho |-> IF stage = 3 THEN Rho(Identifier(slot)) ELSE Absent,
     signature |-> IF stage = 4 THEN HonestSignature(slot) ELSE Absent]

AllAnswered(m, stage) == [n \in DOMAIN m.slots |-> Answered(stage, m.slots[n])]

\* The message of a stage in the session that m opens.
Expected(m, stage) ==
    [network |-> TestNetwork, stage |-> stage, session_id |-> SessionId, psbt_digest |-> psbt,
     slots |-> AllAnswered(m, stage)]

LowSignature == [r : 1..(GroupN - 1), s : 1..(GroupN \div 2)]

SignedThroughout(m) == \A n \in DOMAIN m.slots : HonestSignature(m.slots[n]) \in LowSignature

\* A slot of message 1 by itself.
LEMMA SlotIs ==
    ASSUME NEW m, CommitMade(m), NEW n \in DOMAIN m.slots
    PROVE  LET slot == m.slots[n]
           IN  /\ slot.sighash_type = SIGHASH_ALL /\ IsPoint(slot.signer_pubkey)
               /\ slot.input_index \in Nat /\ slot.commitment \in Nat
               /\ slot.opening = Absent /\ slot.rho = Absent /\ slot.signature = Absent
               /\ slot.commitment = HostCommit(Rho(Identifier(slot)))
               /\ Rho(Identifier(slot)) \in Octets32 /\ Rho(Identifier(slot)) \in Nat
               /\ slot.message_hash \in Octets32 /\ slot.message_hash \in Nat
               /\ Declared(PsbtOf[psbt], Own(slot))
<1> DEFINE slot == m.slots[n]
           slots == ByFingerprint(psbt)
<1>1. ValidSlot(1, slot)
  BY DEF CommitMade, ValidMessage
<1>2. Own(slot) \in slots /\ slot.commitment = HostCommit(Rho(Identifier(slot)))
  BY DEF CommitMade
<1>3. /\ RhosApart({Identifier(t) : t \in slots})
      /\ \A t \in slots : t.message_hash \in Octets32 /\ Declared(PsbtOf[psbt], t)
  BY EnumerationIs DEF CommitMade
<1>4. Identifier(Own(slot)) = Identifier(slot) /\ Own(slot).message_hash = slot.message_hash
  BY DEF Own, Identifier
<1>5. Rho(Identifier(slot)) \in Octets32
  <2>1. Identifier(slot) \in {Identifier(t) : t \in slots}
    BY <1>2, <1>4
  <2> HIDE DEF slots
  <2> QED
    BY <1>3, <2>1 DEF RhosApart
<1>6. \A octets \in Octets32 : octets \in Nat
  BY CurveAssumption DEF Octets32
<1> HIDE DEF slots
<1> QED
  BY <1>1, <1>2, <1>3, <1>4, <1>5, <1>6
     DEF ValidSlot, SIGNER_OPENINGS, HOST_REVEAL, SIGNER_SIGNATURES

\* The device finds the secret of a slot at the path the PSBT declares, if that derives it.
LEMMA SecretIs ==
    ASSUME NEW m, CommitMade(m), NEW n \in DOMAIN m.slots, PathsDerive(PsbtOf[psbt], Root)
    PROVE  /\ SlotSecret(m.slots[n]) \in 1..(GroupN - 1)
           /\ PublicKey(SlotSecret(m.slots[n])) = m.slots[n].signer_pubkey
<1> DEFINE slot == m.slots[n]
           scope == PsbtOf[psbt][slot.input_index]
<1>1. Declared(PsbtOf[psbt], Own(slot))
  BY SlotIs
<1>2. /\ slot.input_index \in DOMAIN PsbtOf[psbt]
      /\ slot.signer_pubkey \in Controlled(scope, Root.fingerprint)
  BY <1>1 DEF Declared, Own
<1>3. Derives(Root, scope.bip32_derivations[slot.signer_pubkey].path, slot.signer_pubkey)
  BY <1>2 DEF PathsDerive
<1> QED
  BY <1>3, SettingAssumption DEF Derives, SlotSecret

\* The opening of message 2.
LEMMA FirstPointIs ==
    ASSUME HashesTyped(h), NEW m, CommitMade(m), NEW n \in DOMAIN m.slots,
           PathsDerive(PsbtOf[psbt], Root)
    PROVE  FirstPoint(m.slots[n]) \in Nat /\ ParsePoint(FirstPoint(m.slots[n])) # Invalid
<1> DEFINE slot == m.slots[n]
<1>1. /\ slot.commitment = HostCommit(Rho(Identifier(slot)))
      /\ Rho(Identifier(slot)) \in Nat /\ slot.message_hash \in Nat
  BY SlotIs
<1>2. SlotSecret(slot) \in 1..(GroupN - 1)
  BY SecretIs
<1>3. slot.commitment \in Nat
  BY SlotIs
<1> HIDE DEF slot
<1> QED
  BY <1>1, <1>2, <1>3, OpeningIs DEF FirstPoint, slot

\* An expected message has the shape of one.
LEMMA ExpectedIs ==
    ASSUME NEW m, CommitMade(m), NEW stage \in 1..4, stage = 4 => SignedThroughout(m)
    PROVE  LET new == Expected(m, stage)
           IN  /\ IsMessage(new) /\ Len(new.slots) = Len(m.slots)
               /\ DOMAIN new.slots = DOMAIN m.slots
               /\ <<new.network, new.stage, new.session_id, new.psbt_digest>>
                     = <<TestNetwork, stage, SessionId, psbt>>
               /\ new = [network |-> new.network, stage |-> new.stage,
                         session_id |-> new.session_id, psbt_digest |-> new.psbt_digest,
                         slots |-> new.slots]
               /\ \A n \in DOMAIN m.slots : new.slots[n] = Answered(stage, m.slots[n])
<1> DEFINE f == [n \in DOMAIN m.slots |-> Answered(stage, m.slots[n])]
           new == Expected(m, stage)
<1>1. new = [network |-> TestNetwork, stage |-> stage, session_id |-> SessionId,
             psbt_digest |-> psbt, slots |-> f]
  BY DEF Expected, AllAnswered
<1>2. ASSUME NEW n \in DOMAIN m.slots
      PROVE  IsSlot(Answered(stage, m.slots[n]))
  <2> DEFINE slot == m.slots[n]
             signature == IF stage = 4 THEN HonestSignature(slot) ELSE Absent
             opening == IF stage >= 2 THEN FirstPoint(slot) ELSE Absent
             rho == IF stage = 3 THEN Rho(Identifier(slot)) ELSE Absent
  <2>1. signature # Absent => signature = [r |-> signature.r, s |-> signature.s]
    <3>1. stage = 4 => HonestSignature(slot) \in LowSignature
      BY DEF SignedThroughout
    <3>2. \A t \in LowSignature : t = [r |-> t.r, s |-> t.s]
      BY DEF LowSignature
    <3> QED
      BY <3>1, <3>2
  <2>2. Answered(stage, slot)
            = [input_index |-> slot.input_index, sighash_type |-> slot.sighash_type,
               signer_pubkey |-> slot.signer_pubkey, message_hash |-> slot.message_hash,
               commitment |-> slot.commitment, opening |-> opening, rho |-> rho,
               signature |-> signature]
    BY DEF Answered
  <2> HIDE DEF signature, opening, rho, slot
  <2> QED
    BY <2>1, <2>2 DEF IsSlot, slot
<1>3. Len(m.slots) \in Nat /\ DOMAIN m.slots = 1..Len(m.slots)
  BY SequenceShape DEF CommitMade, IsMessage
<1>4. \A n \in DOMAIN m.slots : f[n] = Answered(stage, m.slots[n])
  OBVIOUS
<1>5. f = [n \in 1..Len(m.slots) |-> f[n]]
  BY <1>3
<1> HIDE DEF f, new
<1>6. IsSequence(f) /\ Len(f) = Len(m.slots) /\ DOMAIN f = DOMAIN m.slots
  BY <1>3, <1>5, IsSequenceIff
<1>7. IsMessage(new)
  BY <1>1, <1>2, <1>4, <1>6 DEF IsMessage
<1> QED
  BY <1>1, <1>4, <1>6, <1>7 DEF new

\* Message 1 is the first of them.
LEMMA CommitIsExpected ==
    ASSUME NEW m, CommitMade(m)
    PROVE  m = Expected(m, 1)
<1> DEFINE f == [n \in DOMAIN m.slots |-> Answered(1, m.slots[n])]
<1>1. ASSUME NEW n \in DOMAIN m.slots
      PROVE  Answered(1, m.slots[n]) = m.slots[n]
  <2>1. IsSlot(m.slots[n])
    BY DEF CommitMade, IsMessage
  <2>2. /\ m.slots[n].opening = Absent /\ m.slots[n].rho = Absent
        /\ m.slots[n].signature = Absent
    BY SlotIs
  <2> QED
    BY <2>1, <2>2 DEF IsSlot, Answered
<1>2. m.slots = [n \in DOMAIN m.slots |-> m.slots[n]]
  BY SequenceShape DEF CommitMade, IsMessage
<1>3. f = m.slots
  BY <1>1, <1>2
<1>4. Expected(m, 1) = [network |-> TestNetwork, stage |-> 1, session_id |-> SessionId,
                        psbt_digest |-> psbt, slots |-> f]
  BY DEF Expected, AllAnswered
<1>5. /\ m = [network |-> m.network, stage |-> m.stage, session_id |-> m.session_id,
              psbt_digest |-> m.psbt_digest, slots |-> m.slots]
      /\ <<m.network, m.stage, m.session_id, m.psbt_digest>> = <<TestNetwork, 1, SessionId, psbt>>
  BY DEF CommitMade, IsMessage
<1> HIDE DEF f
<1> QED
  BY <1>3, <1>4, <1>5

-----------------------------------------------------------------------------
\* What a slot of a later message needs for the message to be valid.
LEMMA AnsweredIs ==
    ASSUME HashesTyped(h), NEW m, CommitMade(m), NEW stage \in 2..4, NEW n \in DOMAIN m.slots,
           PathsDerive(PsbtOf[psbt], Root), stage = 4 => SignedThroughout(m)
    PROVE  LET slot == m.slots[n]
               new == Answered(stage, m.slots[n])
           IN  /\ ValidSlot(stage, new)
               /\ Identifier(new) = Identifier(slot) /\ new.input_index = slot.input_index
               /\ new.signer_pubkey = slot.signer_pubkey /\ new.commitment = slot.commitment
               /\ new.message_hash = slot.message_hash /\ new.sighash_type = slot.sighash_type
               /\ new.opening = FirstPoint(slot)
               /\ new.rho = IF stage = 3 THEN Rho(Identifier(slot)) ELSE Absent
               /\ new.signature = IF stage = 4 THEN HonestSignature(slot) ELSE Absent
<1> DEFINE slot == m.slots[n]
           new == Answered(stage, slot)
<1>1. /\ slot.sighash_type = SIGHASH_ALL /\ IsPoint(slot.signer_pubkey)
      /\ slot.input_index \in Nat /\ slot.commitment \in Nat /\ slot.message_hash \in Octets32
      /\ Rho(Identifier(slot)) \in Octets32 /\ Rho(Identifier(slot)) \in Nat
  BY SlotIs
<1>2. FirstPoint(slot) \in Nat /\ ParsePoint(FirstPoint(slot)) # Invalid
  BY FirstPointIs
<1>3. stage = 4 => HonestSignature(slot) \in LowSignature
  BY DEF SignedThroughout
<1> HIDE DEF slot
<1>4. /\ Identifier(new) = Identifier(slot) /\ new.input_index = slot.input_index
      /\ new.signer_pubkey = slot.signer_pubkey /\ new.commitment = slot.commitment
      /\ new.message_hash = slot.message_hash /\ new.sighash_type = slot.sighash_type
      /\ new.opening = FirstPoint(slot)
      /\ new.rho = IF stage = 3 THEN Rho(Identifier(slot)) ELSE Absent
      /\ new.signature = IF stage = 4 THEN HonestSignature(slot) ELSE Absent
  BY DEF Answered, Identifier
<1> HIDE DEF new
<1>5. Absent \notin Nat
  BY SettingAssumption
<1>6. \A t \in LowSignature : /\ t # Absent /\ t.r \in 1..(GroupN - 1)
                              /\ t.s \in 1..(GroupN \div 2)
  <2>1. GroupN \div 2 <= GroupN - 1 /\ GroupN \div 2 \in Int
    BY GroupFacts, Halves
  <2>2. LowSignature \subseteq [r : 1..(GroupN - 1), s : 1..(GroupN - 1)]
    <3>1. 1..(GroupN \div 2) \subseteq 1..(GroupN - 1)
      BY <2>1, GroupFacts
    <3> QED
      BY <3>1 DEF LowSignature
  <2>3. \A t \in LowSignature : t # Absent
    BY <2>2, SettingAssumption
  <2> QED
    BY <2>3 DEF LowSignature
<1>7. /\ new.opening # Absent /\ IsPoint(new.opening)
      /\ new.rho # Absent => new.rho \in Octets32
      /\ (new.rho # Absent) <=> (stage = 3)
      /\ (new.signature # Absent) <=> (stage = 4)
      /\ new.signature # Absent =>
            new.signature.r \in 1..(GroupN - 1) /\ new.signature.s \in 1..(GroupN \div 2)
  BY <1>1, <1>2, <1>3, <1>4, <1>5, <1>6 DEF IsPoint
<1>8. ValidSlot(stage, new)
  BY <1>1, <1>4, <1>7 DEF ValidSlot, SIGNER_OPENINGS, HOST_REVEAL, SIGNER_SIGNATURES
<1> QED
  BY <1>4, <1>8 DEF new, slot

\* A later message is valid unless two openings of a key are equal.
LEMMA ExpectedValid ==
    ASSUME HashesTyped(h), NEW m, CommitMade(m), NEW stage \in 2..4,
           PathsDerive(PsbtOf[psbt], Root), ~EqualOpenings(m), stage = 4 => SignedThroughout(m)
    PROVE  ValidMessage(Expected(m, stage))
<1> DEFINE new == Expected(m, stage)
           size == Len(m.slots)
<1>1. /\ Len(new.slots) = size /\ DOMAIN new.slots = DOMAIN m.slots
      /\ <<new.network, new.stage>> = <<TestNetwork, stage>>
      /\ \A n \in DOMAIN m.slots : new.slots[n] = Answered(stage, m.slots[n])
  <2>1. stage \in 1..4
    OBVIOUS
  <2> QED
    BY <2>1, ExpectedIs
<1>2. /\ size \in 1..MaxSlots /\ Ordered(m.slots)
      /\ \A n \in DOMAIN m.slots : \A k \in 1..(n - 1) :
            m.slots[k].commitment # m.slots[n].commitment
      /\ \A n \in DOMAIN m.slots :
            Cardinality({k \in 1..n : m.slots[k].input_index = m.slots[n].input_index})
                <= MaxSlotsPerInput
  BY DEF CommitMade, ValidMessage
<1>3. size \in Nat /\ DOMAIN m.slots = 1..size
  BY SequenceShape DEF CommitMade, IsMessage
<1>4. \A n \in 1..size :
          /\ ValidSlot(stage, new.slots[n])
          /\ Identifier(new.slots[n]) = Identifier(m.slots[n])
          /\ new.slots[n].input_index = m.slots[n].input_index
          /\ new.slots[n].signer_pubkey = m.slots[n].signer_pubkey
          /\ new.slots[n].commitment = m.slots[n].commitment
          /\ new.slots[n].opening = FirstPoint(m.slots[n])
          /\ new.slots[n].rho = IF stage = 3 THEN Rho(Identifier(m.slots[n])) ELSE Absent
  BY <1>1, <1>3, AnsweredIs
<1>5. \A n \in 1..size : m.slots[n].commitment = HostCommit(Rho(Identifier(m.slots[n])))
  BY <1>3 DEF CommitMade
<1>6. \A n, k \in 1..size : n # k /\ m.slots[n].signer_pubkey = m.slots[k].signer_pubkey
          => FirstPoint(m.slots[n]) # FirstPoint(m.slots[k])
  BY <1>3 DEF EqualOpenings
<1> HIDE DEF new, size
<1>7. Ordered(new.slots)
  BY <1>1, <1>2, <1>3, <1>4 DEF Ordered, size
<1>8. ASSUME NEW n \in 1..size, NEW k \in 1..(n - 1)
      PROVE  /\ new.slots[k].commitment # new.slots[n].commitment
             /\ new.slots[n].rho # Absent => new.slots[k].rho # new.slots[n].rho
             /\ (new.slots[n].opening # Absent /\ new.slots[k].signer_pubkey = new.slots[n].signer_pubkey)
                  => new.slots[k].opening # new.slots[n].opening
  <2>1. k \in 1..size /\ k # n
    BY <1>3
  <2>2. m.slots[k].commitment # m.slots[n].commitment
    BY <1>2, <1>3
  <2>3. Rho(Identifier(m.slots[k])) # Rho(Identifier(m.slots[n]))
    BY <1>5, <2>1, <2>2
  <2> QED
    BY <1>4, <1>6, <2>1, <2>2, <2>3
<1>9. ASSUME NEW n \in 1..size
      PROVE  Cardinality({k \in 1..n : new.slots[k].input_index = new.slots[n].input_index})
                 <= MaxSlotsPerInput
  <2>1. {k \in 1..n : new.slots[k].input_index = new.slots[n].input_index}
            = {k \in 1..n : m.slots[k].input_index = m.slots[n].input_index}
    BY <1>3, <1>4
  <2> QED
    BY <1>2, <1>3, <2>1
<1>10. new.network \in Network /\ new.stage \in 1..4 /\ new.stage = stage
  BY <1>1, SettingAssumption
<1>11. DOMAIN new.slots = 1..size /\ Len(new.slots) \in 1..MaxSlots
  BY <1>1, <1>2, <1>3
<1>12. new.stage \in HOST_COMMIT..SIGNER_SIGNATURES
  BY <1>10 DEF HOST_COMMIT, SIGNER_SIGNATURES
<1>13. \A n \in DOMAIN new.slots : ValidSlot(new.stage, new.slots[n])
  BY <1>4, <1>10, <1>11
<1>14. \A n \in DOMAIN new.slots : \A k \in 1..(n - 1) :
          /\ new.slots[k].commitment # new.slots[n].commitment
          /\ new.slots[n].rho # Absent => new.slots[k].rho # new.slots[n].rho
          /\ (new.slots[n].opening # Absent /\ new.slots[k].signer_pubkey = new.slots[n].signer_pubkey)
               => new.slots[k].opening # new.slots[n].opening
  BY <1>8, <1>11
<1>15. \A n \in DOMAIN new.slots :
          Cardinality({k \in 1..n : new.slots[k].input_index = new.slots[n].input_index})
              <= MaxSlotsPerInput
  BY <1>9, <1>11
<1>16. ValidMessage(new)
  BY <1>7, <1>10, <1>11, <1>12, <1>13, <1>14, <1>15 DEF ValidMessage
<1> QED
  BY <1>16 DEF new

\* A stage on, with the slots of that stage.
LEMMA ExpectedChanged ==
    ASSUME NEW m, NEW stage, NEW later, NEW f, f = AllAnswered(m, later),
           NEW new, new = Changed(Expected(m, stage), later, f)
    PROVE  new = Expected(m, later)
<1> DEFINE g == AllAnswered(m, stage)
<1>1. Expected(m, later) = [network |-> TestNetwork, stage |-> later, session_id |-> SessionId,
                            psbt_digest |-> psbt, slots |-> f]
  BY DEF Expected
<1>2. new = [[network |-> TestNetwork, stage |-> stage, session_id |-> SessionId,
              psbt_digest |-> psbt, slots |-> g] EXCEPT !.stage = later, !.slots = f]
  BY DEF Expected, Changed
<1>3. new = [network |-> TestNetwork, stage |-> later, session_id |-> SessionId,
             psbt_digest |-> psbt, slots |-> f]
  BY <1>2
<1> QED
  BY <1>1, <1>3

\* Another field of a slot filled in.
LEMMA OpeningAnswered ==
    ASSUME NEW slot, NEW new, new = [Answered(1, slot) EXCEPT !.opening = FirstPoint(slot)]
    PROVE  new = Answered(2, slot)
  BY DEF Answered

LEMMA RhoAnswered ==
    ASSUME NEW slot, NEW new, new = [Answered(2, slot) EXCEPT !.rho = Rho(Identifier(slot))]
    PROVE  new = Answered(3, slot)
  BY DEF Answered

LEMMA SignatureAnswered ==
    ASSUME NEW slot, NEW new,
           new = [Answered(3, slot) EXCEPT !.rho = Absent, !.signature = HonestSignature(slot)]
    PROVE  new = Answered(4, slot)
<1> DEFINE made == HonestSignature(slot)
           Having(rho, signature) ==
               [input_index |-> slot.input_index, sighash_type |-> slot.sighash_type,
                signer_pubkey |-> slot.signer_pubkey, message_hash |-> slot.message_hash,
                commitment |-> slot.commitment, opening |-> FirstPoint(slot), rho |-> rho,
                signature |-> signature]
<1>1. Answered(3, slot) = Having(Rho(Identifier(slot)), Absent) /\ Answered(4, slot) = Having(Absent, made)
  BY DEF Answered
<1>2. new = [Having(Rho(Identifier(slot)), Absent) EXCEPT !.rho = Absent, !.signature = made]
  BY <1>1
<1> HIDE DEF made
<1>3. new = Having(Absent, made)
  BY <1>2
<1> QED
  BY <1>1, <1>3

\* The device's answer to message 1.
LEMMA OpeningsExpected ==
    ASSUME NEW m, CommitMade(m), wire.psbt = psbt
    PROVE  OpeningsFor(Expected(m, 1)) = Expected(m, 2)
<1> DEFINE old == Expected(m, 1)
           f == [n \in DOMAIN old.slots |->
                  [old.slots[n] EXCEPT !.opening =
                      SignerOpening(h, Secret(old.slots[n]), old.slots[n].message_hash,
                                    old.slots[n].commitment)]]
           g == [n \in DOMAIN m.slots |-> Answered(2, m.slots[n])]
<1>1. OpeningsFor(old) = [old EXCEPT !.stage = 2, !.slots = f]
  BY DEF OpeningsFor, SIGNER_OPENINGS
<1>2. /\ DOMAIN old.slots = DOMAIN m.slots
      /\ \A n \in DOMAIN m.slots : old.slots[n] = Answered(1, m.slots[n])
  BY DEF Expected, AllAnswered
<1>3. ASSUME NEW slot
      PROVE  [Answered(1, slot) EXCEPT !.opening =
                  SignerOpening(h, Secret(Answered(1, slot)), Answered(1, slot).message_hash,
                                Answered(1, slot).commitment)]
                = Answered(2, slot)
  <2>1. /\ Answered(1, slot).message_hash = slot.message_hash
        /\ Answered(1, slot).commitment = slot.commitment
        /\ Answered(1, slot).input_index = slot.input_index
        /\ Answered(1, slot).signer_pubkey = slot.signer_pubkey
    BY DEF Answered
  <2>2. Secret(Answered(1, slot)) = SlotSecret(slot)
    BY <2>1 DEF Secret, SlotSecret
  <2>3. SignerOpening(h, Secret(Answered(1, slot)), Answered(1, slot).message_hash,
                      Answered(1, slot).commitment) = FirstPoint(slot)
    BY <2>1, <2>2 DEF FirstPoint
  <2> DEFINE new == [Answered(1, slot) EXCEPT !.opening =
                         SignerOpening(h, Secret(Answered(1, slot)), Answered(1, slot).message_hash,
                                       Answered(1, slot).commitment)]
  <2>4. new = [Answered(1, slot) EXCEPT !.opening = FirstPoint(slot)]
    BY <2>3
  <2> HIDE DEF new
  <2>5. new = Answered(2, slot)
    BY <2>4, OpeningAnswered
  <2> QED
    BY <2>5 DEF new
<1>4. f = g
  <2> HIDE DEF old
  <2>1. \A n \in DOMAIN m.slots : f[n] = g[n]
    BY <1>2, <1>3
  <2>2. f = [n \in DOMAIN m.slots |-> f[n]] /\ g = [n \in DOMAIN m.slots |-> g[n]]
    BY <1>2
  <2> HIDE DEF f, g
  <2> QED
    BY <2>1, <2>2
<1> HIDE DEF f
<1>5. OpeningsFor(old) = Expected(m, 2)
  <2> DEFINE new == OpeningsFor(old)
  <2>1. new = Changed(old, 2, f) /\ f = AllAnswered(m, 2)
    BY <1>1, <1>4 DEF Changed, AllAnswered
  <2> HIDE DEF new
  <2>2. new = Expected(m, 2)
    BY <2>1, ExpectedChanged
  <2> QED
    BY <2>2 DEF new
<1> QED
  BY <1>5

\* The host's answer to message 2.
LEMMA RevealExpected ==
    ASSUME NEW m, CommitMade(m), sent[1] = m
    PROVE  /\ RevealFor(Expected(m, 2)) = Expected(m, 3)
           /\ \A n \in DOMAIN m.slots :
                 SessionRhos[Identifier(m.slots[n])] = Rho(Identifier(m.slots[n]))
<1> DEFINE old == Expected(m, 2)
           f == [n \in DOMAIN old.slots |->
                  [old.slots[n] EXCEPT !.rho = SessionRhos[Identifier(old.slots[n])]]]
           g == [n \in DOMAIN m.slots |-> Answered(3, m.slots[n])]
<1>1. RevealFor(old) = [old EXCEPT !.stage = 3, !.slots = f]
  BY DEF RevealFor, HOST_REVEAL
<1>2. /\ DOMAIN old.slots = DOMAIN m.slots
      /\ \A n \in DOMAIN m.slots : old.slots[n] = Answered(2, m.slots[n])
  BY DEF Expected, AllAnswered
<1>3. \A n \in DOMAIN m.slots :
          SessionRhos[Identifier(m.slots[n])] = Rho(Identifier(m.slots[n]))
  BY DEF SessionRhos, HOST_COMMIT
<1>4. ASSUME NEW n \in DOMAIN m.slots
      PROVE  [Answered(2, m.slots[n]) EXCEPT
                  !.rho = SessionRhos[Identifier(Answered(2, m.slots[n]))]] = Answered(3, m.slots[n])
  <2> DEFINE slot == m.slots[n]
  <2>1. Identifier(Answered(2, slot)) = Identifier(slot)
    BY DEF Answered, Identifier
  <2>2. SessionRhos[Identifier(Answered(2, slot))] = Rho(Identifier(slot))
    BY <1>3, <2>1
  <2> DEFINE new == [Answered(2, slot) EXCEPT
                         !.rho = SessionRhos[Identifier(Answered(2, slot))]]
  <2>3. new = [Answered(2, slot) EXCEPT !.rho = Rho(Identifier(slot))]
    BY <2>2
  <2> HIDE DEF new
  <2>4. new = Answered(3, slot)
    BY <2>3, RhoAnswered
  <2> QED
    BY <2>4 DEF new
<1>5. f = g
  <2> HIDE DEF old
  <2>1. ASSUME NEW n \in DOMAIN m.slots
        PROVE  f[n] = g[n]
    <3>1. old.slots[n] = Answered(2, m.slots[n]) /\ n \in DOMAIN old.slots
      BY <1>2
    <3>2. f[n] = [old.slots[n] EXCEPT !.rho = SessionRhos[Identifier(old.slots[n])]]
      BY <3>1
    <3>3. g[n] = Answered(3, m.slots[n])
      OBVIOUS
    <3> HIDE DEF f, g
    <3> QED
      BY <1>4, <3>1, <3>2, <3>3
  <2>2. f = [n \in DOMAIN m.slots |-> f[n]] /\ g = [n \in DOMAIN m.slots |-> g[n]]
    BY <1>2
  <2> HIDE DEF f, g
  <2> QED
    BY <2>1, <2>2
<1> HIDE DEF f
<1>6. RevealFor(old) = Expected(m, 3)
  <2> DEFINE new == RevealFor(old)
  <2>1. new = Changed(old, 3, f) /\ f = AllAnswered(m, 3)
    BY <1>1, <1>5 DEF Changed, AllAnswered
  <2> HIDE DEF new
  <2>2. new = Expected(m, 3)
    BY <2>1, ExpectedChanged
  <2> QED
    BY <2>2 DEF new
<1> QED
  BY <1>3, <1>6

\* The device's answer to message 3.
LEMMA SignaturesExpected ==
    ASSUME NEW m, CommitMade(m), wire.psbt = psbt
    PROVE  SignaturesFor(Expected(m, 3)) = Expected(m, 4)
<1> DEFINE old == Expected(m, 3)
           f == [n \in DOMAIN old.slots |->
                  [old.slots[n] EXCEPT !.rho = Absent,
                      !.signature = AntiExfilSign(h, Secret(old.slots[n]), old.slots[n].message_hash,
                                                  old.slots[n].rho).signature]]
           g == [n \in DOMAIN m.slots |-> Answered(4, m.slots[n])]
<1>1. SignaturesFor(old) = [old EXCEPT !.stage = 4, !.slots = f]
  BY DEF SignaturesFor, SIGNER_SIGNATURES
<1>2. /\ DOMAIN old.slots = DOMAIN m.slots
      /\ \A n \in DOMAIN m.slots : old.slots[n] = Answered(3, m.slots[n])
  BY DEF Expected, AllAnswered
<1>3. ASSUME NEW slot
      PROVE  [Answered(3, slot) EXCEPT !.rho = Absent,
                  !.signature = AntiExfilSign(h, Secret(Answered(3, slot)),
                                              Answered(3, slot).message_hash,
                                              Answered(3, slot).rho).signature]
                = Answered(4, slot)
  <2>1. /\ Answered(3, slot).message_hash = slot.message_hash
        /\ Answered(3, slot).rho = Rho(Identifier(slot))
        /\ Answered(3, slot).input_index = slot.input_index
        /\ Answered(3, slot).signer_pubkey = slot.signer_pubkey
    BY DEF Answered
  <2>2. Secret(Answered(3, slot)) = SlotSecret(slot)
    BY <2>1 DEF Secret, SlotSecret
  <2> DEFINE made == AntiExfilSign(h, Secret(Answered(3, slot)), Answered(3, slot).message_hash,
                                   Answered(3, slot).rho)
  <2>3. made.signature = HonestSignature(slot)
    BY <2>1, <2>2 DEF HonestSignature
  <2> DEFINE new == [Answered(3, slot) EXCEPT !.rho = Absent, !.signature = made.signature]
  <2>4. new = [Answered(3, slot) EXCEPT !.rho = Absent, !.signature = HonestSignature(slot)]
    BY <2>3
  <2> HIDE DEF new
  <2>5. new = Answered(4, slot)
    BY <2>4, SignatureAnswered
  <2> QED
    BY <2>5 DEF new
<1>4. f = g
  <2> HIDE DEF old
  <2>1. \A n \in DOMAIN m.slots : f[n] = g[n]
    BY <1>2, <1>3
  <2>2. f = [n \in DOMAIN m.slots |-> f[n]] /\ g = [n \in DOMAIN m.slots |-> g[n]]
    BY <1>2
  <2> HIDE DEF f, g
  <2> QED
    BY <2>1, <2>2
<1> HIDE DEF f
<1>5. SignaturesFor(old) = Expected(m, 4)
  <2> DEFINE new == SignaturesFor(old)
  <2>1. new = Changed(old, 4, f) /\ f = AllAnswered(m, 4)
    BY <1>1, <1>4 DEF Changed, AllAnswered
  <2> HIDE DEF new
  <2>2. new = Expected(m, 4)
    BY <2>1, ExpectedChanged
  <2> QED
    BY <2>2 DEF new
<1> QED
  BY <1>5

-----------------------------------------------------------------------------
\* The values that stand for no message are not messages.
ValuesApart == ~IsMessage(Absent) /\ ~IsMessage(Rejected)

\* The PSBT travels with the host's messages.
RawFor(stage) == IF stage \in {1, 3} THEN psbt ELSE Absent

\* A package that nothing happens to is received as it was sent.
LEMMA ReceivedUndisturbed ==
    ASSUME ValuesApart, NEW m, IsMessage(m), ValidMessage(m), m.stage \in 1..4,
           m.psbt_digest = psbt, psbt # Absent, wire = Package(m, RawFor(m.stage))
    PROVE  Received = m /\ Received # Rejected /\ wire.psbt = RawFor(m.stage)
<1>1. DecodeMessage(Encode(m)) = m
  BY MessageReadBack
<1>2. /\ wire.network = m.network /\ wire.stage = m.stage /\ wire.psbt = RawFor(m.stage)
      /\ wire.message = Encode(m)
  BY DEF Package
<1>3. m # Rejected
  BY DEF ValuesApart
<1>4. /\ (wire.psbt # Absent) <=> RequiresPsbt(m.stage)
      /\ wire.psbt \in {Absent, m.psbt_digest}
  BY <1>2 DEF RawFor, RequiresPsbt, HOST_COMMIT, HOST_REVEAL
<1> QED
  BY <1>1, <1>2, <1>3, <1>4 DEF Received

\* The fields of the slots of a later message.
LEMMA AnsweredFields ==
    ASSUME NEW stage, NEW slot
    PROVE  LET new == Answered(stage, slot)
           IN  /\ Own(new) = Own(slot) /\ Identifier(new) = Identifier(slot)
               /\ new.input_index = slot.input_index /\ new.signer_pubkey = slot.signer_pubkey
               /\ new.message_hash = slot.message_hash /\ new.sighash_type = slot.sighash_type
               /\ new.commitment = slot.commitment
               /\ new.opening = IF stage >= 2 THEN FirstPoint(slot) ELSE Absent
               /\ new.rho = IF stage = 3 THEN Rho(Identifier(slot)) ELSE Absent
               /\ new.signature = IF stage = 4 THEN HonestSignature(slot) ELSE Absent
  BY DEF Answered, Own, Identifier

LEMMA SlotsMatchIff ==
    ASSUME NEW m, CommitMade(m), NEW stage \in {1, 3}, wire.psbt = psbt
    PROVE  SlotsMatch(Expected(m, stage)) <=> PathsDerive(PsbtOf[psbt], Root)
<1> DEFINE new == Expected(m, stage)
           own == ByRoot(psbt)
<1>1. /\ Len(new.slots) = Len(m.slots) /\ DOMAIN new.slots = DOMAIN m.slots
      /\ \A n \in DOMAIN m.slots : new.slots[n] = Answered(stage, m.slots[n])
  <2>1. stage \in 1..4 /\ stage # 4
    OBVIOUS
  <2> QED
    BY <2>1, ExpectedIs
<1>2. /\ Len(m.slots) = Cardinality(ByFingerprint(psbt)) /\ ByFingerprint(psbt) # {}
      /\ \A n \in DOMAIN m.slots : Own(m.slots[n]) \in ByFingerprint(psbt)
      /\ 1 \in DOMAIN m.slots
  <2>1. Len(m.slots) \in Nat /\ DOMAIN m.slots = 1..Len(m.slots)
    BY SequenceShape DEF CommitMade, IsMessage
  <2>2. Len(m.slots) \in 1..MaxSlots
    BY DEF CommitMade, ValidMessage
  <2>3. 1 \in DOMAIN m.slots
    BY <2>1, <2>2
  <2> QED
    BY <2>3 DEF CommitMade
<1>3. psbt \in DOMAIN PsbtOf
  BY <1>2, EnumerationIs
<1>4. SlotsMatch(new) <=> /\ Cardinality(own) = Len(m.slots)
                          /\ \A n \in DOMAIN m.slots : Own(m.slots[n]) \in own
  <2>1. \A n \in DOMAIN m.slots : Own(new.slots[n]) = Own(m.slots[n])
    BY <1>1, AnsweredFields
  <2> HIDE DEF new
  <2> QED
    BY <1>1, <2>1 DEF SlotsMatch, Own
<1>5. /\ own # {} => own = ByFingerprint(psbt) /\ PathsDerive(PsbtOf[psbt], Root)
      /\ PathsDerive(PsbtOf[psbt], Root) => own = ByFingerprint(psbt)
  BY <1>3, RootEnumerates
<1> HIDE DEF own, new
<1> QED
  BY <1>2, <1>4, <1>5 DEF new

\* What the device says to an undisturbed message 1 or 3.
LEMMA DeviceChecks ==
    ASSUME ValuesApart, NEW m, CommitMade(m), NEW stage \in {1, 3}, wire.psbt = psbt
    PROVE  /\ DeviceCheck(Expected(m, stage)) \in {"none", "semantic"}
           /\ DeviceCheck(Expected(m, stage)) = "none" <=> PathsDerive(PsbtOf[psbt], Root)
<1> DEFINE new == Expected(m, stage)
<1>1. /\ IsMessage(new) /\ DOMAIN new.slots = DOMAIN m.slots
      /\ new.network = TestNetwork /\ new.stage = stage
      /\ \A n \in DOMAIN m.slots : new.slots[n] = Answered(stage, m.slots[n])
  <2>1. stage \in 1..4 /\ stage # 4
    OBVIOUS
  <2> QED
    BY <2>1, ExpectedIs
<1>2. SlotsMatch(new) <=> PathsDerive(PsbtOf[psbt], Root)
  BY SlotsMatchIff
<1>3. Parsed(wire.psbt)
  BY EnumerationIs DEF CommitMade, Parsed
<1>4. ASSUME stage = 3, NEW n \in DOMAIN m.slots
      PROVE  /\ HostCommit(new.slots[n].rho) = new.slots[n].commitment
             /\ new.slots[n].opening = SignerOpening(h, Secret(new.slots[n]),
                                                     new.slots[n].message_hash,
                                                     new.slots[n].commitment)
  <2> DEFINE slot == m.slots[n]
             its == Answered(3, slot)
  <2>1. new.slots[n] = its
    BY <1>1, <1>4
  <2>2. /\ its.input_index = slot.input_index /\ its.signer_pubkey = slot.signer_pubkey
        /\ its.message_hash = slot.message_hash /\ its.commitment = slot.commitment
        /\ its.opening = FirstPoint(slot) /\ its.rho = Rho(Identifier(slot))
    BY AnsweredFields
  <2>3. slot.commitment = HostCommit(Rho(Identifier(slot)))
    BY DEF CommitMade
  <2> HIDE DEF new, its, slot
  <2>4. Secret(its) = SlotSecret(slot)
    BY <2>2 DEF Secret, SlotSecret
  <2> QED
    BY <2>1, <2>2, <2>3, <2>4 DEF FirstPoint
<1>5. new # Rejected /\ new.network \in DeviceNetworks /\ RequiresPsbt(new.stage)
  BY <1>1, SettingAssumption DEF ValuesApart, RequiresPsbt, HOST_COMMIT, HOST_REVEAL
<1> HIDE DEF new
<1>6. DeviceCheck(new) = IF SlotsMatch(new) THEN "none" ELSE "semantic"
  BY <1>1, <1>3, <1>4, <1>5 DEF DeviceCheck, HOST_COMMIT
<1> QED
  BY <1>2, <1>6 DEF new

\* The messages follow one another.
LEMMA TransitionsExpected ==
    ASSUME NEW m, CommitMade(m), NEW stage \in 1..3, stage = 3 => SignedThroughout(m)
    PROVE  ValidTransition(Expected(m, stage), Expected(m, stage + 1))
<1> DEFINE old == Expected(m, stage)
           new == Expected(m, stage + 1)
<1>1. /\ <<old.network, old.stage, old.session_id, old.psbt_digest>>
            = <<TestNetwork, stage, SessionId, psbt>>
      /\ Len(old.slots) = Len(m.slots) /\ DOMAIN old.slots = DOMAIN m.slots
      /\ \A n \in DOMAIN m.slots : old.slots[n] = Answered(stage, m.slots[n])
  BY ExpectedIs
<1>2. /\ <<new.network, new.stage, new.session_id, new.psbt_digest>>
            = <<TestNetwork, stage + 1, SessionId, psbt>>
      /\ Len(new.slots) = Len(m.slots) /\ DOMAIN new.slots = DOMAIN m.slots
      /\ \A n \in DOMAIN m.slots : new.slots[n] = Answered(stage + 1, m.slots[n])
  <2>1. stage + 1 \in 1..4 /\ (stage + 1 = 4 => stage = 3)
    OBVIOUS
  <2> QED
    BY <2>1, ExpectedIs
<1> HIDE DEF old, new
<1>3. ASSUME NEW n \in DOMAIN m.slots
      PROVE  /\ Identifier(old.slots[n]) = Identifier(new.slots[n])
             /\ old.slots[n].message_hash = new.slots[n].message_hash
             /\ old.slots[n].sighash_type = new.slots[n].sighash_type
             /\ old.slots[n].commitment = new.slots[n].commitment
             /\ stage >= 2 => old.slots[n].opening = new.slots[n].opening
             /\ stage + 1 = 3 => HostCommit(new.slots[n].rho) = new.slots[n].commitment
  <2>1. m.slots[n].commitment = HostCommit(Rho(Identifier(m.slots[n])))
    BY DEF CommitMade
  <2> DEFINE slot == m.slots[n]
  <2>2. old.slots[n] = Answered(stage, slot) /\ new.slots[n] = Answered(stage + 1, slot)
    BY <1>1, <1>2
  <2>3. \A k : LET its == Answered(k, slot)
               IN  /\ Identifier(its) = Identifier(slot) /\ its.message_hash = slot.message_hash
                   /\ its.sighash_type = slot.sighash_type /\ its.commitment = slot.commitment
    BY AnsweredFields
  <2>4. stage >= 2 => /\ Answered(stage, slot).opening = FirstPoint(slot)
                      /\ Answered(stage + 1, slot).opening = FirstPoint(slot)
    BY AnsweredFields
  <2>5. stage + 1 = 3 => Answered(stage + 1, slot).rho = Rho(Identifier(slot))
    BY AnsweredFields
  <2> HIDE DEF slot
  <2> QED
    BY <2>1, <2>2, <2>3, <2>4, <2>5 DEF slot
<1> QED
  BY <1>1, <1>2, <1>3
     DEF ValidTransition, SIGNER_SIGNATURES, SIGNER_OPENINGS, HOST_REVEAL, old, new

\* What the device signs, and why it may give up.
LEMMA SigningIs ==
    ASSUME HashesTyped(h), NEW m, CommitMade(m), PathsDerive(PsbtOf[psbt], Root),
           NEW n \in DOMAIN m.slots
    PROVE  LET slot == m.slots[n]
               signature == HonestSignature(m.slots[n])
           IN  /\ signature = Invalid => FirstTry(slot) \in {Invalid, Skipped}
               /\ signature # Invalid =>
                     /\ signature \in LowSignature
                     /\ FirstTry(slot) # Skipped =>
                           VerifyAntiExfil(h, slot.signer_pubkey, slot.message_hash,
                                           Rho(Identifier(slot)), FirstPoint(slot), signature)
<1> DEFINE slot == m.slots[n]
           secret == SlotSecret(slot)
           hash == slot.message_hash
           rho == Rho(Identifier(slot))
           made == AntiExfilSign(h, secret, hash, rho)
           first == FirstCandidate(h, secret, hash, HostCommit(rho))
<1>1. /\ secret \in 1..(GroupN - 1) /\ PublicKey(secret) = slot.signer_pubkey
      /\ hash \in Nat /\ hash \in Int /\ rho \in Octets32 /\ rho \in Nat
      /\ slot.commitment = HostCommit(rho)
  BY SecretIs, SlotIs
<1>2. /\ HonestSignature(slot) = made.signature
      /\ FirstTry(slot) = SignWith(h, secret, hash, rho, first).signature
      /\ FirstPoint(slot) = SignerOpening(h, secret, hash, HostCommit(rho))
  BY <1>1 DEF HonestSignature, FirstTry, FirstPoint
<1> HIDE DEF slot, secret, hash, rho
<1>3. HashesToNumbers(h, secret, hash, rho)
  <2>1. hash % GroupN \in 0..(GroupN - 1)
    BY <1>1, GroupFacts
  <2>2. HostCommit(rho) \in Nat
    BY <1>1, CommitmentAssumption
  <2> QED
    BY <1>1, <2>1, <2>2 DEF HashesTyped, HashesToNumbers
<1>4. made.signature = Invalid => SignWith(h, secret, hash, rho, first).signature \in {Invalid, Skipped}
  BY <1>1, GivesUp
<1>5. made.signature # Invalid =>
          /\ VerifyAntiExfil(h, PublicKey(secret), hash, rho, made.opening, made.signature)
          /\ SignWith(h, secret, hash, rho, first).signature # Skipped
                => made.opening = SignerOpening(h, secret, hash, HostCommit(rho))
          /\ made.signature \in [r : 1..(GroupN - 1), s : 1..(GroupN \div 2)]
  BY <1>1, <1>3, HonestSignatureAccepted
<1> HIDE DEF made, first
<1> QED
  BY <1>1, <1>2, <1>4, <1>5 DEF LowSignature, slot, hash, rho, made, secret

-----------------------------------------------------------------------------
\* The messages of a session in which nothing went wrong, so far.
Undisturbed ==
    /\ DOMAIN sent = 1..4
    /\ sent[1] # Absent => CommitMade(sent[1])
    /\ \A k \in 1..4 : sent[k] # Absent => sent[1] # Absent /\ sent[k] = Expected(sent[1], k)
    /\ \A k \in 1..3 : sent[k + 1] # Absent => sent[k] # Absent
    /\ sent[2] # Absent => PathsDerive(PsbtOf[psbt], Root) /\ ~EqualOpenings(sent[1])
    /\ sent[4] # Absent => SignedThroughout(sent[1])

\* The package under way holds the last message.
LastUnderWay ==
    wire # Absent =>
        \E k \in 1..4 : /\ sent[k] # Absent /\ \A j \in 1..4 : j > k => sent[j] = Absent
                        /\ wire = Package(Expected(sent[1], k), RawFor(k))

UndisturbedInv ==
    /\ HashesTyped(h) /\ HonestNotRefused
    /\ altered = "no" => Undisturbed /\ LastUnderWay

\* What excuses a refusal.
Excused(by, check) ==
    LET commit == sent[1]
        edge(outcome) == \E n \in DOMAIN commit.slots : FirstTry(commit.slots[n]) = outcome
    IN  \/ /\ <<by, check>> = <<"host", "enumerate">>
           /\ ByFingerprint(psbt) = {} \/ ~PathsDerive(PsbtOf[psbt], Root)
        \/ <<by, check>> = <<"device", "semantic">> /\ ~PathsDerive(PsbtOf[psbt], Root)
        \/ <<by, check>> = <<"device", "encode">> /\ EqualOpenings(commit)
        \/ <<by, check>> = <<"device", "signing">> /\ (edge(Invalid) \/ edge(Skipped))
        \/ <<by, check>> = <<"host", "signature">> /\ edge(Skipped)

\* The same session, a step later.
LEMMA SameSession ==
    ASSUME UNCHANGED <<psbt, h>>, NEW m, sent'[1] = m
    PROVE  /\ CommitMade(sent[1])' <=> CommitMade(m)
           /\ \A k \in 1..4 : Expected(sent[1], k)' = Expected(m, k) /\ RawFor(k)' = RawFor(k)
           /\ EqualOpenings(sent[1])' <=> EqualOpenings(m)
           /\ SignedThroughout(sent[1])' <=> SignedThroughout(m)
<1>1. CommitMade(sent[1])' <=> CommitMade(m)
  BY DEF CommitMade
<1>2. \A slot : FirstPoint(slot)' = FirstPoint(slot) /\ HonestSignature(slot)' = HonestSignature(slot)
  BY DEF FirstPoint, HonestSignature, SlotSecret
<1>3. \A k \in 1..4 : Expected(sent[1], k)' = Expected(m, k)
  <2>1. \A k \in 1..4 : AllAnswered(sent[1], k)' = AllAnswered(m, k)
    BY <1>2 DEF AllAnswered, Answered
  <2> QED
    BY <2>1 DEF Expected
<1>4. EqualOpenings(sent[1])' <=> EqualOpenings(m)
  BY <1>2 DEF EqualOpenings
<1>5. SignedThroughout(sent[1])' <=> SignedThroughout(m)
  BY <1>2 DEF SignedThroughout
<1>6. \A k \in 1..4 : RawFor(k)' = RawFor(k)
  BY DEF RawFor
<1> QED
  BY <1>1, <1>3, <1>4, <1>5, <1>6

-----------------------------------------------------------------------------
\* A step after which nothing is under way and no new message is sent.
LEMMA ComesToRest ==
    ASSUME UndisturbedInv, wire' = Absent, UNCHANGED <<psbt, h, sent, altered>>
    PROVE  /\ HashesTyped(h)'
           /\ (altered = "no" => Undisturbed /\ LastUnderWay)'
<1>1. sent'[1] = sent[1]
  OBVIOUS
<1>2. /\ CommitMade(sent[1])' <=> CommitMade(sent[1])
      /\ \A k \in 1..4 : Expected(sent[1], k)' = Expected(sent[1], k)
      /\ EqualOpenings(sent[1])' <=> EqualOpenings(sent[1])
      /\ SignedThroughout(sent[1])' <=> SignedThroughout(sent[1])
  BY <1>1, SameSession
<1>3. altered = "no" => Undisturbed'
  BY <1>2 DEF UndisturbedInv, Undisturbed
<1>4. LastUnderWay'
  BY DEF LastUnderWay
<1> QED
  BY <1>3, <1>4 DEF UndisturbedInv

\* A refusal with an excuse.
LEMMA RefusedWithCause ==
    ASSUME UndisturbedInv, NEW by, NEW check, Refuse(by, check),
           altered = "no" => Excused(by, check)
    PROVE  UndisturbedInv'
<1>1. /\ wire' = Absent /\ UNCHANGED <<psbt, h, sent, altered, signed>>
      /\ refusal' = [by |-> by, check |-> check]
  BY DEF Refuse
<1>2. \A slot : FirstTry(slot)' = FirstTry(slot) /\ FirstPoint(slot)' = FirstPoint(slot)
  BY <1>1 DEF FirstTry, FirstPoint, SlotSecret
<1>3. HonestNotRefused'
  <2> SUFFICES ASSUME altered = "no"
               PROVE  HonestNotRefused'
    BY <1>1 DEF HonestNotRefused
  <2>1. Excused(by, check)
    OBVIOUS
  <2>2. EqualOpenings(sent[1])' <=> EqualOpenings(sent[1])
    BY <1>1, <1>2 DEF EqualOpenings
  <2> QED
    BY <1>1, <1>2, <2>1, <2>2 DEF HonestNotRefused, Excused, HOST_COMMIT
<1>4. HashesTyped(h)' /\ (altered = "no" => Undisturbed /\ LastUnderWay)'
  BY <1>1, ComesToRest
<1> QED
  BY <1>3, <1>4 DEF UndisturbedInv

\* A step that disturbs the session, or comes after one that did.
LEMMA DisturbedStep ==
    ASSUME UndisturbedInv, altered' # "no", UNCHANGED h
    PROVE  UndisturbedInv'
  BY DEF UndisturbedInv, HonestNotRefused

\* The next message is sent.
LEMMA MessageSent ==
    ASSUME UndisturbedInv, ValuesApart, altered = "no", refusal = Absent,
           NEW m, CommitMade(m), NEW k \in 1..4, k # 1 => sent[1] = m,
           \A j \in 1..4 : sent[j] # Absent <=> j < k,
           k = 2 => PathsDerive(PsbtOf[psbt], Root) /\ ~EqualOpenings(m),
           k = 4 => SignedThroughout(m),
           ValidMessage(Expected(m, k)),
           NEW by, Send(by, Expected(m, k), RawFor(k))
    PROVE  UndisturbedInv'
<1> DEFINE new == Expected(m, k)
<1>1. IsMessage(new) /\ new.stage = k
  BY ExpectedIs
<1>2. new # Absent
  BY <1>1 DEF ValuesApart
<1>3. Undisturbed
  BY DEF UndisturbedInv
<1>4. /\ sent' = [sent EXCEPT ![k] = new] /\ wire' = Package(new, RawFor(k))
      /\ UNCHANGED <<psbt, h, altered, refusal, signed>>
  BY <1>1 DEF Send
<1>5. DOMAIN sent = 1..4 /\ \A j \in 1..4 : sent[j] # Absent => sent[j] = Expected(sent[1], j)
  BY <1>3 DEF Undisturbed
<1>6. /\ DOMAIN sent' = 1..4 /\ sent'[k] = new
      /\ \A j \in 1..4 : j # k => sent'[j] = sent[j]
  BY <1>4, <1>5
<1> HIDE DEF new
<1>7. sent'[1] = m /\ m # Absent
  <2>1. k = 1 => new = m
    BY CommitIsExpected DEF new
  <2>2. m # Absent
    BY DEF CommitMade, ValuesApart
  <2> QED
    BY <1>6, <2>1, <2>2
<1>8. /\ CommitMade(sent[1])'
      /\ \A j \in 1..4 : Expected(sent[1], j)' = Expected(m, j) /\ RawFor(j)' = RawFor(j)
      /\ EqualOpenings(sent[1])' <=> EqualOpenings(m)
      /\ SignedThroughout(sent[1])' <=> SignedThroughout(m)
  BY <1>4, <1>7, SameSession
<1>9. Undisturbed'
  <2>1. \A j \in 1..4 : sent'[j] # Absent => sent'[j] = Expected(m, j)
    BY <1>5, <1>6 DEF new
  <2>2. \A j \in 1..4 : sent'[j] # Absent <=> j <= k
    BY <1>2, <1>6
  <2>3. \A j \in 1..3 : sent'[j + 1] # Absent => sent'[j] # Absent
    BY <2>2
  <2>4. sent'[2] # Absent => PathsDerive(PsbtOf[psbt], Root) /\ ~EqualOpenings(m)
    <3>1. CASE k = 1
      BY <1>6, <3>1
    <3>2. CASE k = 2
      BY <3>2
    <3>3. CASE k > 2
      BY <1>3, <1>6, <3>3 DEF Undisturbed
    <3> QED
      BY <3>1, <3>2, <3>3
  <2>5. sent'[4] # Absent => SignedThroughout(m)
    BY <1>6
  <2> QED
    BY <1>4, <1>6, <1>7, <1>8, <2>1, <2>3, <2>4, <2>5 DEF Undisturbed
<1>10. LastUnderWay'
  <2>1. \A j \in 1..4 : j > k => sent'[j] = Absent
    BY <1>6
  <2> QED
    BY <1>2, <1>4, <1>6, <1>8, <2>1 DEF LastUnderWay, new
<1>11. HonestNotRefused'
  BY <1>4 DEF HonestNotRefused
<1> QED
  BY <1>4, <1>9, <1>10, <1>11 DEF UndisturbedInv

-----------------------------------------------------------------------------
\* The message of a stage is valid once what it takes to send it holds.
LEMMA ExpectedIsValid ==
    ASSUME HashesTyped(h), NEW m, CommitMade(m), NEW k \in 1..4,
           k >= 2 => PathsDerive(PsbtOf[psbt], Root) /\ ~EqualOpenings(m),
           k = 4 => SignedThroughout(m)
    PROVE  ValidMessage(Expected(m, k))
<1>1. CASE k = 1
  BY <1>1, CommitIsExpected DEF CommitMade
<1>2. CASE k \in 2..4
  BY <1>2, ExpectedValid
<1> QED
  BY <1>1, <1>2

\* Two openings of a key that are equal cannot be sent.
LEMMA EqualOpeningsInvalid ==
    ASSUME HashesTyped(h), NEW m, CommitMade(m), PathsDerive(PsbtOf[psbt], Root),
           ValidMessage(Expected(m, 2))
    PROVE  ~EqualOpenings(m)
<1> DEFINE new == Expected(m, 2)
<1>1. SUFFICES ASSUME NEW n \in DOMAIN m.slots, NEW k \in DOMAIN m.slots, k # n,
                      m.slots[n].signer_pubkey = m.slots[k].signer_pubkey,
                      FirstPoint(m.slots[n]) = FirstPoint(m.slots[k])
               PROVE  FALSE
  BY DEF EqualOpenings
<1>2. /\ DOMAIN new.slots = DOMAIN m.slots
      /\ \A i \in DOMAIN m.slots : new.slots[i] = Answered(2, m.slots[i])
  BY ExpectedIs
<1>3. \A i \in DOMAIN m.slots :
          /\ new.slots[i].signer_pubkey = m.slots[i].signer_pubkey
          /\ new.slots[i].opening = FirstPoint(m.slots[i]) /\ new.slots[i].opening # Absent
  <2>1. \A i \in DOMAIN m.slots : FirstPoint(m.slots[i]) \in Nat
    BY FirstPointIs
  <2>2. Absent \notin Nat
    BY SettingAssumption
  <2> QED
    BY <1>2, <2>1, <2>2, AnsweredFields
<1>4. Len(m.slots) \in Nat /\ DOMAIN m.slots = 1..Len(m.slots)
  BY SequenceShape DEF CommitMade, IsMessage
<1>5. \A i \in DOMAIN new.slots : \A j \in 1..(i - 1) :
          (new.slots[i].opening # Absent /\ new.slots[j].signer_pubkey = new.slots[i].signer_pubkey)
              => new.slots[j].opening # new.slots[i].opening
  BY DEF ValidMessage
<1> HIDE DEF new
<1>6. CASE k < n
  <2>1. k \in 1..(n - 1)
    BY <1>4, <1>6
  <2> QED
    BY <1>1, <1>2, <1>3, <1>5, <2>1
<1>7. CASE n < k
  <2>1. n \in 1..(k - 1)
    BY <1>4, <1>7
  <2> QED
    BY <1>1, <1>2, <1>3, <1>5, <2>1
<1> QED
  BY <1>1, <1>4, <1>6, <1>7

\* The last message arrives as it was sent.
LEMMA Arrives ==
    ASSUME UndisturbedInv, ValuesApart, altered = "no", wire # Absent, NEW k \in 1..4,
           sent[k] # Absent, k < 4 => sent[k + 1] = Absent
    PROVE  LET m == sent[1]
           IN  /\ CommitMade(m) /\ psbt \in DOMAIN PsbtOf
               /\ Received = Expected(m, k) /\ Received # Rejected /\ Received.stage = k
               /\ wire.psbt = RawFor(k)
               /\ \A j \in 1..4 : sent[j] # Absent <=> j <= k
               /\ \A j \in 1..4 : j <= k => sent[j] = Expected(m, j)
               /\ k >= 2 => PathsDerive(PsbtOf[psbt], Root) /\ ~EqualOpenings(m)
               /\ k = 4 => SignedThroughout(m)
<1> DEFINE m == sent[1]
<1>1. Undisturbed /\ LastUnderWay /\ HashesTyped(h)
  BY DEF UndisturbedInv
<1>2. /\ sent[2] # Absent => sent[1] # Absent
      /\ sent[3] # Absent => sent[2] # Absent
      /\ sent[4] # Absent => sent[3] # Absent
  <2>1. \A j \in 1..3 : sent[j + 1] # Absent => sent[j] # Absent
    BY <1>1 DEF Undisturbed
  <2> QED
    BY <2>1
<1>3. \A j \in 1..4 : sent[j] # Absent <=> j <= k
  BY <1>2
<1>4. wire = Package(Expected(m, k), RawFor(k))
  <2>1. \E last \in 1..4 : /\ sent[last] # Absent /\ \A j \in 1..4 : j > last => sent[j] = Absent
                           /\ wire = Package(Expected(m, last), RawFor(last))
    BY <1>1 DEF LastUnderWay
  <2>2. PICK last \in 1..4 : /\ sent[last] # Absent /\ \A j \in 1..4 : j > last => sent[j] = Absent
                             /\ wire = Package(Expected(m, last), RawFor(last))
    BY <2>1
  <2>3. last = k
    BY <1>3, <2>2
  <2> QED
    BY <2>2, <2>3
<1>5. CommitMade(m)
  BY <1>1, <1>3 DEF Undisturbed
<1>6. /\ k >= 2 => PathsDerive(PsbtOf[psbt], Root) /\ ~EqualOpenings(m)
      /\ k = 4 => SignedThroughout(m)
  BY <1>1, <1>3 DEF Undisturbed
<1>7. ValidMessage(Expected(m, k))
  BY <1>1, <1>5, <1>6, ExpectedIsValid
<1>8. /\ IsMessage(Expected(m, k)) /\ Expected(m, k).stage = k
      /\ Expected(m, k).psbt_digest = psbt
  BY <1>5, <1>6, ExpectedIs
<1>9. psbt \in DOMAIN PsbtOf /\ psbt # Absent
  <2>1. ByFingerprint(psbt) # {}
    BY <1>5 DEF CommitMade
  <2> QED
    BY <2>1, EnumerationIs, SettingAssumption
<1>10. \A j \in 1..4 : j <= k => sent[j] = Expected(m, j)
  BY <1>1, <1>3 DEF Undisturbed
<1> DEFINE new == Expected(m, k)
<1>11. new.stage \in 1..4 /\ wire = Package(new, RawFor(new.stage))
  BY <1>4, <1>8
<1> HIDE DEF new, m
<1>12. Received = new /\ Received # Rejected /\ wire.psbt = RawFor(new.stage)
  BY <1>7, <1>8, <1>9, <1>11, ReceivedUndisturbed DEF new
<1> QED
  BY <1>3, <1>5, <1>6, <1>8, <1>9, <1>10, <1>12 DEF new, m

\* The device on message 1, and on message 3.
LEMMA DeviceAnswersExcused ==
    ASSUME UndisturbedInv, ValuesApart, altered = "no", DeviceAnswers
    PROVE  UndisturbedInv'
<1> DEFINE m == sent[1]
           Refused == \E check : Refuse("device", check) /\ Excused("device", check)
<1>1. PICK k \in {1, 3} : /\ wire # Absent /\ sent[k] # Absent /\ sent[k + 1] = Absent
                          /\ refusal = Absent
  BY DEF DeviceAnswers, DeviceReceives, Awaits, Running, HOST_COMMIT, HOST_REVEAL
<1>2. /\ CommitMade(m) /\ Received = Expected(m, k) /\ Received.stage = k
      /\ wire.psbt = psbt
      /\ \A j \in 1..4 : sent[j] # Absent <=> j <= k
      /\ k >= 2 => PathsDerive(PsbtOf[psbt], Root) /\ ~EqualOpenings(m)
  <2>1. k \in 1..4 /\ k < 4 /\ RawFor(k) = psbt
    BY DEF RawFor
  <2> QED
    BY <1>1, <2>1, Arrives
<1>3. HashesTyped(h)
  BY DEF UndisturbedInv
<1>4. /\ DeviceCheck(Received) \in {"none", "semantic"}
      /\ DeviceCheck(Received) = "none" <=> PathsDerive(PsbtOf[psbt], Root)
  BY <1>2, DeviceChecks
<1> HIDE DEF m
<1>5. CASE DeviceCheck(Received) = "semantic"
  <2>1. Refuse("device", "semantic")
    BY <1>5 DEF DeviceAnswers
  <2>2. Excused("device", "semantic")
    BY <1>4, <1>5 DEF Excused
  <2> QED
    BY <2>1, <2>2, RefusedWithCause
<1>6. CASE DeviceCheck(Received) = "none" /\ k = 1
  <2>1. Send("device", OpeningsFor(Received), Absent)
    BY <1>2, <1>6 DEF DeviceAnswers, HOST_COMMIT
  <2>2. OpeningsFor(Received) = Expected(m, 2)
    BY <1>2, <1>6, OpeningsExpected
  <2>3. Send("device", Expected(m, 2), RawFor(2))
    BY <2>1, <2>2 DEF RawFor
  <2>4. PathsDerive(PsbtOf[psbt], Root)
    BY <1>4, <1>6
  <2>5. CASE ~EqualOpenings(m)
    <3>1. ValidMessage(Expected(m, 2))
      BY <1>2, <1>3, <2>4, <2>5, ExpectedIsValid
    <3>2. sent[1] = m /\ \A j \in 1..4 : sent[j] # Absent <=> j < 2
      BY <1>2, <1>6 DEF m
    <3> QED
      BY <1>1, <1>2, <2>3, <2>4, <2>5, <3>1, <3>2, MessageSent
  <2>6. CASE EqualOpenings(m) /\ ValidMessage(Expected(m, 2))
    BY <1>2, <1>3, <2>4, <2>6, EqualOpeningsInvalid
  <2>7. CASE EqualOpenings(m) /\ ~ValidMessage(Expected(m, 2))
    <3>1. Refuse("device", "encode")
      BY <2>3, <2>7 DEF Send
    <3>2. Excused("device", "encode")
      BY <2>7 DEF Excused, m
    <3> QED
      BY <3>1, <3>2, RefusedWithCause
  <2> QED
    BY <2>5, <2>6, <2>7
<1>7. CASE DeviceCheck(Received) = "none" /\ k = 3
  <2>1. \/ AllSigned(SignaturesFor(Received)) /\ Send("device", SignaturesFor(Received), Absent)
        \/ ~AllSigned(SignaturesFor(Received)) /\ Refuse("device", "signing")
    BY <1>2, <1>7 DEF DeviceAnswers, HOST_COMMIT
  <2>2. SignaturesFor(Received) = Expected(m, 4)
    BY <1>2, <1>7, SignaturesExpected
  <2>3. PathsDerive(PsbtOf[psbt], Root) /\ ~EqualOpenings(m)
    BY <1>2, <1>7
  <2>4. AllSigned(Expected(m, 4)) <=> \A n \in DOMAIN m.slots : HonestSignature(m.slots[n]) # Invalid
    BY DEF AllSigned, Expected, AllAnswered, Answered
  <2>5. CASE AllSigned(Expected(m, 4))
    <3>1. SignedThroughout(m)
      BY <1>2, <1>3, <2>3, <2>4, <2>5, SigningIs DEF SignedThroughout
    <3>2. ValidMessage(Expected(m, 4))
      BY <1>2, <1>3, <2>3, <3>1, ExpectedIsValid
    <3>3. Send("device", Expected(m, 4), RawFor(4))
      BY <2>1, <2>2, <2>5 DEF RawFor
    <3>4. sent[1] = m /\ \A j \in 1..4 : sent[j] # Absent <=> j < 4
      BY <1>2, <1>7 DEF m
    <3> QED
      BY <1>1, <1>2, <3>1, <3>2, <3>3, <3>4, MessageSent
  <2>6. CASE ~AllSigned(Expected(m, 4))
    <3>1. Refuse("device", "signing")
      BY <2>1, <2>2, <2>6
    <3>2. PICK n \in DOMAIN m.slots : HonestSignature(m.slots[n]) = Invalid
      BY <2>4, <2>6
    <3>3. FirstTry(m.slots[n]) \in {Invalid, Skipped}
      BY <1>2, <1>3, <2>3, <3>2, SigningIs
    <3>4. Excused("device", "signing")
      BY <3>3 DEF Excused, m
    <3> QED
      BY <3>1, <3>4, RefusedWithCause
  <2> QED
    BY <2>5, <2>6
<1> QED
  BY <1>4, <1>5, <1>6, <1>7

-----------------------------------------------------------------------------
LEMMA HostInitExcused ==
    ASSUME UndisturbedInv, ValuesApart, altered = "no", HostInit
    PROVE  UndisturbedInv'
<1>1. refusal = Absent /\ sent[1] = Absent
  BY DEF HostInit, Running, HOST_COMMIT
<1>2. HashesTyped(h) /\ Undisturbed
  BY DEF UndisturbedInv
<1>3. PICK slots \in {ByRoot(psbt), ByFingerprint(psbt)} :
          IF slots = {} THEN Refuse("host", "enumerate")
          ELSE Send("host", HostCommitMessage(slots, TestNetwork, SessionId, psbt, Rhos(slots)), psbt)
  BY DEF HostInit
<1>4. /\ ByRoot(psbt) # {} => ByRoot(psbt) = ByFingerprint(psbt)
      /\ psbt \in DOMAIN PsbtOf /\ PathsDerive(PsbtOf[psbt], Root) => ByRoot(psbt) = ByFingerprint(psbt)
  BY RootEnumerates
<1>5. CASE slots = {}
  <2>1. ByFingerprint(psbt) = {} \/ ~PathsDerive(PsbtOf[psbt], Root)
    <3>1. ByFingerprint(psbt) # {} => psbt \in DOMAIN PsbtOf
      BY EnumerationIs
    <3> QED
      BY <1>3, <1>4, <1>5, <3>1
  <2>2. Excused("host", "enumerate")
    BY <2>1 DEF Excused
  <2> QED
    BY <1>3, <1>5, <2>2, RefusedWithCause
<1>6. CASE slots # {}
  <2> DEFINE m == HostCommitMessage(slots, TestNetwork, SessionId, psbt, Rhos(slots))
  <2>1. slots = ByFingerprint(psbt)
    BY <1>3, <1>4, <1>6
  <2>2. CommitMade(m)
    BY <1>6, <2>1, CommitIsMade
  <2>3. Send("host", m, psbt)
    BY <1>3, <1>6
  <2> HIDE DEF m
  <2>4. m = Expected(m, 1) /\ RawFor(1) = psbt
    BY <2>2, CommitIsExpected DEF RawFor
  <2>5. ValidMessage(Expected(m, 1)) /\ Send("host", Expected(m, 1), RawFor(1))
    BY <2>2, <2>3, <2>4 DEF CommitMade
  <2>6. \A j \in 1..4 : sent[j] # Absent <=> j < 1
    BY <1>1, <1>2 DEF Undisturbed
  <2> QED
    BY <1>1, <2>2, <2>5, <2>6, MessageSent
<1> QED
  BY <1>5, <1>6

LEMMA HostAcceptOpeningsExcused ==
    ASSUME UndisturbedInv, ValuesApart, altered = "no", HostAcceptOpenings
    PROVE  UndisturbedInv'
<1> DEFINE m == sent[1]
<1>1. refusal = Absent /\ wire # Absent /\ sent[2] # Absent /\ sent[3] = Absent
  BY DEF HostAcceptOpenings, Awaits, Running, SIGNER_OPENINGS
<1>2. /\ CommitMade(m) /\ Received = Expected(m, 2) /\ Received # Rejected
      /\ Received.stage = 2
      /\ \A j \in 1..4 : sent[j] # Absent <=> j <= 2
      /\ PathsDerive(PsbtOf[psbt], Root) /\ ~EqualOpenings(m)
  BY <1>1, Arrives
<1>3. HashesTyped(h)
  BY DEF UndisturbedInv
<1>4. RevealFor(Received) = Expected(m, 3)
  BY <1>2, RevealExpected
<1>5. ValidTransition(sent[1], Received) /\ ValidTransition(Received, RevealFor(Received))
  <2>1. ValidTransition(Expected(m, 1), Expected(m, 2))
    BY <1>2, TransitionsExpected
  <2>2. ValidTransition(Expected(m, 2), Expected(m, 3))
    BY <1>2, TransitionsExpected
  <2>3. sent[1] = Expected(m, 1)
    BY <1>2, CommitIsExpected
  <2> QED
    BY <1>2, <1>4, <2>1, <2>2, <2>3
<1>6. Send("host", RevealFor(Received), psbt)
  BY <1>2, <1>5 DEF HostAcceptOpenings, SIGNER_OPENINGS, HOST_COMMIT
<1>7. Send("host", Expected(m, 3), RawFor(3))
  BY <1>4, <1>6 DEF RawFor
<1>8. ValidMessage(Expected(m, 3))
  BY <1>2, <1>3, ExpectedIsValid
<1>9. sent[1] = m /\ \A j \in 1..4 : sent[j] # Absent <=> j < 3
  BY <1>2
<1> HIDE DEF m
<1> QED
  BY <1>1, <1>2, <1>7, <1>8, <1>9, MessageSent

-----------------------------------------------------------------------------
\* The slots of message 1 are slots of the PSBT, to validate_protocol_slots too.
LEMMA CommitSlotsValid ==
    ASSUME NEW m, CommitMade(m)
    PROVE  ProtocolSlotsValid(PsbtOf[psbt], m.slots)
<1> DEFINE parsed == PsbtOf[psbt]
           records == m.slots
           requested(i) == {records[n].signer_pubkey :
                               n \in {n \in DOMAIN records : records[n].input_index = i}}
<1>1. Enumerable(parsed)
  BY EnumerationIs DEF CommitMade
<1>2. \A n \in DOMAIN records :
          /\ records[n].input_index \in DOMAIN parsed
          /\ records[n].signer_pubkey \in Controlled(parsed[records[n].input_index], Root.fingerprint)
          /\ records[n].message_hash = parsed[records[n].input_index].sighash
          /\ records[n].sighash_type = SIGHASH_ALL
  BY SlotIs DEF Declared, Own
<1>3. Ordered(records)
  BY DEF CommitMade, ValidMessage
<1> HIDE DEF parsed, records
<1>4. ASSUME NEW i \in DOMAIN parsed
      PROVE  /\ Supported(parsed[i])
             /\ LET keys == requested(i) \cap SigningKeys(parsed[i])
                IN  keys \subseteq DOMAIN parsed[i].bip32_derivations /\ Unsigned(parsed[i], keys)
  <2>1. Supported(parsed[i]) /\ Unsigned(parsed[i], Controlled(parsed[i], Root.fingerprint))
    BY <1>1 DEF Enumerable
  <2>2. requested(i) \subseteq Controlled(parsed[i], Root.fingerprint)
    BY <1>2
  <2>3. Controlled(parsed[i], Root.fingerprint) \subseteq DOMAIN parsed[i].bip32_derivations
    BY DEF Controlled
  <2> HIDE DEF requested
  <2> QED
    BY <2>1, <2>2, <2>3 DEF Unsigned
<1>5. ASSUME NEW n \in DOMAIN records
      PROVE  records[n].signer_pubkey \in SigningKeys(parsed[records[n].input_index])
  <2>1. Supported(parsed[records[n].input_index])
    BY <1>1, <1>2 DEF Enumerable
  <2> QED
    BY <1>2, <2>1 DEF Supported, Controlled
<1> QED
  BY <1>2, <1>3, <1>4, <1>5 DEF ProtocolSlotsValid, parsed, records

\* Signatures that verify are imported.
LEMMA Completes ==
    ASSUME NEW m, CommitMade(m), sent[1] = m, SignedThroughout(m),
           SignaturesVerify(Expected(m, 4))
    PROVE  Reconstructs(h, PsbtOf[psbt], psbt, m, Expected(m, 4), SessionRhos)
<1> DEFINE new == Expected(m, 4)
<1>1. /\ Len(new.slots) = Len(m.slots) /\ DOMAIN new.slots = DOMAIN m.slots
      /\ <<new.network, new.stage, new.session_id, new.psbt_digest>>
            = <<TestNetwork, 4, SessionId, psbt>>
      /\ \A n \in DOMAIN m.slots : new.slots[n] = Answered(4, m.slots[n])
  BY ExpectedIs
<1>2. <<m.network, m.stage, m.session_id, m.psbt_digest>> = <<TestNetwork, 1, SessionId, psbt>>
  BY DEF CommitMade
<1>3. ProtocolSlotsValid(PsbtOf[psbt], m.slots)
  BY CommitSlotsValid
<1>4. DOMAIN SessionRhos = {Identifier(m.slots[n]) : n \in DOMAIN m.slots}
  BY DEF SessionRhos, HOST_COMMIT
<1>5. \A n \in DOMAIN m.slots :
          /\ HostCommit(SessionRhos[Identifier(m.slots[n])]) = m.slots[n].commitment
  <2>1. \A n \in DOMAIN m.slots :
            SessionRhos[Identifier(m.slots[n])] = Rho(Identifier(m.slots[n]))
    BY RevealExpected
  <2> QED
    BY <2>1 DEF CommitMade
<1>6. \A n \in DOMAIN m.slots :
          VerifyAntiExfil(h, new.slots[n].signer_pubkey, new.slots[n].message_hash,
                          SessionRhos[Identifier(new.slots[n])], new.slots[n].opening,
                          new.slots[n].signature)
  BY <1>1 DEF SignaturesVerify
<1>7. \A n \in DOMAIN m.slots :
          /\ Identifier(new.slots[n]) = Identifier(m.slots[n])
          /\ new.slots[n].message_hash = m.slots[n].message_hash
          /\ new.slots[n].sighash_type = m.slots[n].sighash_type
          /\ new.slots[n].commitment = m.slots[n].commitment
  BY <1>1, AnsweredFields
<1> HIDE DEF new
<1> QED
  BY <1>1, <1>2, <1>3, <1>4, <1>5, <1>6, <1>7 DEF Reconstructs, SIGNER_SIGNATURES, new

LEMMA HostCompleteExcused ==
    ASSUME UndisturbedInv, ValuesApart, altered = "no", HostComplete
    PROVE  UndisturbedInv'
<1> DEFINE m == sent[1]
           new == Expected(m, 4)
<1>1. refusal = Absent /\ wire # Absent /\ sent[4] # Absent
  BY DEF HostComplete, Running, SIGNER_SIGNATURES
<1>2. /\ CommitMade(m) /\ Received = new /\ Received # Rejected
      /\ Received.stage = 4 /\ sent[3] = Expected(m, 3)
      /\ PathsDerive(PsbtOf[psbt], Root) /\ SignedThroughout(m)
  BY <1>1, Arrives
<1>3. HashesTyped(h)
  BY DEF UndisturbedInv
<1>4. ValidTransition(sent[3], new)
  <2>1. ValidTransition(Expected(m, 3), Expected(m, 4))
    BY <1>2, TransitionsExpected
  <2> QED
    BY <1>2, <2>1
<1>5. CASE ~SignaturesVerify(new)
  <2>1. Refuse("host", "signature")
    BY <1>2, <1>4, <1>5 DEF HostComplete, SIGNER_SIGNATURES, HOST_REVEAL
  <2>2. /\ DOMAIN new.slots = DOMAIN m.slots
        /\ \A n \in DOMAIN m.slots : new.slots[n] = Answered(4, m.slots[n])
    BY <1>2, ExpectedIs
  <2>3. PICK n \in DOMAIN m.slots :
            ~VerifyAntiExfil(h, new.slots[n].signer_pubkey, new.slots[n].message_hash,
                             SessionRhos[Identifier(new.slots[n])], new.slots[n].opening,
                             new.slots[n].signature)
    BY <1>5, <2>2 DEF SignaturesVerify
  <2> DEFINE slot == m.slots[n]
  <2>4. /\ new.slots[n].signer_pubkey = slot.signer_pubkey
        /\ new.slots[n].message_hash = slot.message_hash
        /\ Identifier(new.slots[n]) = Identifier(slot)
        /\ new.slots[n].opening = FirstPoint(slot)
        /\ new.slots[n].signature = HonestSignature(slot)
    BY <2>2, AnsweredFields
  <2>5. SessionRhos[Identifier(slot)] = Rho(Identifier(slot))
    BY <1>2, RevealExpected
  <2>6. ~VerifyAntiExfil(h, slot.signer_pubkey, slot.message_hash, Rho(Identifier(slot)),
                         FirstPoint(slot), HonestSignature(slot))
    BY <2>3, <2>4, <2>5
  <2>7. HonestSignature(slot) # Invalid
    <3>1. HonestSignature(slot) \in LowSignature
      BY <1>2 DEF SignedThroughout
    <3>2. LowSignature \subseteq [r : 1..(GroupN - 1), s : 1..(GroupN - 1)]
      <4>1. GroupN \div 2 <= GroupN - 1 /\ GroupN \div 2 \in Int
        BY GroupFacts, Halves
      <4>2. 1..(GroupN \div 2) \subseteq 1..(GroupN - 1)
        BY <4>1, GroupFacts
      <4> QED
        BY <4>2 DEF LowSignature
    <3> QED
      BY <3>1, <3>2, SettingAssumption
  <2>8. FirstTry(slot) = Skipped
    BY <1>2, <1>3, <2>6, <2>7, SigningIs
  <2>9. Excused("host", "signature")
    BY <2>8 DEF Excused
  <2> QED
    BY <2>1, <2>9, RefusedWithCause
<1>6. CASE SignaturesVerify(new)
  <2>1. Reconstructs(h, PsbtOf[psbt], psbt, sent[1], new, SessionRhos)
    BY <1>2, <1>6, Completes
  <2>2. /\ wire' = Absent /\ UNCHANGED <<psbt, h, sent, altered, refusal>>
    BY <1>2, <1>4, <1>6, <2>1 DEF HostComplete, SIGNER_SIGNATURES, HOST_REVEAL, HOST_COMMIT
  <2>3. HonestNotRefused'
    BY <1>1, <2>2 DEF HonestNotRefused
  <2>4. HashesTyped(h)' /\ (altered = "no" => Undisturbed /\ LastUnderWay)'
    BY <2>2, ComesToRest
  <2> QED
    BY <2>3, <2>4 DEF UndisturbedInv
<1> QED
  BY <1>5, <1>6

-----------------------------------------------------------------------------
\* The hash functions to choose from yield numbers, and among the nonce blocks a scalar.
HashesAssumed == \A scenario \in Scenario : HashesTyped(scenario.h)

\* A device with a nonce of its own, and what goes wrong on the way, disturb the session.
LEMMA Disturbs ==
    ASSUME DeviceOwnNonce \/ (wire # Absent /\ Damage) \/ PresentCase
    PROVE  altered' # "no" /\ UNCHANGED h
<1>1. CASE DeviceOwnNonce
  BY <1>1 DEF DeviceOwnNonce, SendsOwn
<1>2. CASE wire # Absent /\ Damage
  <2>1. \E package : Alter("damage", package)
    BY <1>2 DEF Damage
  <2> QED
    BY <2>1 DEF Alter
<1>3. CASE PresentCase
  <2>1. PICK case \in DOMAIN ExpectedCheck : Alter(case, CorpusPackage(case))
    BY <1>3 DEF PresentCase
  <2> QED
    BY <2>1, NoCaseIsNo DEF Alter
<1> QED
  BY <1>1, <1>2, <1>3

\* A session once disturbed stays so.
LEMMA StaysDisturbed ==
    ASSUME altered # "no", HostInit \/ HostAcceptOpenings \/ HostComplete \/ DeviceAnswers
    PROVE  altered' # "no" /\ UNCHANGED h
<1>1. CASE HostInit
  BY <1>1 DEF HostInit, Send, Refuse
<1>2. CASE HostAcceptOpenings
  BY <1>2 DEF HostAcceptOpenings, Send, Refuse
<1>3. CASE HostComplete
  BY <1>3 DEF HostComplete, Refuse
<1>4. CASE DeviceAnswers
  BY <1>4 DEF DeviceAnswers, Send, Refuse
<1> QED
  BY <1>1, <1>2, <1>3, <1>4

LEMMA UndisturbedSame ==
    ASSUME UndisturbedInv, UNCHANGED vars
    PROVE  UndisturbedInv'
<1>1. UNCHANGED <<psbt, h, sent, wire, altered, refusal, signed>> /\ sent'[1] = sent[1]
  BY DEF vars
<1>2. /\ CommitMade(sent[1])' <=> CommitMade(sent[1])
      /\ \A k \in 1..4 : Expected(sent[1], k)' = Expected(sent[1], k) /\ RawFor(k)' = RawFor(k)
      /\ EqualOpenings(sent[1])' <=> EqualOpenings(sent[1])
      /\ SignedThroughout(sent[1])' <=> SignedThroughout(sent[1])
  BY <1>1, SameSession
<1>3. Undisturbed => Undisturbed'
  BY <1>1, <1>2 DEF Undisturbed
<1>4. LastUnderWay => LastUnderWay'
  BY <1>1, <1>2 DEF LastUnderWay
<1>5. HonestNotRefused'
  <2>1. \A slot : FirstTry(slot)' = FirstTry(slot)
    BY <1>1 DEF FirstTry, SlotSecret
  <2> QED
    BY <1>1, <1>2, <2>1 DEF UndisturbedInv, HonestNotRefused, HOST_COMMIT
<1> QED
  BY <1>1, <1>3, <1>4, <1>5 DEF UndisturbedInv

LEMMA UndisturbedSteps ==
    ASSUME ValuesApart, UndisturbedInv, [Next]_vars
    PROVE  UndisturbedInv'
<1>1. CASE UNCHANGED vars
  BY <1>1, UndisturbedSame
<1>2. CASE DeviceOwnNonce \/ (wire # Absent /\ Damage) \/ PresentCase
  BY <1>2, Disturbs, DisturbedStep
<1>3. CASE altered # "no" /\ (HostInit \/ HostAcceptOpenings \/ HostComplete \/ DeviceAnswers)
  BY <1>3, StaysDisturbed, DisturbedStep
<1>4. CASE altered = "no" /\ HostInit
  BY <1>4, HostInitExcused
<1>5. CASE altered = "no" /\ HostAcceptOpenings
  BY <1>5, HostAcceptOpeningsExcused
<1>6. CASE altered = "no" /\ HostComplete
  BY <1>6, HostCompleteExcused
<1>7. CASE altered = "no" /\ DeviceAnswers
  BY <1>7, DeviceAnswersExcused
<1> QED
  BY <1>1, <1>2, <1>3, <1>4, <1>5, <1>6, <1>7 DEF Next

LEMMA InitUndisturbed ==
    ASSUME HashesAssumed, Init
    PROVE  UndisturbedInv
<1>1. /\ wire = Absent /\ refusal = Absent /\ DOMAIN sent = 1..4
      /\ \A k \in 1..4 : sent[k] = Absent
  BY DEF Init, HOST_COMMIT, SIGNER_SIGNATURES
<1>2. HashesTyped(h)
  BY DEF Init, HashesAssumed
<1> QED
  BY <1>1, <1>2 DEF UndisturbedInv, Undisturbed, LastUnderWay, HonestNotRefused

\* Whatever PSBT is to be signed, and whatever the hash functions, a session in which nothing
\* goes wrong is refused only where it must be: nothing to sign, a path that does not derive
\* its key, two equal openings of a key, or a first nonce candidate that signing passes over
\* or cannot use (host_init_v1 to host_complete_v1; crypto.py:173, :190, :207).
THEOREM HonestRefusalsOnly ==
    ASSUME HashesAssumed, ValuesApart
    PROVE  Spec => []HonestNotRefused
<1>1. Init => UndisturbedInv
  BY InitUndisturbed
<1>2. UndisturbedInv /\ [Next]_vars => UndisturbedInv'
  BY UndisturbedSteps
<1>3. UndisturbedInv => HonestNotRefused
  BY DEF UndisturbedInv
<1> QED
  BY <1>1, <1>2, <1>3, PTL DEF Spec

-----------------------------------------------------------------------------
(***************************************************************************)
(* One reading                                                             *)
(***************************************************************************)

\* What the codec has checked of the slots of a valid message.
LEMMA ValidSlots ==
    ASSUME NEW m, IsMessage(m), ValidMessage(m)
    PROVE  /\ Len(m.slots) \in Nat \ {0} /\ Len(m.slots) <= MaxSlots
           /\ DOMAIN m.slots = 1..Len(m.slots) /\ m.stage \in 1..4
           /\ \A n \in 1..Len(m.slots) :
                 /\ ValidSlot(m.stage, m.slots[n])
                 /\ m.slots[n].input_index \in Nat /\ m.slots[n].signer_pubkey \in Nat
                 /\ m.slots[n].commitment \in Nat /\ m.slots[n].sighash_type = SIGHASH_ALL
                 /\ m.stage = 3 => m.slots[n].rho \in Octets32
<1>1. Len(m.slots) \in Nat \ {0} /\ Len(m.slots) <= MaxSlots
  BY SlotLimitAssumption DEF ValidMessage
<1>2. DOMAIN m.slots = 1..Len(m.slots)
  BY SequenceShape DEF IsMessage
<1>3. m.stage \in 1..4
  BY DEF ValidMessage, HOST_COMMIT, SIGNER_SIGNATURES
<1>4. ASSUME NEW n \in 1..Len(m.slots)
      PROVE  ValidSlot(m.stage, m.slots[n])
  BY <1>2, <1>4 DEF ValidMessage
<1>5. \A slot : ValidSlot(m.stage, slot) =>
          /\ slot.input_index \in Nat /\ slot.signer_pubkey \in Nat /\ slot.commitment \in Nat
          /\ slot.sighash_type = SIGHASH_ALL /\ (m.stage = 3 => slot.rho \in Octets32)
  BY DEF ValidSlot, IsPoint, HOST_REVEAL
<1> QED
  BY <1>1, <1>2, <1>3, <1>4, <1>5

\* The slots of a valid message ascend: any earlier one comes before any later one.
LEMMA PlacesOrdered ==
    ASSUME NEW m, IsMessage(m), ValidMessage(m)
    PROVE  \A n, k \in 1..Len(m.slots) :
              n < k => \/ m.slots[n].input_index < m.slots[k].input_index
                       \/ /\ m.slots[n].input_index = m.slots[k].input_index
                          /\ m.slots[n].signer_pubkey < m.slots[k].signer_pubkey
<1> DEFINE last == Len(m.slots)
           Index(n) == m.slots[n].input_index
           Key(n) == m.slots[n].signer_pubkey
           Less(n, k) == Index(n) < Index(k) \/ (Index(n) = Index(k) /\ Key(n) < Key(k))
<1>1. last \in Nat /\ \A n \in 1..last : Index(n) \in Nat /\ Key(n) \in Nat
  BY ValidSlots
<1>2. \A n \in 1..(last - 1) : Less(n, n + 1)
  <2>1. \A n \in 1..(last - 1) : Precedes(Identifier(m.slots[n]), Identifier(m.slots[n + 1]))
    BY DEF ValidMessage, Ordered
  <2> QED
    BY <2>1 DEF Precedes, Identifier
<1> HIDE DEF Index, Key, last
<1>3. ASSUME NEW n \in 1..last
      PROVE  \A k \in 1..last : n < k => Less(n, k)
  <2> DEFINE S == {k \in Nat : (n < k /\ k <= last) => Less(n, k)}
  <2>1. 0 \in S
    OBVIOUS
  <2>2. ASSUME NEW k \in Nat, k \in S
        PROVE  k + 1 \in S
    <3> SUFFICES ASSUME n < k + 1, k + 1 <= last
                 PROVE  Less(n, k + 1)
      OBVIOUS
    <3>1. k \in 1..(last - 1) /\ k \in 1..last /\ k + 1 \in 1..last
      BY <1>1
    <3>2. Less(k, k + 1)
      BY <1>2, <3>1
    <3>3. k = n \/ Less(n, k)
      BY <1>1, <2>2, <3>1
    <3>4. /\ Index(n) \in Nat /\ Index(k) \in Nat /\ Index(k + 1) \in Nat
          /\ Key(n) \in Nat /\ Key(k) \in Nat /\ Key(k + 1) \in Nat
      BY <1>1, <3>1
    <3> QED
      BY <3>2, <3>3, <3>4
  <2> HIDE DEF S
  <2>3. \A k \in Nat : k \in S
    BY <2>1, <2>2, NatSetInduction
  <2> QED
    BY <1>1, <2>3 DEF S
<1> QED
  BY <1>3 DEF Index, Key, last

\* Identifiers tell the slots of a valid message apart.
LEMMA PlacesDistinct ==
    ASSUME NEW m, IsMessage(m), ValidMessage(m), NEW n \in 1..Len(m.slots), NEW k \in 1..Len(m.slots),
           Identifier(m.slots[n]) = Identifier(m.slots[k])
    PROVE  n = k
<1>1. m.slots[n].input_index = m.slots[k].input_index
      /\ m.slots[n].signer_pubkey = m.slots[k].signer_pubkey
  BY DEF Identifier
<1>2. /\ m.slots[n].input_index \in Nat /\ m.slots[k].input_index \in Nat
      /\ m.slots[n].signer_pubkey \in Nat /\ m.slots[k].signer_pubkey \in Nat
      /\ n \in Nat /\ k \in Nat
  BY ValidSlots
<1>3. ~(n < k) /\ ~(k < n)
  BY <1>1, <1>2, PlacesOrdered
<1> QED
  BY <1>2, <1>3

\* What the slots of a message are known by.
Identifiers(m) == {Identifier(m.slots[n]) : n \in DOMAIN m.slots}

\* Valid messages with the same identifiers have them at the same places.
LEMMA SamePlaces ==
    ASSUME NEW m, IsMessage(m), ValidMessage(m), NEW other, IsMessage(other), ValidMessage(other),
           Identifiers(m) = Identifiers(other)
    PROVE  \A n \in 1..Len(m.slots) :
              n <= Len(other.slots) /\ Identifier(m.slots[n]) = Identifier(other.slots[n])
<1> DEFINE last == Len(m.slots)
           end == Len(other.slots)
           A(n) == Identifier(m.slots[n])
           B(n) == Identifier(other.slots[n])
           Good(n) == n <= end /\ A(n) = B(n)
           Bad == {n \in 1..last : ~Good(n)}
<1>1. /\ last \in Nat /\ end \in Nat
      /\ \A n \in 1..last : \E k \in 1..end : A(n) = B(k)
      /\ \A k \in 1..end : \E n \in 1..last : A(n) = B(k)
  <2>1. /\ last \in Nat /\ end \in Nat /\ DOMAIN m.slots = 1..last /\ DOMAIN other.slots = 1..end
    BY ValidSlots
  <2>2. {A(n) : n \in 1..last} = {B(n) : n \in 1..end}
    BY <2>1 DEF Identifiers
  <2> HIDE DEF A, B, last, end
  <2> QED
    BY <2>1, <2>2
<1>2. \A n, k \in 1..last : n < k => Precedes(A(n), A(k))
  BY PlacesOrdered DEF Precedes, Identifier
<1>3. \A n, k \in 1..end : n < k => Precedes(B(n), B(k))
  BY PlacesOrdered DEF Precedes, Identifier
<1>4. /\ \A n \in 1..last : A(n)[1] \in Nat /\ A(n)[2] \in Nat
      /\ \A n \in 1..end : B(n)[1] \in Nat /\ B(n)[2] \in Nat
  BY ValidSlots DEF Identifier
<1> HIDE DEF A, B, last, end
<1>5. \A n, k \in 1..last : A(n) = A(k) => n = k
  BY <1>1, <1>2, <1>4 DEF Precedes
<1>6. \A n, k \in 1..end : B(n) = B(k) => n = k
  BY <1>1, <1>3, <1>4 DEF Precedes
<1> SUFFICES ASSUME Bad # {} PROVE FALSE
  BY DEF A, B, last, end
<1>7. PICK n \in Bad : \A k \in Bad : n <= k
  <2>1. Bad \in SUBSET Nat
    OBVIOUS
  <2> HIDE DEF Bad
  <2> QED
    BY <2>1, LeastExists
<1>8. n \in 1..last /\ \A k \in 1..last : k < n => k <= end /\ A(k) = B(k)
  BY <1>1, <1>7
<1>9. PICK j \in 1..end : A(n) = B(j)
  BY <1>1, <1>8
<1>10. ~(j < n)
  <2> SUFFICES ASSUME j < n PROVE FALSE
    OBVIOUS
  <2>1. j \in 1..last /\ A(j) = B(j)
    BY <1>1, <1>8, <1>9
  <2> QED
    BY <1>5, <1>8, <1>9, <2>1
<1>11. n \in 1..end
  BY <1>1, <1>8, <1>9, <1>10
<1>12. PICK i \in 1..last : A(i) = B(n)
  BY <1>1, <1>11
<1>13. ~(i < n)
  <2> SUFFICES ASSUME i < n PROVE FALSE
    OBVIOUS
  <2>1. i \in 1..end /\ A(i) = B(i)
    BY <1>1, <1>8, <1>12
  <2>2. i = n
    BY <1>6, <1>11, <1>12, <2>1
  <2> QED
    BY <1>1, <1>11, <2>2
<1>14. j = n
  <2> SUFFICES ASSUME n < j PROVE FALSE
    BY <1>8, <1>9, <1>10
  <2>1. Precedes(A(i), A(n))
    BY <1>3, <1>9, <1>11, <1>12
  <2>2. i = n \/ Precedes(A(n), A(i))
    BY <1>2, <1>8, <1>12, <1>13
  <2>3. A(n)[1] \in Nat /\ A(n)[2] \in Nat /\ A(i)[1] \in Nat /\ A(i)[2] \in Nat
    BY <1>4, <1>8
  <2> QED
    BY <2>1, <2>2, <2>3 DEF Precedes
<1> QED
  BY <1>7, <1>9, <1>11, <1>14

-----------------------------------------------------------------------------
\* The rhos that Meaning may take a commitment to be made from, and the one it takes.
Preimages(c) ==
    LET revealable == {rho \in Octets32 : HostCommit(rho) = c}
    IN  IF revealable = {} THEN {Bytes32 + c} ELSE revealable

Chosen(c) == CHOOSE rho \in Preimages(c) : TRUE

\* Commitments are told apart by what is taken for their preimage, and a rho opens the one
\* it is taken for.
LEMMA ChosenIs ==
    ASSUME NEW c \in Nat
    PROVE  /\ \A d \in Nat : Chosen(c) = Chosen(d) => c = d
           /\ \A rho \in Octets32 : rho = Chosen(c) <=> HostCommit(rho) = c
<1>1. \A d : Chosen(d) \in Preimages(d)
  <2>1. \A d : Preimages(d) # {}
    BY DEF Preimages
  <2> QED
    BY <2>1 DEF Chosen
<1>2. Bytes32 \in Nat
  BY CurveAssumption
<1>3. \A d \in Nat : \/ Chosen(d) \in Octets32 /\ HostCommit(Chosen(d)) = d
                     \/ /\ Chosen(d) = Bytes32 + d /\ Chosen(d) \notin Octets32
                        /\ \A rho \in Octets32 : HostCommit(rho) # d
  <2> SUFFICES ASSUME NEW d \in Nat
               PROVE  \/ Chosen(d) \in Octets32 /\ HostCommit(Chosen(d)) = d
                      \/ /\ Chosen(d) = Bytes32 + d /\ Chosen(d) \notin Octets32
                         /\ \A rho \in Octets32 : HostCommit(rho) # d
    OBVIOUS
  <2>1. Chosen(d) \in Preimages(d)
    BY <1>1
  <2>2. Bytes32 + d \notin Octets32
    BY <1>2 DEF Octets32
  <2> QED
    BY <2>1, <2>2 DEF Preimages
<1>4. ASSUME NEW d \in Nat, Chosen(c) = Chosen(d)
      PROVE  c = d
  BY <1>2, <1>3, <1>4
<1>5. ASSUME NEW rho \in Octets32
      PROVE  rho = Chosen(c) <=> HostCommit(rho) = c
  BY <1>3, <1>5, CommitmentAssumption
<1> QED
  BY <1>4, <1>5

\* What a slot means.
Meant(slot) ==
    [hash |-> slot.message_hash, commitment |-> P!HostCommit(Chosen(slot.commitment)),
     opening |-> slot.opening, rho |-> slot.rho, signature |-> slot.signature]

\* A message means its slots, each under its identifier.
LEMMA MeaningIs ==
    ASSUME NEW m, IsMessage(m), ValidMessage(m)
    PROVE  LET meant == Meaning(m)
           IN  /\ meant.stage = m.stage /\ meant.network = m.network
               /\ meant.session = m.session_id /\ meant.psbt = m.psbt_digest
               /\ DOMAIN meant.slots = Identifiers(m)
               /\ \A n \in 1..Len(m.slots) : meant.slots[Identifier(m.slots[n])] = Meant(m.slots[n])
<1> DEFINE Place(id) == CHOOSE n \in DOMAIN m.slots : Identifier(m.slots[n]) = id
           f == [id \in Identifiers(m) |-> Meant(m.slots[Place(id)])]
<1>1. Meaning(m) = [stage |-> m.stage, network |-> m.network, session |-> m.session_id,
                    psbt |-> m.psbt_digest, slots |-> f]
  BY DEF Meaning, Meant, Identifiers, Chosen, Preimages
<1>2. ASSUME NEW n \in 1..Len(m.slots)
      PROVE  Place(Identifier(m.slots[n])) = n /\ Identifier(m.slots[n]) \in Identifiers(m)
  <2>1. DOMAIN m.slots = 1..Len(m.slots)
    BY ValidSlots
  <2>2. /\ Place(Identifier(m.slots[n])) \in 1..Len(m.slots)
        /\ Identifier(m.slots[Place(Identifier(m.slots[n]))]) = Identifier(m.slots[n])
    BY <2>1
  <2> QED
    BY <2>1, <2>2, PlacesDistinct DEF Identifiers
<1> HIDE DEF Place
<1>3. \A n \in 1..Len(m.slots) : f[Identifier(m.slots[n])] = Meant(m.slots[n])
  BY <1>2
<1> HIDE DEF f
<1>4. DOMAIN f = Identifiers(m)
  BY DEF f
<1> QED
  BY <1>1, <1>3, <1>4

\* A valid message has as many identifiers as slots, and of one input not too many.
LEMMA IdentifiersCounted ==
    ASSUME NEW m, IsMessage(m), ValidMessage(m)
    PROVE  Cardinality(Identifiers(m)) = Len(m.slots)
<1> DEFINE D == 1..Len(m.slots)
           f == [n \in D |-> Identifier(m.slots[n])]
<1>1. Len(m.slots) \in Nat /\ DOMAIN m.slots = D
  BY ValidSlots
<1>2. f \in Surjection(D, Identifiers(m)) /\ f \in Injection(D, Identifiers(m))
  <2>1. \A n \in D : f[n] \in Identifiers(m)
    BY <1>1 DEF Identifiers
  <2>2. \A n, k \in D : f[n] = f[k] => n = k
    BY PlacesDistinct
  <2>3. \A id \in Identifiers(m) : \E n \in D : f[n] = id
    BY <1>1 DEF Identifiers
  <2> QED
    BY <2>1, <2>2, <2>3 DEF Injection, Surjection, IsInjective
<1>3. IsFiniteSet(D) /\ Cardinality(D) = Len(m.slots)
  BY <1>1, FS_Interval
<1> HIDE DEF f, D
<1> QED
  BY <1>2, <1>3, FS_Surjection

\* Identifiers of one input are within the limit: its last slot was counted with all the others.
LEMMA InputCounted ==
    ASSUME NEW m, IsMessage(m), ValidMessage(m), NEW n \in 1..Len(m.slots)
    PROVE  Cardinality({id \in Identifiers(m) : id[1] = m.slots[n].input_index}) <= MaxSlotsPerInput
<1> DEFINE end == Len(m.slots)
           Index(k) == m.slots[k].input_index
           places == {k \in 1..end : Index(k) = Index(n)}
           ids == {id \in Identifiers(m) : id[1] = Index(n)}
<1>1. end \in Nat /\ DOMAIN m.slots = 1..end
  BY ValidSlots
<1>2. PICK last \in places : \A k \in places : k <= last
  <2> DEFINE T == {end - k : k \in places}
  <2>1. T \in SUBSET Nat /\ T # {}
    <3>1. n \in places
      OBVIOUS
    <3>2. \A k \in places : end - k \in Nat
      BY <1>1
    <3> HIDE DEF places
    <3> QED
      BY <3>1, <3>2
  <2>2. PICK x \in T : \A y \in T : x <= y
    <3> HIDE DEF T
    <3> QED
      BY <2>1, LeastExists
  <2>3. PICK k \in places : x = end - k
    BY <2>2
  <2>4. \A j \in places : end - k <= end - j
    BY <2>2, <2>3
  <2>5. \A j \in places : j <= k
    BY <1>1, <2>3, <2>4
  <2> QED
    BY <2>3, <2>5
<1>3. places = {k \in 1..last : Index(k) = Index(last)} /\ last \in 1..end
  BY <1>1, <1>2
<1>4. IsFiniteSet(places) /\ Cardinality(places) <= MaxSlotsPerInput
  <2>1. \A k \in DOMAIN m.slots :
            Cardinality({j \in 1..k : m.slots[j].input_index = m.slots[k].input_index})
                <= MaxSlotsPerInput
    BY DEF ValidMessage
  <2>2. IsFiniteSet(1..end) /\ places \in SUBSET (1..end)
    BY <1>1, FS_Interval
  <2> QED
    BY <1>1, <1>3, <2>1, <2>2, FS_Subset
<1> DEFINE f == [k \in places |-> Identifier(m.slots[k])]
<1>5. f \in Surjection(places, ids)
  <2>1. \A k : Identifier(m.slots[k])[1] = Index(k)
    BY DEF Identifier
  <2>2. \A k \in places : f[k] \in ids
    BY <1>1, <2>1 DEF Identifiers
  <2>3. \A id \in ids : \E k \in places : f[k] = id
    BY <1>1, <2>1 DEF Identifiers
  <2> QED
    BY <2>2, <2>3 DEF Surjection
<1> HIDE DEF f, places, ids
<1>6. Cardinality(ids) <= Cardinality(places) /\ IsFiniteSet(ids)
  BY <1>4, <1>5, FS_Surjection
<1>7. Cardinality(ids) \in Nat /\ Cardinality(places) \in Nat /\ MaxSlotsPerInput \in Nat
  BY <1>4, <1>6, FS_CardinalityType, MultisigAssumption
<1> QED
  BY <1>4, <1>6, <1>7 DEF ids

\* ProtocolV1 counts as FiniteSets does.
LEMMA SameCardinality == \A S : P!Cardinality(S) = Cardinality(S)
  BY Zenon DEF P!Cardinality, Cardinality

\* What a valid message means is a valid message of ProtocolV1.
LEMMA MeaningValid ==
    ASSUME NEW m, IsMessage(m), ValidMessage(m)
    PROVE  P!ValidMessage(Meaning(m))
<1> DEFINE M == Meaning(m)
           end == Len(m.slots)
           Id(n) == Identifier(m.slots[n])
<1>1. /\ M.stage = m.stage /\ DOMAIN M.slots = Identifiers(m)
      /\ \A n \in 1..end : M.slots[Id(n)] = Meant(m.slots[n])
  BY MeaningIs
<1>2. /\ end \in Nat \ {0} /\ end <= MaxSlots /\ DOMAIN m.slots = 1..end /\ m.stage \in 1..4
      /\ \A n \in 1..end : ValidSlot(m.stage, m.slots[n]) /\ m.slots[n].commitment \in Nat
  BY ValidSlots
<1>3. \A id \in Identifiers(m) : \E n \in 1..end : id = Id(n)
  BY <1>2 DEF Identifiers
<1>4. Cardinality(Identifiers(m)) \in 1..MaxSlots
  BY <1>2, IdentifiersCounted, SlotLimitAssumption
<1> HIDE DEF M, end
<1>5. ASSUME NEW n \in 1..end
      PROVE  /\ P!ValidSlot(M.stage, M.slots[Id(n)])
             /\ Cardinality({j \in Identifiers(m) : P!InputOf(j) = P!InputOf(Id(n))})
                    <= MaxSlotsPerInput
  <2>1. Id(n)[1] = m.slots[n].input_index
    BY DEF Identifier
  <2>2. Cardinality({j \in Identifiers(m) : P!InputOf(j) = P!InputOf(Id(n))}) <= MaxSlotsPerInput
    BY <2>1, InputCounted DEF P!InputOf, end
  <2>3. M.slots[Id(n)] = Meant(m.slots[n]) /\ ValidSlot(m.stage, m.slots[n])
    BY <1>1, <1>2
  <2> HIDE DEF Id
  <2>4. P!ValidSlot(M.stage, M.slots[Id(n)])
    BY <1>1, <2>3 DEF ValidSlot, Meant, P!ValidSlot, P!SIGNER_OPENINGS, P!HOST_REVEAL,
                      P!SIGNER_SIGNATURES, SIGNER_OPENINGS, HOST_REVEAL, SIGNER_SIGNATURES
  <2> QED
    BY <2>2, <2>4
<1>6. ASSUME NEW n \in 1..end, NEW k \in 1..end, k < n
      PROVE  LET before == Meant(m.slots[k])
                 after == Meant(m.slots[n])
             IN  /\ before.commitment # after.commitment
                 /\ m.stage = 3 => before.rho # after.rho
                 /\ (m.stage >= 2 /\ m.slots[k].signer_pubkey = m.slots[n].signer_pubkey)
                        => before.opening # after.opening
  <2>1. n \in DOMAIN m.slots /\ k \in 1..(n - 1)
    BY <1>2, <1>6
  <2>2. /\ m.slots[k].commitment # m.slots[n].commitment
        /\ m.slots[n].rho # Absent => m.slots[k].rho # m.slots[n].rho
        /\ (m.slots[n].opening # Absent /\ m.slots[k].signer_pubkey = m.slots[n].signer_pubkey)
               => m.slots[k].opening # m.slots[n].opening
    BY <2>1 DEF ValidMessage
  <2>3. /\ m.stage = 3 => m.slots[n].rho # Absent
        /\ m.stage >= 2 => m.slots[n].opening # Absent
    <3>1. ValidSlot(m.stage, m.slots[n])
      BY <1>2
    <3> QED
      BY <3>1 DEF ValidSlot, SIGNER_OPENINGS, HOST_REVEAL
  <2>4. Chosen(m.slots[k].commitment) # Chosen(m.slots[n].commitment)
    BY <1>2, <2>2, ChosenIs
  <2> QED
    BY <2>2, <2>3, <2>4 DEF Meant, P!HostCommit
<1>7. ASSUME NEW n \in 1..end, NEW k \in 1..end, Id(n) # Id(k)
      PROVE  /\ M.slots[Id(n)].commitment # M.slots[Id(k)].commitment
             /\ M.stage = P!HOST_REVEAL => M.slots[Id(n)].rho # M.slots[Id(k)].rho
             /\ (M.stage >= P!SIGNER_OPENINGS /\ P!KeyOf(Id(n)) = P!KeyOf(Id(k)))
                    => M.slots[Id(n)].opening # M.slots[Id(k)].opening
  <2>1. n < k \/ k < n
    BY <1>2, <1>7
  <2>2. Id(n)[2] = m.slots[n].signer_pubkey /\ Id(k)[2] = m.slots[k].signer_pubkey
    BY DEF Identifier
  <2>3. M.slots[Id(n)] = Meant(m.slots[n]) /\ M.slots[Id(k)] = Meant(m.slots[k]) /\ M.stage = m.stage
    BY <1>1
  <2> HIDE DEF Id
  <2> QED
    BY <1>6, <2>1, <2>2, <2>3 DEF P!HOST_REVEAL, P!SIGNER_OPENINGS, P!KeyOf
<1> HIDE DEF Id
<1>8. M.stage \in P!HOST_COMMIT..P!SIGNER_SIGNATURES
  BY <1>1, <1>2 DEF P!HOST_COMMIT, P!SIGNER_SIGNATURES
<1>9. DOMAIN M.slots = Identifiers(m)
  BY <1>1
<1>10. \A id \in Identifiers(m) :
          /\ P!ValidSlot(M.stage, M.slots[id])
          /\ Cardinality({j \in Identifiers(m) : P!InputOf(j) = P!InputOf(id)}) <= MaxSlotsPerInput
  BY <1>3, <1>5
<1>11. ASSUME NEW id \in Identifiers(m), NEW j \in Identifiers(m), id # j
       PROVE  /\ M.slots[id].commitment # M.slots[j].commitment
              /\ M.stage = P!HOST_REVEAL => M.slots[id].rho # M.slots[j].rho
              /\ (M.stage >= P!SIGNER_OPENINGS /\ P!KeyOf(id) = P!KeyOf(j))
                     => M.slots[id].opening # M.slots[j].opening
  <2>1. PICK n \in 1..end, k \in 1..end : id = Id(n) /\ j = Id(k)
    BY <1>3
  <2> QED
    BY <1>7, <1>11, <2>1
<1>12. P!ValidMessage(M)
  BY <1>4, <1>8, <1>9, <1>10, <1>11, SameCardinality DEF P!ValidMessage
<1> QED
  BY <1>12 DEF M

\* Comparing slots by position is comparing them by identifier.
LEMMA TransitionMeans ==
    ASSUME NEW m, IsMessage(m), ValidMessage(m), NEW other, IsMessage(other), ValidMessage(other)
    PROVE  ValidTransition(m, other) <=> P!ValidTransition(Meaning(m), Meaning(other))
<1> DEFINE M == Meaning(m)
           N == Meaning(other)
           end == Len(other.slots)
           B(n) == Identifier(m.slots[n])
           A(n) == Identifier(other.slots[n])
<1>1. /\ M.stage = m.stage /\ M.network = m.network /\ M.session = m.session_id
      /\ M.psbt = m.psbt_digest /\ DOMAIN M.slots = Identifiers(m)
      /\ \A n \in 1..Len(m.slots) : M.slots[B(n)] = Meant(m.slots[n])
  BY MeaningIs
<1>2. /\ N.stage = other.stage /\ N.network = other.network /\ N.session = other.session_id
      /\ N.psbt = other.psbt_digest /\ DOMAIN N.slots = Identifiers(other)
      /\ \A n \in 1..end : N.slots[A(n)] = Meant(other.slots[n])
  BY MeaningIs
<1>3. /\ Len(m.slots) \in Nat /\ DOMAIN m.slots = 1..Len(m.slots) /\ m.stage \in 1..4
      /\ \A n \in 1..Len(m.slots) :
            m.slots[n].commitment \in Nat /\ m.slots[n].sighash_type = SIGHASH_ALL
  BY ValidSlots
<1>4. /\ end \in Nat /\ DOMAIN other.slots = 1..end /\ other.stage \in 1..4
      /\ \A n \in 1..end :
            /\ other.slots[n].commitment \in Nat /\ other.slots[n].sighash_type = SIGHASH_ALL
            /\ other.stage = 3 => other.slots[n].rho \in Octets32
  BY ValidSlots
<1> DEFINE Alike == Len(m.slots) = end /\ \A n \in 1..end : B(n) = A(n)
<1>5. Alike <=> Identifiers(m) = Identifiers(other)
  <2>1. ASSUME Alike
        PROVE  Identifiers(m) = Identifiers(other)
    BY <1>3, <1>4, <2>1 DEF Identifiers
  <2>2. ASSUME Identifiers(m) = Identifiers(other)
        PROVE  Alike
    <3>1. \A n \in 1..Len(m.slots) : n <= end /\ B(n) = A(n)
      BY <2>2, SamePlaces
    <3>2. \A n \in 1..end : n <= Len(m.slots) /\ A(n) = B(n)
      BY <2>2, SamePlaces
    <3> QED
      BY <1>3, <1>4, <3>1, <3>2
  <2> QED
    BY <2>1, <2>2
<1> DEFINE Here(n) == /\ m.slots[n].message_hash = other.slots[n].message_hash
                      /\ m.slots[n].commitment = other.slots[n].commitment
                      /\ m.stage >= 2 => m.slots[n].opening = other.slots[n].opening
                      /\ other.stage = 3 => HostCommit(other.slots[n].rho) = other.slots[n].commitment
           There(id) == P!SlotTransition(M, N, id)
                        /\ (N.stage = P!HOST_REVEAL => P!RevealsCommitment(N, id))
<1>6. ASSUME Alike, NEW n \in 1..end
      PROVE  Here(n) <=> There(A(n))
  <2>1. M.slots[A(n)] = Meant(m.slots[n]) /\ N.slots[A(n)] = Meant(other.slots[n])
    BY <1>1, <1>2, <1>6
  <2>2. Chosen(m.slots[n].commitment) = Chosen(other.slots[n].commitment)
            <=> m.slots[n].commitment = other.slots[n].commitment
    BY <1>3, <1>4, <1>6, ChosenIs
  <2>3. other.stage = 3 =>
            (HostCommit(other.slots[n].rho) = other.slots[n].commitment
                <=> other.slots[n].rho = Chosen(other.slots[n].commitment))
    BY <1>4, ChosenIs
  <2> HIDE DEF A, B, M, N
  <2>4. There(A(n)) <=> /\ Meant(m.slots[n]).hash = Meant(other.slots[n]).hash
                        /\ Meant(m.slots[n]).commitment = Meant(other.slots[n]).commitment
                        /\ m.stage >= 2 => Meant(m.slots[n]).opening = Meant(other.slots[n]).opening
                        /\ other.stage = 3 => P!HostCommit(Meant(other.slots[n]).rho)
                                                = Meant(other.slots[n]).commitment
    BY <1>1, <1>2, <2>1 DEF P!SlotTransition, P!RevealsCommitment, P!HOST_REVEAL, P!SIGNER_OPENINGS
  <2>5. \A x, y : P!HostCommit(x) = P!HostCommit(y) <=> x = y
    BY DEF P!HostCommit
  <2> QED
    BY <2>2, <2>3, <2>4, <2>5 DEF Meant
<1> DEFINE Header == /\ m.stage < 4 /\ other.stage = m.stage + 1
                     /\ m.network = other.network /\ m.session_id = other.session_id
                     /\ m.psbt_digest = other.psbt_digest
<1>7. ValidTransition(m, other) <=> Header /\ Alike /\ \A n \in 1..end : Here(n)
  BY <1>3, <1>4 DEF ValidTransition, SIGNER_SIGNATURES, SIGNER_OPENINGS, HOST_REVEAL
<1>8. P!ValidTransition(M, N)
        <=> /\ Header /\ Identifiers(m) = Identifiers(other)
            /\ \A id \in Identifiers(other) : There(id)
  <2> HIDE DEF M, N, A, B
  <2> QED
    BY <1>1, <1>2 DEF P!ValidTransition, P!SIGNER_SIGNATURES
<1>9. Identifiers(other) = {A(n) : n \in 1..end}
  BY <1>4 DEF Identifiers
<1> HIDE DEF Header, Alike, Here, There, A, B, M, N, end
<1>10. ASSUME Alike
       PROVE  (\A n \in 1..end : Here(n)) <=> (\A id \in Identifiers(other) : There(id))
  BY <1>6, <1>9, <1>10
<1> QED
  BY <1>5, <1>7, <1>8, <1>10 DEF M, N

\* A message that can be laid out on a wire.
Sendable(m) == IsSequence(m.slots) /\ Len(m.slots) # 0 /\ m.stage \in 1..4

\* The package under way has the fields of a wire, and is the encoding of a message unless it
\* was altered.
PackageInv ==
    wire # Absent =>
        /\ IsWire(wire.message)
        /\ altered = "no" => \E m, raw : wire = Package(m, raw) /\ Sendable(m)

\* The encoding of such a message has the fields of a wire.
LEMMA EncodingIs ==
    ASSUME NEW m, Sendable(m)
    PROVE  /\ IsWire(Encode(m)) /\ Encode(m).slot_count = Len(m.slots)
           /\ Len(m.slots) \in Nat \ {0} /\ RecordLength(m.stage) \in Nat \ {0}
<1>1. m.stage \in HOST_COMMIT..SIGNER_SIGNATURES
  BY DEF Sendable, HOST_COMMIT, SIGNER_SIGNATURES
<1>2. IsSequence(Encode(m).records)
  BY <1>1, RecordsOf DEF Sendable
<1>3. Len(m.slots) \in Nat \ {0}
  BY SequenceShape DEF Sendable
<1>4. RecordLength(m.stage) \in Nat \ {0}
  BY <1>1, SlotWidth
<1>5. Encode(m) = [version |-> Encode(m).version, network |-> Encode(m).network,
                   stage |-> Encode(m).stage, flags |-> Encode(m).flags,
                   payload_length |-> Encode(m).payload_length,
                   session_id |-> Encode(m).session_id, psbt_digest |-> Encode(m).psbt_digest,
                   slot_count |-> Encode(m).slot_count, records |-> Encode(m).records]
      /\ Encode(m).slot_count = Len(m.slots)
  BY DEF Encode
<1> QED
  BY <1>2, <1>3, <1>4, <1>5 DEF IsWire

\* Records laid out in another order are a sequence of cells.
LEMMA RelaidRecords ==
    ASSUME NEW order \in Seq(Nat \ {0}), NEW width \in Nat \ {0}, NEW cells
    PROVE  IsSequence(FlattenSeq([k \in DOMAIN order |->
                          SubSeq(cells, (order[k] - 1) * width + 1, order[k] * width)]))
<1> DEFINE Piece(n) == SubSeq(cells, (n - 1) * width + 1, n * width)
           pieces == [k \in DOMAIN order |-> Piece(order[k])]
           S == {cells[i] : i \in Nat}
<1>1. ASSUME NEW n \in Nat \ {0}
      PROVE  Piece(n) \in Seq(S) /\ Len(Piece(n)) = width
  <2>1. PICK a \in Nat : a = (n - 1) * width /\ n * width = a + width
    <3>1. n - 1 \in Nat
      OBVIOUS
    <3>2. \A k \in Nat : k * width \in Nat
      OBVIOUS
    <3>3. n * width = (n - 1) * width + width
      OBVIOUS
    <3> QED
      BY <3>1, <3>2, <3>3
  <2>2. Piece(n) = SubSeq(cells, a + 1, a + width)
    BY <2>1
  <2>3. SubSeq(cells, a + 1, a + width) = [i \in 1..width |-> cells[i + a]]
    OBVIOUS
  <2>4. \A i \in 1..width : cells[i + a] \in S
    OBVIOUS
  <2> HIDE DEF S, Piece
  <2>5. [i \in 1..width |-> cells[i + a]] \in Seq(S)
    BY <2>4
  <2>6. Len([i \in 1..width |-> cells[i + a]]) = width
    OBVIOUS
  <2> QED
    BY <2>2, <2>3, <2>5, <2>6
<1> HIDE DEF S
<1>2. DOMAIN order = 1..Len(order) /\ Len(order) \in Nat /\ \A k \in 1..Len(order) : order[k] \in Nat \ {0}
  OBVIOUS
<1>3. FlattenSeq(pieces) = FlattenSeq([k \in DOMAIN order |->
                          SubSeq(cells, (order[k] - 1) * width + 1, order[k] * width)])
  OBVIOUS
<1> HIDE DEF Piece
<1>4. pieces \in Seq(Seq(S)) /\ Len(pieces) = Len(order)
      /\ \A k \in 1..Len(pieces) : Len(pieces[k]) = width
  BY <1>1, <1>2
<1> HIDE DEF pieces
<1>5. CASE pieces = <<>>
  <2>1. FlattenSeq(<<>>) = <<>>
    BY Zenon DEF FlattenSeq
  <2>2. IsSequence(<<>>)
    BY DEF IsSequence
  <2> QED
    BY <1>3, <1>5, <2>1, <2>2
<1>6. CASE pieces # <<>>
  <2>1. FlattenSeq(pieces) \in Seq(S)
    BY <1>4, <1>6, FlattenWidth
  <2>2. \A s \in Seq(S) : IsSequence(s)
    BY DEF IsSequence, ToSet
  <2>3. IsSequence(FlattenSeq(pieces))
    BY <2>1, <2>2
  <2> QED
    BY <1>3, <2>3
<1> QED
  BY <1>5, <1>6

\* A wire with another value in one of its fields is a wire.
LEMMA WireChanged ==
    ASSUME NEW w, IsWire(w), NEW x
    PROVE  /\ \A f \in {"version", "flags", "stage", "payload_length", "slot_count", "network",
                        "session_id", "psbt_digest"} : IsWire([w EXCEPT ![f] = x])
           /\ IsSequence(x) => IsWire([w EXCEPT !.records = x])
<1> DEFINE old == [version |-> w.version, network |-> w.network, stage |-> w.stage,
                   flags |-> w.flags, payload_length |-> w.payload_length,
                   session_id |-> w.session_id, psbt_digest |-> w.psbt_digest,
                   slot_count |-> w.slot_count, records |-> w.records]
<1>1. w = old /\ IsSequence(w.records)
  BY DEF IsWire
<1>2. ASSUME NEW f \in {"version", "flags", "stage", "payload_length", "slot_count", "network",
                        "session_id", "psbt_digest"}
      PROVE  IsWire([w EXCEPT ![f] = x])
  <2> DEFINE new == [old EXCEPT ![f] = x]
  <2>1. new.records = old.records /\ new = [w EXCEPT ![f] = x]
    BY <1>1
  <2>2. new = [version |-> new.version, network |-> new.network, stage |-> new.stage,
               flags |-> new.flags, payload_length |-> new.payload_length,
               session_id |-> new.session_id, psbt_digest |-> new.psbt_digest,
               slot_count |-> new.slot_count, records |-> new.records]
    OBVIOUS
  <2> HIDE DEF new
  <2>3. IsSequence(new.records)
    BY <1>1, <2>1
  <2> QED
    BY <2>1, <2>2, <2>3 DEF IsWire
<1>3. ASSUME IsSequence(x)
      PROVE  IsWire([w EXCEPT !.records = x])
  <2>1. [w EXCEPT !.records = x]
          = [version |-> w.version, network |-> w.network, stage |-> w.stage,
             flags |-> w.flags, payload_length |-> w.payload_length,
             session_id |-> w.session_id, psbt_digest |-> w.psbt_digest,
             slot_count |-> w.slot_count, records |-> x]
    BY <1>1
  <2> QED
    BY <1>3, <2>1 DEF IsWire
<1> QED
  BY <1>2, <1>3

\* The package with its records in another order, its lengths adjusted or not, carries a wire.
LEMMA RelaidIs ==
    ASSUME NEW m, NEW raw, wire = Package(m, raw), Sendable(m), NEW order \in Seq(Nat \ {0}),
           NEW lengths
    PROVE  IsWire(Relaid(order, lengths).message)
<1> DEFINE w == wire.message
           records == FlattenSeq([k \in DOMAIN order |-> Record(order[k])])
           count == Len(order)
           length == Len(records)
           relaid == [w EXCEPT !.records = records]
<1>1. wire.stage = m.stage /\ IsWire(w) /\ RecordLength(m.stage) \in Nat \ {0}
  BY EncodingIs DEF Package
<1>2. IsSequence(records)
  BY <1>1, RelaidRecords DEF Record
<1>3. wire = [network |-> wire.network, stage |-> wire.stage, psbt |-> wire.psbt, message |-> w]
  BY DEF Package
<1> HIDE DEF records, w, count, length
<1>4. /\ WithRecords(records) = [network |-> wire.network, stage |-> wire.stage,
                                 psbt |-> wire.psbt, message |-> relaid]
      /\ WithRecords(records).message = relaid
  BY <1>3 DEF WithRecords, w
<1>5. IsWire(relaid)
  BY <1>1, <1>2, WireChanged
<1>6. IsWire([[relaid EXCEPT !.slot_count = count] EXCEPT !.payload_length = length])
  <2> HIDE DEF relaid
  <2>1. IsWire([relaid EXCEPT !.slot_count = count])
    BY <1>5, WireChanged
  <2> QED
    BY <2>1, WireChanged
<1> HIDE DEF relaid
<1>7. Relaid(order, lengths).message \in
         {relaid, [[relaid EXCEPT !.slot_count = count] EXCEPT !.payload_length = length]}
  <2>1. Relaid(order, lengths)
          = IF lengths = "kept" THEN WithRecords(records)
            ELSE [WithRecords(records) EXCEPT !.message.slot_count = count,
                                              !.message.payload_length = length]
    BY DEF Relaid, records, count, length
  <2>2. [WithRecords(records) EXCEPT !.message.slot_count = count,
                                     !.message.payload_length = length].message
          = [[relaid EXCEPT !.slot_count = count] EXCEPT !.payload_length = length]
    BY <1>4
  <2> QED
    BY <1>4, <2>1, <2>2
<1> QED
  BY <1>5, <1>6, <1>7

\* The places with one left out are places.
LEMMA PlaceRemoved ==
    ASSUME NEW n \in Nat, NEW k \in 1..n
    PROVE  RemoveAt([j \in 1..n |-> j], k) \in Seq(1..n)
  BY DEF RemoveAt

\* Whatever damage a package takes, what it carries still has the fields of a wire.
LEMMA DamagedIsWire ==
    ASSUME NEW m, NEW raw, wire = Package(m, raw), Sendable(m), Damage
    PROVE  \E package : Alter("damage", package) /\ IsWire(package.message)
<1> DEFINE w == wire.message
           count == w.slot_count
           all == [j \in 1..count |-> j]
           Hit(package) == Alter("damage", package)
<1>1. /\ wire = [network |-> wire.network, stage |-> wire.stage, psbt |-> wire.psbt, message |-> w]
      /\ IsWire(w) /\ count \in Nat \ {0}
  BY EncodingIs DEF Package
<1> DEFINE Cells == \E k \in DOMAIN w.records : \E cell : Hit(WithRecords([w.records EXCEPT ![k] = cell]))
           Orders == \E order \in Seq(Nat \ {0}) : \E lengths : Hit(Relaid(order, lengths))
           Fields == \E f \in {"version", "flags", "stage", "payload_length", "slot_count"} :
                        \E x : Hit([wire EXCEPT !.message = [w EXCEPT ![f] = x]])
           Networks == \E x : Hit([wire EXCEPT !.message.network = x])
           Sessions == \E x : Hit([wire EXCEPT !.message.session_id = x])
           Psbts == \E x : Hit([wire EXCEPT !.psbt = x])
           Digests == \E x, y : Hit([wire EXCEPT !.message.psbt_digest = x, !.psbt = y])
<1>2. ASSUME NEW n \in 1..count, NEW k \in 1..count
      PROVE  /\ [all EXCEPT ![n] = k, ![k] = n] \in Seq(Nat \ {0})
             /\ [all EXCEPT ![n] = k] \in Seq(Nat \ {0})
             /\ RemoveAt(all, n) \in Seq(Nat \ {0})
  <2>1. all \in Seq(1..count) /\ Len(all) = count
    BY <1>1
  <2> HIDE DEF all
  <2>2. \A s \in Seq(1..count) : s \in Seq(Nat \ {0})
    BY <1>1
  <2>3. [all EXCEPT ![n] = k] \in Seq(1..count) /\ [all EXCEPT ![n] = k, ![k] = n] \in Seq(1..count)
    BY <2>1
  <2>4. RemoveAt(all, n) \in Seq(1..count)
    BY <1>1, PlaceRemoved DEF all
  <2> QED
    BY <2>2, <2>3, <2>4
<1>3. Cells \/ Orders \/ Fields \/ Networks \/ Sessions \/ Psbts \/ Digests
  <2> DEFINE Records == \E n \in 1..count : \E k \in 1..count :
                 \/ Hit(Relaid([all EXCEPT ![n] = k, ![k] = n], "kept"))
                 \/ Hit(Relaid([all EXCEPT ![n] = k], "kept"))
                 \/ \E lengths \in {"kept", "new"} : Hit(Relaid(RemoveAt(all, n), lengths))
             Shifted(f, d) == [w EXCEPT ![f] = @ + d]
             Shifts == \E f \in {"version", "flags", "stage", "payload_length", "slot_count"} :
                          \E d : Hit([wire EXCEPT !.message = Shifted(f, d)])
  <2>1. Cells \/ Records \/ Shifts \/ Networks \/ Sessions \/ Psbts \/ Digests
    BY Zenon DEF Damage
  <2>2. Records => Orders
    <3> HIDE DEF all, Hit
    <3> QED
      BY <1>2
  <2>3. Shifts => Fields
    <3> HIDE DEF Hit
    <3> QED
      OBVIOUS
  <2> HIDE DEF Cells, Records, Shifts, Networks, Sessions, Psbts, Digests, Orders, Fields
  <2> QED
    BY <2>1, <2>2, <2>3
<1> HIDE DEF Hit
<1>4. CASE Cells
  <2>1. PICK k \in DOMAIN w.records : \E cell : Hit(WithRecords([w.records EXCEPT ![k] = cell]))
    BY <1>4
  <2>2. PICK cell : Hit(WithRecords([w.records EXCEPT ![k] = cell]))
    BY <2>1
  <2> DEFINE records == [w.records EXCEPT ![k] = cell]
  <2>3. IsSequence(records)
    <3>1. w.records = [i \in 1..Len(w.records) |-> w.records[i]] /\ Len(w.records) \in Nat
      BY <1>1, SequenceShape DEF IsWire
    <3>2. records = [i \in 1..Len(w.records) |-> records[i]]
      BY <3>1
    <3> HIDE DEF records
    <3> QED
      BY <3>1, <3>2, IsSequenceIff
  <2>4. WithRecords(records).message = [w EXCEPT !.records = records]
    <3> HIDE DEF records
    <3> QED
      BY <1>1 DEF WithRecords
  <2> HIDE DEF records, w
  <2>5. IsWire([w EXCEPT !.records = records])
    BY <1>1, <2>3, WireChanged
  <2> QED
    BY <2>4, <2>5, <2>2 DEF Hit, records
<1>5. CASE Orders
  BY <1>5, RelaidIs DEF Hit
<1>6. CASE Fields
  <2>1. PICK f \in {"version", "flags", "stage", "payload_length", "slot_count"} :
            \E x : Hit([wire EXCEPT !.message = [w EXCEPT ![f] = x]])
    BY <1>6
  <2>2. PICK x : Hit([wire EXCEPT !.message = [w EXCEPT ![f] = x]])
    BY <2>1
  <2>3. [wire EXCEPT !.message = [w EXCEPT ![f] = x]].message = [w EXCEPT ![f] = x]
    BY <1>1
  <2>4. IsWire([w EXCEPT ![f] = x])
    BY <1>1, WireChanged
  <2> QED
    BY <2>3, <2>4, <2>2 DEF Hit
<1>7. CASE Networks
  <2>1. PICK x : Hit([wire EXCEPT !.message.network = x])
    BY <1>7
  <2>2. [wire EXCEPT !.message.network = x].message = [w EXCEPT !.network = x]
    BY <1>1
  <2>3. IsWire([w EXCEPT !.network = x])
    BY <1>1, WireChanged
  <2> QED
    BY <2>1, <2>2, <2>3 DEF Hit
<1>8. CASE Sessions
  <2>1. PICK x : Hit([wire EXCEPT !.message.session_id = x])
    BY <1>8
  <2>2. [wire EXCEPT !.message.session_id = x].message = [w EXCEPT !.session_id = x]
    BY <1>1
  <2>3. IsWire([w EXCEPT !.session_id = x])
    BY <1>1, WireChanged
  <2> QED
    BY <2>1, <2>2, <2>3 DEF Hit
<1>9. CASE Psbts
  <2>1. PICK x : Hit([wire EXCEPT !.psbt = x])
    BY <1>9
  <2>2. [wire EXCEPT !.psbt = x].message = w
    BY <1>1
  <2> QED
    BY <1>1, <2>1, <2>2 DEF Hit
<1>10. CASE Digests
  <2>1. PICK x, y : Hit([wire EXCEPT !.message.psbt_digest = x, !.psbt = y])
    BY <1>10
  <2>2. [wire EXCEPT !.message.psbt_digest = x, !.psbt = y].message = [w EXCEPT !.psbt_digest = x]
    BY <1>1
  <2>3. IsWire([w EXCEPT !.psbt_digest = x])
    BY <1>1, WireChanged
  <2> QED
    BY <2>1, <2>2, <2>3 DEF Hit
<1> QED
  BY <1>3, <1>4, <1>5, <1>6, <1>7, <1>8, <1>9, <1>10

\* Every package of the corpus, read or not, carries the fields of a wire.
LEMMA CorpusIsWire ==
    ASSUME SessionInv, PackageInv, NEW case \in DOMAIN ExpectedCheck, PresentCase,
           Alter(case, CorpusPackage(case))
    PROVE  IsWire(CorpusPackage(case).message)
<1> DEFINE Carries(package) == IsWire(package.message)
<1>1. /\ sent[1] # Absent /\ wire # Absent /\ altered = "no"
      /\ IsMessage(sent[1]) /\ ValidMessage(sent[1]) /\ sent[1].stage = 1
  BY DEF PresentCase, Awaits, Alter, SessionInv, MessagesInv, HOST_COMMIT
<1>2. IsMessage(Base) /\ Base.stage = 1 /\ Len(Base.slots) # 0
  <2>1. Len(sent[1].slots) # 0
    BY <1>1, ValidSlots
  <2> QED
    BY <1>1, <2>1 DEF Base, HOST_COMMIT
<1>3. IsMessage(BaseOpenings) /\ BaseOpenings.stage = 2 /\ Len(BaseOpenings.slots) # 0
  BY <1>2, OpeningsForIs DEF BaseOpenings
<1>4. IsMessage(BaseReveal) /\ BaseReveal.stage = 3 /\ Len(BaseReveal.slots) # 0
  BY <1>3, RevealForIs DEF BaseReveal
<1>5. ASSUME NEW x
      PROVE  Carries(Package([Base EXCEPT !.network = x], psbt))
  <2> DEFINE m == [Base EXCEPT !.network = x]
  <2>1. m = [network |-> x, stage |-> Base.stage, session_id |-> Base.session_id,
             psbt_digest |-> Base.psbt_digest, slots |-> Base.slots]
    BY <1>2 DEF IsMessage
  <2> HIDE DEF m
  <2>2. Sendable(m)
    BY <1>2, <2>1 DEF Sendable, IsMessage
  <2> QED
    BY <2>2, EncodingIs DEF Package, m
<1>6. ASSUME NEW raw
      PROVE  Carries(ForPsbt(raw))
  <2> DEFINE m == [Base EXCEPT !.psbt_digest = raw]
  <2>1. m = [network |-> Base.network, stage |-> Base.stage, session_id |-> Base.session_id,
             psbt_digest |-> raw, slots |-> Base.slots]
    BY <1>2 DEF IsMessage
  <2> HIDE DEF m
  <2>2. Sendable(m)
    BY <1>2, <2>1 DEF Sendable, IsMessage
  <2> QED
    BY <2>2, EncodingIs DEF ForPsbt, Package, m
<1>7. Carries(Package(BaseOpenings, Absent))
  <2>1. Sendable(BaseOpenings)
    BY <1>3 DEF Sendable, IsMessage
  <2> QED
    BY <2>1, EncodingIs DEF Package
<1>8. PICK m, raw : wire = Package(m, raw) /\ Sendable(m)
  BY <1>1 DEF PackageInv
<1>9. ASSUME NEW x
      PROVE  Carries([wire EXCEPT !.network = x])
  <2>1. [wire EXCEPT !.network = x].message = wire.message
    BY <1>8 DEF Package
  <2> QED
    BY <1>1, <2>1 DEF PackageInv
<1>10. Carries(Relaid(<<1, 1, 3, 4, 5>>, "kept")) /\ Carries(Relaid(<<2, 1, 3, 4, 5>>, "kept"))
  <2>1. <<1, 1, 3, 4, 5>> \in Seq(Nat \ {0}) /\ <<2, 1, 3, 4, 5>> \in Seq(Nat \ {0})
    OBVIOUS
  <2> QED
    BY <1>8, <2>1, RelaidIs
<1>11. ASSUME NEW slot
       PROVE  Carries(Package([BaseReveal EXCEPT !.slots = [@ EXCEPT ![1] = slot]], psbt))
  <2> DEFINE slots == [BaseReveal.slots EXCEPT ![1] = slot]
             new == [BaseReveal EXCEPT !.slots = slots]
  <2>1. new = [network |-> BaseReveal.network, stage |-> BaseReveal.stage,
               session_id |-> BaseReveal.session_id, psbt_digest |-> BaseReveal.psbt_digest,
               slots |-> slots]
    BY <1>4 DEF IsMessage
  <2>2. /\ BaseReveal.slots = [i \in 1..Len(BaseReveal.slots) |-> BaseReveal.slots[i]]
        /\ Len(BaseReveal.slots) \in Nat
    BY <1>4, SequenceShape DEF IsMessage
  <2>3. slots = [i \in 1..Len(BaseReveal.slots) |-> slots[i]]
    BY <2>2
  <2> HIDE DEF slots
  <2>4. IsSequence(slots) /\ Len(slots) # 0
    BY <1>4, <2>2, <2>3, IsSequenceIff
  <2> HIDE DEF new
  <2>5. Sendable(new)
    BY <1>4, <2>1, <2>4 DEF Sendable
  <2>6. [BaseReveal EXCEPT !.slots = [@ EXCEPT ![1] = slot]] = new
    BY DEF new, slots
  <2> QED
    BY <2>5, <2>6, EncodingIs DEF Package
<1> DEFINE Twelfth == [BaseReveal EXCEPT !.slots[1].rho = (@ + 1) % Bytes32]
           Thirteenth == [BaseReveal EXCEPT !.slots[1].opening = BaseReveal.slots[2].opening]
<1>12. Carries(Package(Twelfth, psbt))
  <2> DEFINE slot == [BaseReveal.slots[1] EXCEPT !.rho = (@ + 1) % Bytes32]
  <2>1. Twelfth = [BaseReveal EXCEPT !.slots = [@ EXCEPT ![1] = slot]]
    OBVIOUS
  <2> HIDE DEF slot, Twelfth, Carries
  <2> QED
    BY <1>11, <2>1
<1>13. Carries(Package(Thirteenth, psbt))
  <2> DEFINE slot == [BaseReveal.slots[1] EXCEPT !.opening = BaseReveal.slots[2].opening]
  <2>1. Thirteenth = [BaseReveal EXCEPT !.slots = [@ EXCEPT ![1] = slot]]
    OBVIOUS
  <2> HIDE DEF slot, Thirteenth, Carries
  <2> QED
    BY <1>11, <2>1
<1> DEFINE Foreign == CHOOSE n \in Network : n \notin DeviceNetworks
           First == Package([Base EXCEPT !.network = Foreign], psbt)
           Second == Package(BaseOpenings, Absent)
           Third == [wire EXCEPT !.network = Foreign]
           Other == ForPsbt(Mutated[case])
           Tenth == Relaid(<<1, 1, 3, 4, 5>>, "kept")
           Eleventh == Relaid(<<2, 1, 3, 4, 5>>, "kept")
           Wrong == Package(Twelfth, psbt)
           Swapped == Package(Thirteenth, psbt)
<1>14. CorpusPackage(case) \in {First, Second, Third, Other, Tenth, Eleventh, Wrong, Swapped}
  <2>1. CorpusPackage(case) =
           CASE case = "01-wrong-mainnet" -> First
             [] case = "02-wrong-stage-message-2" -> Second
             [] case = "03-outer-inner-network-mismatch" -> Third
             [] case \in DOMAIN Mutated -> Other
             [] case = "10-duplicate-slot-record" -> Tenth
             [] case = "11-reordered-slot-records" -> Eleventh
             [] case = "12-altered-host-reveal" -> Wrong
             [] case = "13-altered-signer-opening" -> Swapped
    BY Zenon DEF CorpusPackage
  <2>2. case \in DOMAIN Mutated \/ case \in
           {"01-wrong-mainnet", "02-wrong-stage-message-2", "03-outer-inner-network-mismatch",
            "10-duplicate-slot-record", "11-reordered-slot-records", "12-altered-host-reveal",
            "13-altered-signer-opening"}
    BY DEF ExpectedCheck
  <2> HIDE DEF First, Second, Third, Other, Tenth, Eleventh, Wrong, Swapped
  <2> QED
    BY <2>1, <2>2
<1>15. /\ Carries(First) /\ Carries(Second) /\ Carries(Third) /\ Carries(Other)
       /\ Carries(Tenth) /\ Carries(Eleventh) /\ Carries(Wrong) /\ Carries(Swapped)
  <2> HIDE DEF Carries, Twelfth, Thirteenth, Foreign
  <2> QED
    BY <1>5, <1>6, <1>7, <1>9, <1>10, <1>12, <1>13
<1> HIDE DEF First, Second, Third, Other, Tenth, Eleventh, Wrong, Swapped
<1>16. Carries(CorpusPackage(case))
  <2> HIDE DEF Carries
  <2> QED
    BY <1>14, <1>15
<1> QED
  BY <1>16

\* What is sent is the encoding of the message that is sent.
LEMMA SendKeeps ==
    ASSUME PackageInv, NEW by, NEW m, NEW raw, IsSequence(m.slots), Send(by, m, raw)
    PROVE  PackageInv'
<1>1. CASE Refuse(by, "encode")
  BY <1>1 DEF Refuse, PackageInv
<1>2. CASE ValidMessage(m) /\ wire' = Package(m, raw)
  <2>1. Sendable(m)
    BY <1>2, SlotLimitAssumption DEF ValidMessage, Sendable, HOST_COMMIT, SIGNER_SIGNATURES
  <2>2. IsWire(Package(m, raw).message)
    BY <2>1, EncodingIs DEF Package
  <2> QED
    BY <1>2, <2>1, <2>2 DEF PackageInv
<1> QED
  BY <1>1, <1>2 DEF Send

\* Message 4, too, has its slots in sequence.
LEMMA SignaturesShape ==
    ASSUME NEW m, IsMessage(m)
    PROVE  IsSequence(SignaturesFor(m).slots) /\ "slots" \in DOMAIN SignaturesFor(m)
<1> DEFINE f == [n \in DOMAIN m.slots |->
                  [m.slots[n] EXCEPT !.rho = Absent,
                      !.signature = AntiExfilSign(h, Secret(m.slots[n]), m.slots[n].message_hash,
                                                  m.slots[n].rho).signature]]
<1>1. SignaturesFor(m) = [m EXCEPT !.stage = 4, !.slots = f]
  BY DEF SignaturesFor, SIGNER_SIGNATURES
<1>2. f = [n \in 1..Len(m.slots) |-> f[n]] /\ Len(m.slots) \in Nat
  <2>1. DOMAIN m.slots = 1..Len(m.slots) /\ Len(m.slots) \in Nat
    BY SequenceShape DEF IsMessage
  <2>2. f = [n \in DOMAIN m.slots |-> f[n]]
    OBVIOUS
  <2> HIDE DEF f
  <2> QED
    BY <2>1, <2>2
<1> HIDE DEF f
<1>3. SignaturesFor(m) = [network |-> m.network, stage |-> 4, session_id |-> m.session_id,
                          psbt_digest |-> m.psbt_digest, slots |-> f]
  BY <1>1 DEF IsMessage
<1> QED
  BY <1>2, <1>3, IsSequenceIff

\* A step that puts no package under way leaves none to be wrong about.
LEMMA PackageGone ==
    ASSUME wire' = Absent
    PROVE  PackageInv'
  BY DEF PackageInv

\* Message 1 is one to lay out.
LEMMA HostInitPackage ==
    ASSUME PackageInv, HostInit
    PROVE  PackageInv'
<1>1. PICK slots \in {ByRoot(psbt), ByFingerprint(psbt)} :
          \/ Refuse("host", "enumerate")
          \/ Send("host", HostCommitMessage(slots, TestNetwork, SessionId, psbt, Rhos(slots)), psbt)
  BY Zenon DEF HostInit
<1> DEFINE m == HostCommitMessage(slots, TestNetwork, SessionId, psbt, Rhos(slots))
<1>2. IsSequence(m.slots)
  <2>1. Cardinality(slots) \in Nat
    BY EnumerationsFinite
  <2>2. IsMessage(m)
    BY <2>1, HostCommitIs
  <2> QED
    BY <2>2 DEF IsMessage
<1>3. CASE Refuse("host", "enumerate")
  BY <1>3, PackageGone DEF Refuse
<1>4. CASE Send("host", m, psbt)
  <2> HIDE DEF m
  <2> QED
    BY <1>2, <1>4, SendKeeps
<1> QED
  BY <1>1, <1>3, <1>4

\* So is message 3, made of what was received.
LEMMA HostAcceptOpeningsPackage ==
    ASSUME PackageInv, HostAcceptOpenings
    PROVE  PackageInv'
<1> DEFINE m == RevealFor(Received)
<1>1. \/ \E check : Refuse("host", check)
      \/ Received # Rejected /\ Send("host", m, psbt)
  BY DEF HostAcceptOpenings
<1>2. CASE \E check : Refuse("host", check)
  BY <1>2, PackageGone DEF Refuse
<1>3. CASE Received # Rejected /\ Send("host", m, psbt)
  <2>1. IsSequence(m.slots)
    <3>1. IsMessage(Received)
      BY <1>3, ReceivedIs
    <3>2. IsMessage(m)
      BY <3>1, RevealForIs
    <3> QED
      BY <3>2 DEF IsMessage
  <2> HIDE DEF m
  <2> QED
    BY <1>3, <2>1, SendKeeps
<1> QED
  BY <1>1, <1>2, <1>3

\* The host's last step leaves no package.
LEMMA HostCompletePackage ==
    ASSUME PackageInv, HostComplete
    PROVE  PackageInv'
<1>1. wire' = Absent
  BY DEF HostComplete, Refuse
<1> QED
  BY <1>1, PackageGone

\* The device's answers are made of the message it received.
LEMMA DeviceAnswersPackage ==
    ASSUME PackageInv, DeviceAnswers
    PROVE  PackageInv'
<1> DEFINE R == Received
<1>1. \/ \E check : Refuse("device", check)
      \/ /\ DeviceCheck(R) = "none"
         /\ \/ Send("device", OpeningsFor(R), Absent)
            \/ Send("device", SignaturesFor(R), Absent)
  BY DEF DeviceAnswers
<1>2. CASE \E check : Refuse("device", check)
  BY <1>2, PackageGone DEF Refuse
<1>3. CASE DeviceCheck(R) = "none" /\ Send("device", OpeningsFor(R), Absent)
  <2>1. IsMessage(R)
    BY <1>3, DevicePasses, ReceivedIs
  <2>2. IsMessage(OpeningsFor(R))
    BY <2>1, OpeningsForIs
  <2> DEFINE m == OpeningsFor(R)
  <2>3. IsSequence(m.slots)
    BY <2>2 DEF IsMessage
  <2>4. Send("device", m, Absent)
    BY <1>3
  <2> HIDE DEF m
  <2> QED
    BY <2>3, <2>4, SendKeeps
<1>4. CASE DeviceCheck(R) = "none" /\ Send("device", SignaturesFor(R), Absent)
  <2>1. IsMessage(R)
    BY <1>4, DevicePasses, ReceivedIs
  <2> DEFINE m == SignaturesFor(R)
  <2>2. IsSequence(m.slots)
    BY <2>1, SignaturesShape
  <2>3. Send("device", m, Absent)
    BY <1>4
  <2> HIDE DEF m
  <2> QED
    BY <2>2, <2>3, SendKeeps
<1> QED
  BY <1>1, <1>2, <1>3, <1>4

\* So is the message of a device that signs with a nonce of its own.
LEMMA DeviceOwnNoncePackage ==
    ASSUME PackageInv, DeviceOwnNonce
    PROVE  PackageInv'
<1> DEFINE R == Received
           honest == SignaturesFor(R)
<1>1. /\ DeviceCheck(R) = "none"
      /\ \E n, own : SendsOwn([honest EXCEPT !.slots[n].signature = own])
  BY DEF DeviceOwnNonce
<1>2. PICK n, own : SendsOwn([honest EXCEPT !.slots[n].signature = own])
  BY <1>1
<1>3. IsMessage(R)
  BY <1>1, DevicePasses, ReceivedIs
<1>4. IsSequence(honest.slots) /\ "slots" \in DOMAIN honest
  BY <1>3, SignaturesShape
<1> DEFINE m == [honest EXCEPT !.slots[n].signature = own]
<1>5. IsSequence(m.slots)
  <2> DEFINE count == Len(honest.slots)
             slots == honest.slots
             slot == [slots[n] EXCEPT !.signature = own]
  <2>1. count \in Nat /\ slots = [i \in 1..count |-> slots[i]]
    BY <1>4, SequenceShape
  <2>2. m.slots = [slots EXCEPT ![n] = slot]
    <3> HIDE DEF honest
    <3> QED
      BY <1>4
  <2> HIDE DEF m, count, slots, slot
  <2>3. m.slots = [i \in 1..count |-> m.slots[i]]
    BY <2>1, <2>2
  <2> QED
    BY <2>1, <2>3, IsSequenceIff
<1>6. ValidMessage(m) /\ wire' = Package(m, Absent) /\ altered' = "nonce"
  BY <1>2 DEF SendsOwn
<1> HIDE DEF m
<1>7. Sendable(m)
  BY <1>5, <1>6, SlotLimitAssumption DEF ValidMessage, Sendable, HOST_COMMIT, SIGNER_SIGNATURES
<1>8. IsWire(Package(m, Absent).message)
  BY <1>7, EncodingIs DEF Package
<1> QED
  BY <1>6, <1>8 DEF PackageInv

\* Damage and the corpus leave a wire, and say that they were there.
LEMMA AlterationPackage ==
    ASSUME SessionInv, PackageInv, (wire # Absent /\ Damage) \/ PresentCase
    PROVE  PackageInv'
<1>1. ASSUME NEW how, how # "no", NEW package, Alter(how, package), IsWire(package.message)
      PROVE  PackageInv'
  BY <1>1 DEF Alter, PackageInv
<1>2. CASE wire # Absent /\ Damage
  <2>1. altered = "no"
    <3>1. \E package : Alter("damage", package)
      BY <1>2 DEF Damage
    <3> QED
      BY <3>1 DEF Alter
  <2>2. PICK m, raw : wire = Package(m, raw) /\ Sendable(m)
    BY <1>2, <2>1 DEF PackageInv
  <2>3. \E package : Alter("damage", package) /\ IsWire(package.message)
    BY <1>2, <2>2, DamagedIsWire
  <2> QED
    BY <1>1, <2>3
<1>3. CASE PresentCase
  <2>1. PICK case \in DOMAIN ExpectedCheck : Alter(case, CorpusPackage(case))
    BY <1>3 DEF PresentCase
  <2>2. IsWire(CorpusPackage(case).message) /\ case # "no"
    BY <1>3, <2>1, CorpusIsWire, NoCaseIsNo
  <2> QED
    BY <1>1, <2>1, <2>2
<1> QED
  BY <1>2, <1>3

\* No package is under way at first.
LEMMA InitPackage == Init => PackageInv
  BY DEF Init, PackageInv

\* No step of the session leaves anything on the link but a wire.
LEMMA PackageSteps ==
    ASSUME SessionInv, PackageInv, [Next]_vars
    PROVE  PackageInv'
<1>1. CASE HostInit
  BY <1>1, HostInitPackage
<1>2. CASE HostAcceptOpenings
  BY <1>2, HostAcceptOpeningsPackage
<1>3. CASE HostComplete
  BY <1>3, HostCompletePackage
<1>4. CASE DeviceAnswers
  BY <1>4, DeviceAnswersPackage
<1>5. CASE DeviceOwnNonce
  BY <1>5, DeviceOwnNoncePackage
<1>6. CASE (wire # Absent /\ Damage) \/ PresentCase
  BY <1>6, AlterationPackage
<1>7. CASE UNCHANGED vars
  BY <1>7 DEF vars, PackageInv
<1> QED
  BY <1>1, <1>2, <1>3, <1>4, <1>5, <1>6, <1>7 DEF Next

\* Whatever arrives has one reading.
LEMMA ReadOneWay ==
    ASSUME SessionInv, PackageInv
    PROVE  OneReading
<1> DEFINE R == Received
<1> SUFFICES ASSUME wire # Absent, R # Rejected
             PROVE  /\ Encode(R) = wire.message
                    /\ P!ValidMessage(Meaning(R))
                    /\ \A stage \in 1..3 : sent[stage] # Absent =>
                          (ValidTransition(sent[stage], R)
                              <=> P!ValidTransition(Meaning(sent[stage]), Meaning(R)))
  BY DEF OneReading, HOST_COMMIT, HOST_REVEAL
<1>1. R = DecodeMessage(wire.message)
  BY DEF Received
<1>2. Encode(R) = wire.message
  BY <1>1, WireIsEncoding DEF PackageInv
<1>3. IsMessage(R) /\ ValidMessage(R)
  BY ReceivedIs
<1> HIDE DEF R
<1>4. P!ValidMessage(Meaning(R))
  BY <1>3, MeaningValid
<1>5. ASSUME NEW stage \in 1..3, sent[stage] # Absent
      PROVE  ValidTransition(sent[stage], R)
                <=> P!ValidTransition(Meaning(sent[stage]), Meaning(R))
  <2>1. IsMessage(sent[stage]) /\ ValidMessage(sent[stage])
    BY <1>5 DEF SessionInv, MessagesInv
  <2> QED
    BY <1>3, <2>1, TransitionMeans
<1> QED
  BY <1>2, <1>4, <1>5

\* Whatever goes wrong on the way, the codec reads what arrives in one way only: an accepted
\* package is the encoding of the message read from it, and comparing slots by position accepts
\* the transitions that comparing them by identifier does (decode_message,
\* validate_transition; protocol_v1_codec.py:111, :172).
THEOREM ReadingsAgree == Spec => []OneReading
<1>1. Init => SessionInv /\ PackageInv
  BY InitSession, InitPackage
<1>2. SessionInv /\ PackageInv /\ [Next]_vars => (SessionInv /\ PackageInv)'
  BY SessionSteps, PackageSteps
<1>3. SessionInv /\ PackageInv => OneReading
  BY ReadOneWay
<1> QED
  BY <1>1, <1>2, <1>3, PTL DEF Spec
=============================================================================
