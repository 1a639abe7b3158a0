--------------------------- MODULE ProtocolV1Codec ---------------------------
(***************************************************************************)
(* The wire codec of protocol v1 (protocol_v1_codec.py) where the order of *)
(* slots and the layout of the wire matter: encode and decode_message with *)
(* their checks, and validate_transition, which pairs slots by position.   *)
(* What messages mean apart from that is module ProtocolV1.                *)
(*                                                                         *)
(* A wire is a header and one sequence of cells, the slot records without  *)
(* any mark between them; a fixed-width field is one cell (a signature is  *)
(* two), and lengths count cells.  The magic is part of the version.  A    *)
(* cell has the width of its field, as Struct and slicing see to.          *)
(***************************************************************************)
EXTENDS S2cEcdsa, FiniteSets, SequencesExt

CONSTANTS
    Absent,             \* None
    Rejected,           \* what decode_message yields where it raises
    Network,            \* Network
    MaxSlots,           \* MAX_SLOTS
    MaxSlotsPerInput    \* MAX_SLOTS_PER_INPUT

ASSUME SlotLimitAssumption == MaxSlots \in Nat

HOST_COMMIT       == 1
SIGNER_OPENINGS   == 2
HOST_REVEAL       == 3
SIGNER_SIGNATURES == 4

SIGHASH_ALL == 1
FORMAT_VERSION == 1
FLAGS == 0

-----------------------------------------------------------------------------
(***************************************************************************)
(* What a message must be                                                  *)
(***************************************************************************)

Identifier(slot) == <<slot.input_index, slot.signer_pubkey>>

\* Tuples of Python: by input index, then by compressed key.
Precedes(id, other) == id[1] < other[1] \/ (id[1] = other[1] /\ id[2] < other[2])

\* _require_bytes for 32 octets, and _require_point.  A commitment is known by any number.
Octets32 == 0..(Bytes32 - 1)
IsPoint(encoded) == encoded \in Nat /\ ParsePoint(encoded) # Invalid

ValidSlot(stage, slot) ==
    /\ slot.input_index \in Nat /\ slot.sighash_type = SIGHASH_ALL
    /\ IsPoint(slot.signer_pubkey)
    /\ slot.message_hash \in Octets32 /\ slot.commitment \in Nat
    /\ (slot.opening # Absent) <=> (stage >= SIGNER_OPENINGS)
    /\ (slot.rho # Absent) <=> (stage = HOST_REVEAL)
    /\ (slot.signature # Absent) <=> (stage = SIGNER_SIGNATURES)
    /\ slot.opening # Absent => IsPoint(slot.opening)
    /\ slot.rho # Absent => slot.rho \in Octets32
    /\ slot.signature # Absent =>
          slot.signature.r \in 1..(GroupN - 1) /\ slot.signature.s \in 1..(GroupN \div 2)

\* (Fault: the order of the slots is not looked at.)
OrderedAnyhow(slots) == TRUE

Ordered(slots) ==
    \A n \in 1..(Len(slots) - 1) : Precedes(Identifier(slots[n]), Identifier(slots[n + 1]))

ValidMessage(m) ==
    LET slots == m.slots
    IN  /\ m.network \in Network /\ m.stage \in HOST_COMMIT..SIGNER_SIGNATURES
        /\ Len(slots) \in 1..MaxSlots
        /\ \A n \in DOMAIN slots : ValidSlot(m.stage, slots[n])
        /\ Ordered(slots)
        /\ \A n \in DOMAIN slots : \A k \in 1..(n - 1) :
              /\ slots[k].commitment # slots[n].commitment
              /\ slots[n].rho # Absent => slots[k].rho # slots[n].rho
              /\ (slots[n].opening # Absent /\ slots[k].signer_pubkey = slots[n].signer_pubkey)
                    => slots[k].opening # slots[n].opening
        /\ \A n \in DOMAIN slots :
              Cardinality({k \in 1..n : slots[k].input_index = slots[n].input_index})
                  <= MaxSlotsPerInput

-----------------------------------------------------------------------------
(***************************************************************************)
(* The wire                                                                *)
(***************************************************************************)

COMMON_RECORD == 5                      \* cells of COMMON_RECORD
EXTRA_LENGTHS == <<0, 1, 2, 3>>         \* _EXTRA_LENGTHS by stage

RecordLength(stage) == COMMON_RECORD + EXTRA_LENGTHS[stage]

EncodeSlot(stage, slot) ==
    <<slot.input_index, slot.sighash_type, slot.signer_pubkey, slot.message_hash,
      slot.commitment>>
    \o (IF stage >= SIGNER_OPENINGS THEN <<slot.opening>> ELSE << >>)
    \o (IF stage = HOST_REVEAL THEN <<slot.rho>> ELSE << >>)
    \o (IF stage = SIGNER_SIGNATURES THEN <<slot.signature.r, slot.signature.s>> ELSE << >>)

Encode(m) ==
    LET records == FlattenSeq([n \in DOMAIN m.slots |-> EncodeSlot(m.stage, m.slots[n])])
    IN  [version |-> FORMAT_VERSION, network |-> m.network, stage |-> m.stage, flags |-> FLAGS,
         payload_length |-> Len(records), session_id |-> m.session_id,
         psbt_digest |-> m.psbt_digest, slot_count |-> Len(m.slots), records |-> records]

DecodeSlot(stage, cells) ==
    [input_index |-> cells[1], sighash_type |-> cells[2], signer_pubkey |-> cells[3],
     message_hash |-> cells[4], commitment |-> cells[5],
     opening   |-> IF stage >= SIGNER_OPENINGS THEN cells[6] ELSE Absent,
     rho       |-> IF stage = HOST_REVEAL THEN cells[7] ELSE Absent,
     signature |-> IF stage = SIGNER_SIGNATURES THEN [r |-> cells[7], s |-> cells[8]]
                                                ELSE Absent]

\* (Fault: only the length of what arrived is looked at, not the one the header states.)
HeaderValidAnyLength(w) ==
    /\ w.version = FORMAT_VERSION /\ w.flags = FLAGS
    /\ w.network \in Network /\ w.stage \in HOST_COMMIT..SIGNER_SIGNATURES
    /\ w.slot_count \in 1..MaxSlots
    /\ Len(w.records) = w.slot_count * RecordLength(w.stage)

HeaderValid(w) ==
    /\ w.version = FORMAT_VERSION /\ w.flags = FLAGS
    /\ w.network \in Network /\ w.stage \in HOST_COMMIT..SIGNER_SIGNATURES
    /\ w.slot_count \in 1..MaxSlots
    /\ w.payload_length = w.slot_count * RecordLength(w.stage)
    /\ Len(w.records) = w.payload_length

Decoded(w) ==
    LET length == RecordLength(w.stage)
    IN  [network |-> w.network, stage |-> w.stage, session_id |-> w.session_id,
         psbt_digest |-> w.psbt_digest,
         slots |-> [n \in 1..w.slot_count |->
             DecodeSlot(w.stage, SubSeq(w.records, (n - 1) * length + 1, n * length))]]

DecodeMessage(w) ==
    IF ~HeaderValid(w) THEN Rejected
    ELSE IF ValidMessage(Decoded(w)) THEN Decoded(w) ELSE Rejected

-----------------------------------------------------------------------------
(***************************************************************************)
(* Transitions                                                             *)
(***************************************************************************)

ValidTransition(previous, current) ==
    /\ previous.stage < SIGNER_SIGNATURES
    /\ current.stage = previous.stage + 1
    /\ <<previous.network, previous.session_id, previous.psbt_digest>>
          = <<current.network, current.session_id, current.psbt_digest>>
    /\ Len(previous.slots) = Len(current.slots)
    /\ \A n \in DOMAIN current.slots :
          LET before == previous.slots[n]
              after  == current.slots[n]
          IN  /\ Identifier(before) = Identifier(after)
              /\ before.message_hash = after.message_hash
              /\ before.sighash_type = after.sighash_type
              /\ before.commitment = after.commitment
              /\ previous.stage >= SIGNER_OPENINGS => before.opening = after.opening
              /\ current.stage = HOST_REVEAL => HostCommit(after.rho) = after.commitment
=============================================================================
