----------------------------- MODULE ProtocolV1 -----------------------------
(***************************************************************************)
(* The frozen multi-slot protocol v1 (AEXB): its four messages, the checks *)
(* the codec makes on each of them and on each adjacent pair, and the      *)
(* answers a signer can give.  Nothing here has state: the coordinator     *)
(* modules EXTEND this one.                                                *)
(*                                                                         *)
(* A slot collection on the wire is a tuple strictly ordered by            *)
(* (input index, signer public key); it is kept here as the function from  *)
(* those identifiers to slot records that the tuple denotes.  The order    *)
(* and the bytes themselves belong to the codec.                           *)
(***************************************************************************)
EXTENDS AntiExfilCrypto, Naturals, FiniteSets

CONSTANTS
    MaxSlots,           \* MAX_SLOTS: slots in one message
    MaxSlotsPerInput    \* MAX_SLOTS_PER_INPUT: slots of one transaction input

ASSUME LimitsAssumption ==
    /\ MaxSlots \in Nat \ {0}
    /\ MaxSlotsPerInput \in Nat \ {0}

-----------------------------------------------------------------------------
(***************************************************************************)
(* Stages, identifiers and slot records.                                   *)
(***************************************************************************)

HOST_COMMIT       == 1
SIGNER_OPENINGS   == 2
HOST_REVEAL       == 3
SIGNER_SIGNATURES == 4

\* SigningSlot.identifier is the pair (input index, signer public key).
InputOf(id) == id[1]
KeyOf(id)   == id[2]

\* A PSBT digest and an identifier determine the hash the slot signs.
MessageHash(psbt, id) == [psbt |-> psbt, input |-> InputOf(id)]

-----------------------------------------------------------------------------
(***************************************************************************)
(* What the codec accepts.                                                 *)
(***************************************************************************)

\* Which optional fields a slot of each stage carries.
ValidSlot(stage, slot) ==
    /\ (slot.opening # Absent) <=> (stage >= SIGNER_OPENINGS)
    /\ (slot.rho # Absent) <=> (stage = HOST_REVEAL)
    /\ (slot.signature # Absent) <=> (stage = SIGNER_SIGNATURES)

ValidMessage(m) ==
    LET ids == DOMAIN m.slots
    IN  /\ m.stage \in HOST_COMMIT..SIGNER_SIGNATURES
        /\ Cardinality(ids) \in 1..MaxSlots
        /\ \A i \in ids :
              /\ ValidSlot(m.stage, m.slots[i])
              /\ Cardinality({j \in ids : InputOf(j) = InputOf(i)}) <= MaxSlotsPerInput
        /\ \A i, j \in ids : i # j =>
              /\ m.slots[i].commitment # m.slots[j].commitment
              /\ m.stage = HOST_REVEAL => m.slots[i].rho # m.slots[j].rho
              /\ (m.stage >= SIGNER_OPENINGS /\ KeyOf(i) = KeyOf(j))
                    => m.slots[i].opening # m.slots[j].opening

\* (Fault: the accepted opening is not compared.)
SlotTransitionAnyOpening(previous, current, i) ==
    /\ previous.slots[i].hash = current.slots[i].hash
    /\ previous.slots[i].commitment = current.slots[i].commitment

SlotTransition(previous, current, i) ==
    LET before == previous.slots[i]
        after  == current.slots[i]
    IN  /\ before.hash = after.hash
        /\ before.commitment = after.commitment
        /\ previous.stage >= SIGNER_OPENINGS => before.opening = after.opening

RevealsCommitment(current, i) ==
    HostCommit(current.slots[i].rho) = current.slots[i].commitment

ValidTransition(previous, current) ==
    /\ previous.stage < SIGNER_SIGNATURES
    /\ current.stage = previous.stage + 1
    /\ current.network = previous.network
    /\ current.session = previous.session
    /\ current.psbt = previous.psbt
    /\ DOMAIN current.slots = DOMAIN previous.slots
    /\ \A i \in DOMAIN current.slots :
          /\ SlotTransition(previous, current, i)
          /\ current.stage = HOST_REVEAL => RevealsCommitment(current, i)

-----------------------------------------------------------------------------
(***************************************************************************)
(* The messages the host builds.                                           *)
(***************************************************************************)

CommitMessage(network, session, psbt, rhos) ==
    [stage |-> HOST_COMMIT, network |-> network, session |-> session, psbt |-> psbt,
     slots |-> [i \in DOMAIN rhos |->
                  [hash |-> MessageHash(psbt, i), commitment |-> HostCommit(rhos[i]),
                   opening |-> Absent, rho |-> Absent, signature |-> Absent]]]

RevealMessage(openings, rhos) ==
    [openings EXCEPT
        !.stage = HOST_REVEAL,
        !.slots = [i \in DOMAIN openings.slots |->
                      [openings.slots[i] EXCEPT !.rho = rhos[i]]]]

-----------------------------------------------------------------------------
(***************************************************************************)
(* The messages signers send.  The reference signer answers with variant 0 *)
(* in every slot of the request; any other choice of variants, and any     *)
(* answer over fewer slots, is a different signer's or a truncated one.    *)
(***************************************************************************)

OpeningsMessage(commit, variant) ==
    [commit EXCEPT
        !.stage = SIGNER_OPENINGS,
        !.slots = [i \in DOMAIN variant |->
                      [commit.slots[i] EXCEPT !.opening =
                          NoncePoint(KeyOf(i), commit.slots[i].hash,
                                     commit.slots[i].commitment, variant[i])]]]

\* Per slot: the variant of the opening it echoes, the variant of the nonce point it
\* really signs with, and whether it tweaks that nonce by the revealed rho.  A signer
\* that follows the protocol echoes and signs with its message 2 opening, tweaked.
SignaturesMessage(reveal, variant) ==
    [reveal EXCEPT
        !.stage = SIGNER_SIGNATURES,
        !.slots =
            [i \in DOMAIN variant |->
                LET s == reveal.slots[i]
                    choice == variant[i]
                    point(v) == NoncePoint(KeyOf(i), s.hash, s.commitment, v)
                IN  [s EXCEPT !.opening = point(choice.echoed),
                              !.rho = Absent,
                              !.signature =
                                  AntiExfilSignature(KeyOf(i), s.hash,
                                                     IF choice.tweaked THEN s.rho ELSE Absent,
                                                     point(choice.signed))]]]
=============================================================================
