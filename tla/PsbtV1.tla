------------------------------- MODULE PsbtV1 -------------------------------
(***************************************************************************)
(* The strict reading of a PSBT v0 (psbt_v1.py): which scripts, keys and   *)
(* inputs are accepted, the three enumerations of signing slots, of the    *)
(* root's owner, of a fingerprint and of a received message, and the first *)
(* message and the import of signatures built on them.                     *)
(*                                                                         *)
(* A PSBT is what embit parses it to: a function from input indices to     *)
(* scopes.  A script is a record that says what it pays to; paying to a    *)
(* hash of a script names the script.  Enumerations are sets of slots, {}  *)
(* where the code raises; a message lists them by identifier.              *)
(***************************************************************************)
EXTENDS ProtocolV1Codec

CONSTANTS
    MaxMultisigKeys,   \* the 16 of _parse_multisig
    SIGHASH_NONE       \* any sighash type but ALL

ASSUME MultisigAssumption ==
    MaxMultisigKeys \in Nat \ {0} /\ MaxSlotsPerInput \in Nat /\ MaxMultisigKeys <= MaxSlotsPerInput

P2wpkh(key)   == [type |-> "p2wpkh", key |-> key]
P2sh(script)  == [type |-> "p2sh", script |-> script]
P2wsh(script) == [type |-> "p2wsh", script |-> script]
Multisig(required, keys) ==
    [type |-> "multisig", required |-> required, declared |-> Len(keys), keys |-> keys]
P2tr(key) == [type |-> "p2tr", key |-> key]

-----------------------------------------------------------------------------
(***************************************************************************)
(* One input                                                               *)
(***************************************************************************)

UtxoAgrees(scope) ==
    scope.non_witness_utxo # Absent =>
        LET legacy == scope.non_witness_utxo
        IN  /\ legacy.txid = scope.prevout.txid
            /\ scope.prevout.vout \in DOMAIN legacy.vout
            /\ scope.witness_utxo \in {Absent, legacy.vout[scope.prevout.vout]}

Utxo(scope) ==
    IF scope.non_witness_utxo # Absent THEN scope.non_witness_utxo.vout[scope.prevout.vout]
                                       ELSE scope.witness_utxo

\* The version 0 program that is spent: the output's own, or the one it pays to by P2SH.
Program(scope) ==
    LET outer == Utxo(scope)
    IN  IF scope.redeem_script = Absent THEN outer
        ELSE IF outer = P2sh(scope.redeem_script) THEN scope.redeem_script
        ELSE Absent

ParsesAsMultisig(script) ==
    /\ script.type = "multisig"
    /\ script.declared = Len(script.keys)
    /\ 1 <= script.required /\ script.required <= script.declared
    /\ script.declared <= MaxMultisigKeys
    /\ IsInjective(script.keys)
    /\ \A n \in DOMAIN script.keys : ParsePoint(script.keys[n]) # Invalid

\* What embit parses a scope to: the keys of a multisig script in a sequence, and for the
\* declared keys only points.
WellFormed(scope) ==
    /\ scope.witness_script # Absent /\ ParsesAsMultisig(scope.witness_script) =>
          scope.witness_script.keys \in Seq(Int)
    /\ \A key \in DOMAIN scope.bip32_derivations : IsPoint(key)
    /\ scope.sighash \in Octets32

\* The keys of a supported script, {} for any other: the one declared key that a P2WPKH
\* program pays to, or those of the multisig script that a P2WSH program pays to.
SigningKeys(scope) ==
    LET program == Program(scope)
    IN  IF program = Absent THEN {}
        ELSE IF program.type = "p2wpkh" /\ scope.witness_script = Absent
        THEN {key \in DOMAIN scope.bip32_derivations : P2wpkh(key) = program}
        ELSE IF /\ program.type = "p2wsh" /\ scope.witness_script # Absent
                /\ program = P2wsh(scope.witness_script)
                /\ ParsesAsMultisig(scope.witness_script)
        THEN ToSet(scope.witness_script.keys)
        ELSE {}

\* The checks every enumeration makes of every input.
Supported(scope) ==
    /\ ~scope.taproot
    /\ UtxoAgrees(scope) /\ Utxo(scope) # Absent
    /\ SigningKeys(scope) # {}
    /\ scope.sighash_type \in {Absent, SIGHASH_ALL}
    /\ DOMAIN scope.bip32_derivations \subseteq SigningKeys(scope)

\* No controlled key has signed, and with any of them the input is not finalized.
Unsigned(scope, keys) == keys \cap scope.partial_sigs = {} /\ (keys # {} => ~scope.finalized)

-----------------------------------------------------------------------------
(***************************************************************************)
(* The whole PSBT                                                          *)
(***************************************************************************)

Controlled(scope, fingerprint) ==
    {key \in DOMAIN scope.bip32_derivations :
        scope.bip32_derivations[key].fingerprint = fingerprint}

SlotsOf(psbt, fingerprint) ==
    UNION {{[input_index |-> i, signer_pubkey |-> key, message_hash |-> psbt[i].sighash] :
               key \in Controlled(psbt[i], fingerprint)} : i \in DOMAIN psbt}

\* A root is what is needed of it: its fingerprint and the secrets at the paths used.
Derives(root, path, key) == path \in DOMAIN root.secret /\ PublicKey(root.secret[path]) = key

EnumerateForFingerprint(psbt, fingerprint) ==
    LET slots == SlotsOf(psbt, fingerprint)
    IN  IF /\ \A i \in DOMAIN psbt :
                 Supported(psbt[i]) /\ Unsigned(psbt[i], Controlled(psbt[i], fingerprint))
           /\ Cardinality(slots) <= MaxSlots
        THEN slots ELSE {}

PathsDerive(psbt, root) ==
    \A i \in DOMAIN psbt : \A key \in Controlled(psbt[i], root.fingerprint) :
        Derives(root, psbt[i].bip32_derivations[key].path, key)

EnumerateSigningSlots(psbt, root) ==
    LET slots == SlotsOf(psbt, root.fingerprint)
    IN  IF /\ \A i \in DOMAIN psbt :
                 Supported(psbt[i]) /\ Unsigned(psbt[i], Controlled(psbt[i], root.fingerprint))
           /\ PathsDerive(psbt, root)
           /\ Cardinality(slots) <= MaxSlots
           /\ \A i \in DOMAIN psbt :
                 Cardinality({slot \in slots : slot.input_index = i}) <= MaxSlotsPerInput
        THEN slots ELSE {}

\* validate_protocol_slots: every record is a slot of the PSBT, and in its order.
ProtocolSlotsValid(psbt, records) ==
    LET requested(i) == {records[n].signer_pubkey :
                            n \in {n \in DOMAIN records : records[n].input_index = i}}
    IN  /\ \A i \in DOMAIN psbt :
              /\ Supported(psbt[i])
              /\ LET keys == requested(i) \cap SigningKeys(psbt[i])
                 IN  keys \subseteq DOMAIN psbt[i].bip32_derivations /\ Unsigned(psbt[i], keys)
        /\ Ordered(records)
        /\ \A n \in DOMAIN records :
              /\ records[n].input_index \in DOMAIN psbt
              /\ records[n].signer_pubkey \in SigningKeys(psbt[records[n].input_index])
              /\ records[n].message_hash = psbt[records[n].input_index].sighash
              /\ records[n].sighash_type = SIGHASH_ALL

-----------------------------------------------------------------------------
(***************************************************************************)
(* Messages and the signed PSBT                                            *)
(***************************************************************************)

\* The order of sort(key=identifier); identifiers are distinct.
InOrder(slots) ==
    [n \in 1..Cardinality(slots) |->
        CHOOSE slot \in slots :
            n = 1 + Cardinality({t \in slots : Precedes(Identifier(t), Identifier(slot))})]

\* build_host_commit_message on the slots its caller enumerated.
HostCommitMessage(slots, network, session_id, digest, rhos) ==
    [network |-> network, stage |-> HOST_COMMIT, session_id |-> session_id,
     psbt_digest |-> digest,
     slots |-> [n \in 1..Cardinality(slots) |->
         LET slot == InOrder(slots)[n]
         IN  [input_index |-> slot.input_index, signer_pubkey |-> slot.signer_pubkey,
              message_hash |-> slot.message_hash, sighash_type |-> SIGHASH_ALL,
              commitment |-> HostCommit(rhos[Identifier(slot)]),
              opening |-> Absent, rho |-> Absent, signature |-> Absent]]]

\* reconstruct_signed_psbt_v1 without a root: what makes it raise, and what it adds.
Reconstructs(h, psbt, digest, commit, signatures, rhos) ==
    /\ ProtocolSlotsValid(psbt, commit.slots)
    /\ commit.psbt_digest = digest
    /\ DOMAIN rhos = {Identifier(commit.slots[n]) : n \in DOMAIN commit.slots}
    /\ \A n \in DOMAIN commit.slots :
          HostCommit(rhos[Identifier(commit.slots[n])]) = commit.slots[n].commitment
    /\ signatures.stage = SIGNER_SIGNATURES
    /\ <<signatures.network, signatures.session_id, signatures.psbt_digest>>
          = <<commit.network, commit.session_id, commit.psbt_digest>>
    /\ Len(signatures.slots) = Len(commit.slots)
    /\ \A n \in DOMAIN commit.slots :
          LET before == commit.slots[n]
              after  == signatures.slots[n]
          IN  /\ Identifier(before) = Identifier(after)
              /\ <<before.message_hash, before.sighash_type, before.commitment>>
                    = <<after.message_hash, after.sighash_type, after.commitment>>
              /\ VerifyAntiExfil(h, after.signer_pubkey, after.message_hash,
                                 rhos[Identifier(before)], after.opening, after.signature)

PartialSignatures(signatures) ==
    {[input_index |-> signatures.slots[n].input_index,
      signer_pubkey |-> signatures.slots[n].signer_pubkey,
      signature |-> signatures.slots[n].signature] : n \in DOMAIN signatures.slots}
=============================================================================
