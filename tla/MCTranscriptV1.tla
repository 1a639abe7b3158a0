--------------------------- MODULE MCTranscriptV1 ---------------------------
(***************************************************************************)
(* A small instance of TranscriptV1 for TLC, over the curve                *)
(* y^2 = x^3 + 7 modulo 43, whose group has 31 elements.  The PSBTs are    *)
(* the fixture of psbt_v1_fixtures.py, the mutations of it in the corpus,  *)
(* and one PSBT for each other thing an enumeration looks at.              *)
(***************************************************************************)
EXTENDS TranscriptV1

CONSTANTS Testnet4, Mainnet, s1, s2

MCGenerator == [x |-> 2, y |-> 12]

\* Hashes and nonce blocks of a choice of hash functions.  A wide choice has tweaks beyond
\* the group order; a third block is always a candidate.
MCDataHash(rho) == 1000 + rho
MCPointHash(hash, opening, rho) ==
    (5 * opening + 3 * rho + 7 * hash.seed + 1) % (IF hash.wide THEN Bytes32 ELSE GroupN)
MCNonceBlocks(hash, secret, digest, data) ==
    LET mix == 7 * secret + 11 * digest + 13 * data + 17 * hash.seed
    IN  <<(mix * mix + hash.seed) % Bytes32, (3 * mix + 5) % Bytes32, 1 + (mix % (GroupN - 1))>>

MCRho(id) == (11 * id[1] + 5 * id[2] + 7) % Bytes32

-----------------------------------------------------------------------------
\* Paths 0..4 are the controlled ones of the fixture.
MCRoot == [fingerprint |-> "ours", secret |-> <<9, 4, 26, 17>> @@ (0 :> 5)]

\* The public keys, computed beforehand: TLC's coverage expands a definition where it is used.
PublicKeys == <<148, 149, 204, 226>> @@ (0 :> 140)
ExternalKeys == <<170, 212>> @@ (0 :> 168)

ASSUME PublicKeysAssumption ==
    /\ \A path \in 0..4 : PublicKeys[path] = PublicKey(MCRoot.secret[path])
    /\ \A n \in 0..2 : ExternalKeys[n] = PublicKey(20 + n)

Key(path) == PublicKeys[path]
External(n) == ExternalKeys[n]

Origin(fingerprint, path) == [fingerprint |-> fingerprint, path |-> path]
Ours(paths) ==
    [key \in {Key(path) : path \in paths} |->
        Origin("ours", CHOOSE path \in paths : Key(path) = key)]

Scope(index, script, derivations) ==
    [taproot |-> FALSE, prevout |-> [txid |-> index, vout |-> index],
     non_witness_utxo |-> Absent, witness_utxo |-> script,
     redeem_script |-> Absent, witness_script |-> Absent, sighash_type |-> SIGHASH_ALL,
     bip32_derivations |-> derivations, partial_sigs |-> {}, finalized |-> FALSE,
     sighash |-> 40 + index]

NativeMulti == Multisig(2, <<Key(2), External(0), Key(3)>>)
NestedMulti == Multisig(2, <<External(1), Key(4), External(2)>>)

MCFixture ==
    (0 :> Scope(0, P2wpkh(Key(0)), Ours({0})))
    @@ (1 :> [Scope(1, P2sh(P2wpkh(Key(1))), Ours({1})) EXCEPT !.redeem_script = P2wpkh(Key(1))])
    @@ (2 :> [Scope(2, P2wsh(NativeMulti), Ours({2, 3})) EXCEPT !.witness_script = NativeMulti])
    @@ (3 :> [Scope(3, P2sh(P2wsh(NestedMulti)), Ours({4})) EXCEPT
                 !.redeem_script = P2wsh(NestedMulti), !.witness_script = NestedMulti])

MCMutated ==
    ("04-truncated-psbt" :> "truncated")
    @@ [slug \in {"05-missing-utxo", "06-broken-witness-script", "07-wrong-derivation-path",
                  "08-unsupported-sighash-none", "09-mixed-taproot-input"} |-> slug]

MutatedPsbts ==
    ("05-missing-utxo" :> [MCFixture EXCEPT ![0].witness_utxo = Absent])
    @@ ("06-broken-witness-script" :> [MCFixture EXCEPT ![2].witness_script = [type |-> "op_1"]])
    @@ ("07-wrong-derivation-path" :>
          [MCFixture EXCEPT ![0].bip32_derivations = Key(0) :> Origin("ours", 1)])
    @@ ("08-unsupported-sighash-none" :> [MCFixture EXCEPT ![0].sighash_type = SIGHASH_NONE])
    @@ ("09-mixed-taproot-input" :> [MCFixture EXCEPT ![3].witness_utxo = P2tr(Key(0))])

\* One or two P2WPKH inputs, and what else a PSBT may hold.
Single == 0 :> Scope(0, P2wpkh(Key(0)), Ours({0}))
Twice  == Single @@ (1 :> Scope(1, P2wpkh(Key(0)), Ours({0})))
Legacy(txid, script) == [txid |-> txid, vout |-> 0 :> script]
ManyKeys == Multisig(1, <<Key(0), Key(1), Key(2), Key(3)>>)
SameKey == Multisig(1, <<Key(0), Key(0)>>)
Miscounted == [Multisig(1, <<Key(0)>>) EXCEPT !.declared = 2]

WitnessScript(script, paths) ==
    0 :> [Scope(0, P2wsh(script), Ours(paths)) EXCEPT !.witness_script = script]

OtherPsbts ==
    ("single" :> Single)
    @@ ("twice" :> Twice)
    @@ ("default sighash" :> [Single EXCEPT ![0].sighash_type = Absent])
    @@ ("legacy" :> [Single EXCEPT ![0].non_witness_utxo = Legacy(0, P2wpkh(Key(0)))])
    @@ ("legacy alone" :> [Single EXCEPT ![0].non_witness_utxo = Legacy(0, P2wpkh(Key(0))),
                                        ![0].witness_utxo = Absent])
    @@ ("legacy of another" :> [Single EXCEPT ![0].non_witness_utxo = Legacy(7, P2wpkh(Key(0)))])
    @@ ("legacy differs" :> [Single EXCEPT ![0].non_witness_utxo = Legacy(0, P2wpkh(Key(1)))])
    @@ ("output not there" :> [Single EXCEPT ![0].prevout.vout = 1,
                                  ![0].non_witness_utxo = Legacy(0, P2wpkh(Key(0)))])
    @@ ("taproot fields" :> [Single EXCEPT ![0].taproot = TRUE])
    @@ ("wrong redeem script" :> [Single EXCEPT ![0].redeem_script = P2wpkh(Key(0))])
    @@ ("already signed" :> [Single EXCEPT ![0].partial_sigs = {Key(0)}])
    @@ ("finalized" :> [Single EXCEPT ![0].finalized = TRUE])
    @@ ("not ours" :> [Single EXCEPT ![0].bip32_derivations = Key(0) :> Origin("theirs", 0)])
    @@ ("foreign key" :> [Single EXCEPT ![0].bip32_derivations = Ours({0, 1})])
    @@ ("no path" :> [Single EXCEPT ![0].bip32_derivations = Key(0) :> Origin("ours", 9)])
    @@ ("many keys" :> WitnessScript(ManyKeys, {0, 1, 2, 3}))
    @@ ("same key" :> WitnessScript(SameKey, {0}))
    @@ ("miscounted" :> WitnessScript(Miscounted, {0}))
    @@ ("too many slots" :>
          (MCFixture @@ (4 :> Scope(4, P2wpkh(Key(0)), Ours({0})))))

MCPsbtOf == ("fixture" :> MCFixture) @@ MutatedPsbts @@ OtherPsbts

Narrow(seeds) == [seed : seeds, wide : {FALSE}]
Wide(seeds) == [seed : seeds, wide : {TRUE}]

MCScenario ==
    [psbt : {"fixture"}, h : Narrow({1, 2})]
    \union [psbt : {"single", "twice"}, h : Narrow(0..63) \union Wide(0..63)]
    \union [psbt : DOMAIN MCPsbtOf \union {"truncated"}, h : Narrow({1})]

MCJunk == {0, 1, 2, 63}
MCExposed == {"fixture"}
MCOwnNonces == 1..(GroupN - 1)
=============================================================================
