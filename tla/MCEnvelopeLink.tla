-------------------------- MODULE MCEnvelopeLink ---------------------------
(***************************************************************************)
(* A small instance of EnvelopeLink for TLC.                               *)
(***************************************************************************)
EXTENDS EnvelopeLink, TLC

CONSTANTS a, b, c, d, e, f, g    \* octets
CONSTANTS Testnet3, Signet, Testnet4

Psbt1 == <<PsbtMagic, a>>
Psbt2 == <<PsbtMagic, b>>

\* The value of a message stands for its commitment, opening, rho or signature.
RungB(stage, value) == [protocol |-> "rung_b", stage |-> stage, network |-> Absent,
                        psbt_digest |-> ZeroDigest, value |-> value]
V1(stage, network, psbt, value) == [protocol |-> "v1", stage |-> stage, network |-> network,
                                    psbt_digest |-> Sha256(psbt), value |-> value]

MCOctet == {PsbtMagic, a, b, c, d, e, f, g}

\* The bytes of some messages begin with those of another, or look like a PSBT; of each
\* protocol two messages of one stage and length differ in their values alone.
MCEncoding ==
    (RungB(1, 0) :> <<c, d>>) @@ (RungB(2, 0) :> <<d>>) @@ (RungB(3, 0) :> <<c, d, c>>) @@
    (RungB(3, 1) :> <<c, d, d>>) @@
    (V1(1, Testnet4, Psbt1, 0) :> <<e, f>>) @@ (V1(1, Testnet4, Psbt1, 1) :> <<e, g>>) @@
    (V1(1, Testnet3, Psbt2, 0) :> <<e>>) @@ (V1(2, Signet, Psbt1, 0) :> <<f>>) @@
    (V1(4, Testnet4, Psbt1, 0) :> <<f, PsbtMagic, a>>)

MCMessage == DOMAIN MCEncoding

\* PSBTs, a truncated one, an empty one, one without the magic, an oversized one.
MCPsbt == {Psbt1, Psbt2, <<PsbtMagic>>, <<>>, <<a, a>>, <<PsbtMagic, a, a>>}
=============================================================================
