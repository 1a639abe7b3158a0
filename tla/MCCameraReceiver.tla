-------------------------- MODULE MCCameraReceiver --------------------------
(***************************************************************************)
(* A small instance of CameraReceiver for TLC.                             *)
(***************************************************************************)
EXTENDS CameraReceiver, TLC

CONSTANTS
    Testnet3, Testnet4,
    a, b, c, d, e,                             \* octets
    wanted, stale, rungb, foreign, unread, partial   \* streams

Psbt1 == <<PsbtMagic, a>>

RungB(stage) == [protocol |-> "rung_b", stage |-> stage, network |-> Absent,
                 psbt_digest |-> ZeroDigest]
V1(stage, network) == [protocol |-> "v1", stage |-> stage, network |-> network,
                       psbt_digest |-> Sha256(Psbt1)]

MCOctet == {PsbtMagic, a, b, c, d, e}

MCEncoding == (RungB(1) :> <<b>>) @@ (RungB(2) :> <<e>>) @@
              (V1(2, Testnet4) :> <<c>>) @@ (V1(4, Testnet4) :> <<d>>)

MCMessage == DOMAIN MCEncoding

PackageWith(message, network, psbt) ==
    Packed([message |-> message, network |-> network, psbt |-> psbt])

Answer  == PackageWith(V1(2, Testnet4), Testnet4, Absent)
Earlier == PackageWith(V1(4, Testnet4), Testnet4, Absent)
Request == PackageWith(RungB(1), Testnet3, Psbt1)
Reply   == PackageWith(RungB(2), Testnet3, Absent)

\* The awaited answer, a package of another stage, rung B packages
\* with and without PSBT, a stream of other CBOR, and one that is never shown in full.
AllFragments ==
    (wanted :> 2) @@ (stale :> 2) @@ (rungb :> 1) @@ (foreign :> 1)
        @@ (unread :> 1) @@ (partial :> 2)

AllContent ==
    (wanted :> Answer) @@ (stale :> Earlier) @@ (rungb :> Request)
        @@ (foreign :> Reply) @@ (unread :> NotByteString) @@ (partial :> Earlier)

MCFragments == Restrict(AllFragments, Stream)
MCContent   == Restrict(AllContent, Stream)

MCShown == {<<s, i>> \in Stream \X (1..2) : i <= AllFragments[s] /\ <<s, i>> # <<partial, 2>>}

Asks(protocol, stage, network, message, psbt) ==
    [protocol |-> protocol, expected_stage |-> stage, expected_network |-> network,
     message_output |-> message, psbt_output |-> psbt]

MCArguments ==
    {Asks("v1", 2, Testnet4, TRUE, FALSE), Asks("rung_b", Absent, Testnet3, TRUE, TRUE),
     Asks("rung_b", Absent, Absent, FALSE, TRUE)}
=============================================================================
