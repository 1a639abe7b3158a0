---------------------------- MODULE TranscriptV1 ----------------------------
(***************************************************************************)
(* One session of protocol v1 as it crosses the link, in the code's own    *)
(* data: PSBTs are enumerated, slots are ordered and laid out on a wire,   *)
(* nonces and signatures are computed.  The host is coordinator_v1.py run  *)
(* once through (its files and retries are module CoordinatorV1); the      *)
(* signer is a stateless device outside this repository that answers as    *)
(* the vector generators do and refuses where the adversarial corpus       *)
(* (adversarial_device_v1.py) says it must.  One thing may go wrong on the *)
(* way: cells or records change, a package is replaced by one of the       *)
(* corpus, or the device signs with a nonce of its own (adversarial.py).   *)
(***************************************************************************)
EXTENDS PsbtV1

CONSTANTS
    PsbtOf,          \* [raw PSBTs that parse_psbt_v0 accepts -> what it parses them to]
    Root,            \* the device's root
    Scenario,        \* [psbt, h]: the PSBTs and the hash functions to choose from
    Fixture,         \* the raw PSBT of build_multiscript_fixture
    Mutated,         \* [slugs of the corpus -> raw PSBTs]
    Rho(_),          \* the rho the host draws for an identifier
    SessionId, OtherSession,
    TestNetwork,     \* the network of the host's sessions
    DeviceNetworks,  \* the networks of the device's setting
    Junk,            \* cells that a damaged wire may hold
    Exposed,         \* the PSBTs in whose sessions something may go wrong
    OwnNonces        \* nonces a dishonest device may sign with

VARIABLES
    psbt,       \* the raw PSBT the host was given
    h,          \* the hash functions
    sent,       \* [stage -> message]: the host's and the device's messages so far
    wire,       \* the package under way, or Absent
    altered,    \* "no", or what went wrong
    refusal,    \* Absent, or who refused and at which check
    signed      \* Absent, or the partial signatures imported

vars == <<psbt, h, sent, wire, altered, refusal, signed>>

ASSUME TranscriptAssumption ==
    /\ \A raw \in DOMAIN PsbtOf :
          /\ IsFiniteSet(DOMAIN PsbtOf[raw])
          /\ \A i \in DOMAIN PsbtOf[raw] : WellFormed(PsbtOf[raw][i])
    /\ "no" \notin DOMAIN Mutated

\* The device is set for the network of the sessions; its secrets are scalars; the rhos of a
\* session, and their commitments, are distinct.
ASSUME SettingAssumption ==
    /\ TestNetwork \in Network \intersect DeviceNetworks
    /\ \A path \in DOMAIN Root.secret : Root.secret[path] \in 1..(GroupN - 1)
    /\ \A raw \in DOMAIN PsbtOf : DOMAIN PsbtOf[raw] \subseteq Nat
    /\ \A raw \in DOMAIN PsbtOf :
          LET ids == {Identifier(slot) :
                         slot \in EnumerateForFingerprint(PsbtOf[raw], Root.fingerprint)}
          IN  \A id, other \in ids :
                 /\ Rho(id) \in Octets32
                 /\ id # other => Rho(id) # Rho(other) /\ HostCommit(Rho(id)) # HostCommit(Rho(other))
    /\ Absent \notin Nat \union DOMAIN PsbtOf
    /\ {Absent, Invalid, Skipped} \intersect [r : 1..(GroupN - 1), s : 1..(GroupN - 1)] = {}
    /\ Invalid # Skipped

\* Commitments are numbers and binding.
ASSUME CommitmentAssumption ==
    \A rho, other \in Octets32 :
        HostCommit(rho) \in Nat /\ (HostCommit(rho) = HostCommit(other) => rho = other)

-----------------------------------------------------------------------------
(***************************************************************************)
(* Packages                                                                *)
(***************************************************************************)

\* A raw PSBT is known by its name, and so is its SHA-256.
Package(m, raw) == [network |-> m.network, stage |-> m.stage, psbt |-> raw, message |-> Encode(m)]

RequiresPsbt(stage) == stage \in {HOST_COMMIT, HOST_REVEAL}

\* ProtocolV1Package.decode, or Rejected.
Received ==
    LET m == DecodeMessage(wire.message)
    IN  IF m = Rejected THEN Rejected
        ELSE IF /\ wire.network = m.network /\ wire.stage = m.stage
                /\ (wire.psbt # Absent) <=> RequiresPsbt(m.stage)
                /\ wire.psbt \in {Absent, m.psbt_digest}
        THEN m ELSE Rejected

Parsed(raw) == raw \in DOMAIN PsbtOf

Refuse(by, check) ==
    /\ refusal' = [by |-> by, check |-> check]
    /\ wire' = Absent
    /\ UNCHANGED <<psbt, h, sent, altered, signed>>

\* encode checks the message it is given.
Send(by, m, raw) ==
    IF ~ValidMessage(m) THEN Refuse(by, "encode")
    ELSE /\ sent' = [sent EXCEPT ![m.stage] = m]
         /\ wire' = Package(m, raw)
         /\ UNCHANGED <<psbt, h, altered, refusal, signed>>

Running == refusal = Absent /\ signed = Absent

\* Whose turn it is: the one that sent the package waits for the answer.
Awaits(stage) == Running /\ wire # Absent /\ sent[stage] # Absent /\ sent[stage + 1] = Absent

-----------------------------------------------------------------------------
(***************************************************************************)
(* The host                                                                *)
(***************************************************************************)

Init ==
    /\ \E scenario \in Scenario : psbt = scenario.psbt /\ h = scenario.h
    /\ sent = [stage \in HOST_COMMIT..SIGNER_SIGNATURES |-> Absent]
    /\ wire = Absent /\ altered = "no" /\ refusal = Absent /\ signed = Absent

ByRoot(raw) == IF Parsed(raw) THEN EnumerateSigningSlots(PsbtOf[raw], Root) ELSE {}
ByFingerprint(raw) ==
    IF Parsed(raw) THEN EnumerateForFingerprint(PsbtOf[raw], Root.fingerprint) ELSE {}

Rhos(slots) == [id \in {Identifier(slot) : slot \in slots} |-> Rho(id)]

\* host_init_v1: the slots are enumerated with the root or from public metadata.
HostInit ==
    /\ Running /\ sent[HOST_COMMIT] = Absent
    /\ \E slots \in {ByRoot(psbt), ByFingerprint(psbt)} :
          IF slots = {} THEN Refuse("host", "enumerate")
          ELSE Send("host", HostCommitMessage(slots, TestNetwork, SessionId, psbt, Rhos(slots)),
                    psbt)

SessionRhos == [id \in {Identifier(sent[HOST_COMMIT].slots[n]) :
                           n \in DOMAIN sent[HOST_COMMIT].slots} |-> Rho(id)]

RevealFor(m) ==
    [m EXCEPT !.stage = HOST_REVEAL,
              !.slots = [n \in DOMAIN m.slots |->
                            [m.slots[n] EXCEPT !.rho = SessionRhos[Identifier(m.slots[n])]]]]

HostAcceptOpenings ==
    /\ Awaits(SIGNER_OPENINGS)
    /\ IF Received = Rejected THEN Refuse("host", "transport")
       ELSE IF Received.stage # SIGNER_OPENINGS THEN Refuse("host", "stage")
       ELSE IF ~(/\ ValidTransition(sent[HOST_COMMIT], Received)
                 /\ ValidTransition(Received, RevealFor(Received)))
       THEN Refuse("host", "transition")
       ELSE Send("host", RevealFor(Received), psbt)

SignaturesVerify(m) ==
    \A n \in DOMAIN m.slots :
        VerifyAntiExfil(h, m.slots[n].signer_pubkey, m.slots[n].message_hash,
                        SessionRhos[Identifier(m.slots[n])], m.slots[n].opening,
                        m.slots[n].signature)

HostComplete ==
    /\ Running /\ wire # Absent
    /\ sent[HOST_REVEAL] # Absent /\ sent[SIGNER_SIGNATURES] # Absent
    /\ IF Received = Rejected THEN Refuse("host", "transport")
       ELSE IF Received.stage # SIGNER_SIGNATURES THEN Refuse("host", "stage")
       ELSE IF ~ValidTransition(sent[HOST_REVEAL], Received) THEN Refuse("host", "transition")
       ELSE IF ~SignaturesVerify(Received) THEN Refuse("host", "signature")
       ELSE IF ~Reconstructs(h, PsbtOf[psbt], psbt, sent[HOST_COMMIT], Received, SessionRhos)
       THEN Refuse("host", "reconstruct")
       ELSE /\ signed' = PartialSignatures(Received)
            /\ wire' = Absent
            /\ UNCHANGED <<psbt, h, sent, altered, refusal>>

-----------------------------------------------------------------------------
(***************************************************************************)
(* The device                                                              *)
(***************************************************************************)

DeviceReceives == Awaits(HOST_COMMIT) \/ Awaits(HOST_REVEAL)

Secret(slot) ==
    Root.secret[PsbtOf[wire.psbt][slot.input_index].bip32_derivations[slot.signer_pubkey].path]

\* What the device enumerates is what the message asks for.
SlotsMatch(m) ==
    \E own \in {ByRoot(wire.psbt)} :
        /\ Cardinality(own) = Len(m.slots)
        /\ \A n \in DOMAIN m.slots :
              [input_index |-> m.slots[n].input_index, signer_pubkey |-> m.slots[n].signer_pubkey,
               message_hash |-> m.slots[n].message_hash] \in own

\* Where the device refuses: the rejection points of the corpus, in their order.
DeviceCheck(m) ==
    IF m = Rejected THEN "transport"
    ELSE IF m.network \notin DeviceNetworks THEN "network"
    ELSE IF ~RequiresPsbt(m.stage) THEN "stage"
    ELSE IF ~Parsed(wire.psbt) THEN "parse"
    ELSE IF ~SlotsMatch(m) THEN "semantic"
    ELSE IF m.stage = HOST_COMMIT THEN "none"
    ELSE IF \E n \in DOMAIN m.slots : HostCommit(m.slots[n].rho) # m.slots[n].commitment
    THEN "commitment"
    ELSE IF \E n \in DOMAIN m.slots :
               m.slots[n].opening # SignerOpening(h, Secret(m.slots[n]), m.slots[n].message_hash,
                                                  m.slots[n].commitment)
    THEN "opening"
    ELSE "none"

OpeningsFor(m) ==
    [m EXCEPT !.stage = SIGNER_OPENINGS,
              !.slots = [n \in DOMAIN m.slots |->
                  [m.slots[n] EXCEPT !.opening =
                      SignerOpening(h, Secret(m.slots[n]), m.slots[n].message_hash,
                                    m.slots[n].commitment)]]]

\* The reference backend keeps the signature of anti_exfil_sign and drops its opening.
SignaturesFor(m) ==
    [m EXCEPT !.stage = SIGNER_SIGNATURES,
              !.slots = [n \in DOMAIN m.slots |->
                  [m.slots[n] EXCEPT !.rho = Absent,
                      !.signature = AntiExfilSign(h, Secret(m.slots[n]), m.slots[n].message_hash,
                                                  m.slots[n].rho).signature]]]

AllSigned(m) == \A n \in DOMAIN m.slots : m.slots[n].signature # Invalid

\* Two openings of one key in one message that are equal cannot be sent.
DeviceAnswers ==
    /\ DeviceReceives
    /\ \E m \in {Received} : \E check \in {DeviceCheck(m)} :
           IF check # "none" THEN Refuse("device", check)
           ELSE IF m.stage = HOST_COMMIT
           THEN Send("device", OpeningsFor(m), Absent)
           ELSE \E answer \in {SignaturesFor(m)} :
                   IF AllSigned(answer) THEN Send("device", answer, Absent)
                   ELSE Refuse("device", "signing")

-----------------------------------------------------------------------------
(***************************************************************************)
(* What may go wrong, once                                                 *)
(***************************************************************************)

Alter(how, package) ==
    /\ Running /\ wire # Absent /\ altered = "no" /\ psbt \in Exposed
    /\ package # wire
    /\ wire' = package /\ altered' = how
    /\ UNCHANGED <<psbt, h, sent, refusal, signed>>

WithRecords(records) == [wire EXCEPT !.message.records = records]

\* Record n of the wire.
Record(n) ==
    LET length == RecordLength(wire.stage)
    IN  SubSeq(wire.message.records, (n - 1) * length + 1, n * length)

\* The wire with other records, its lengths those of the records or as they were.
Relaid(order, lengths) ==
    LET records == FlattenSeq([k \in DOMAIN order |-> Record(order[k])])
    IN  IF lengths = "kept" THEN WithRecords(records)
        ELSE [WithRecords(records) EXCEPT !.message.slot_count = Len(order),
                                          !.message.payload_length = Len(records)]

\* A cell changes, or takes the value of another cell; records are swapped, repeated or lost;
\* a field of the header, or the PSBT with or without its digest, is another one.
Damage ==
    \/ \E k \in DOMAIN wire.message.records : \E cell \in Junk \union ToSet(wire.message.records) :
          Alter("damage", WithRecords([wire.message.records EXCEPT ![k] = cell]))
    \/ \E n \in 1..wire.message.slot_count : \E k \in 1..wire.message.slot_count :
          LET all == [j \in 1..wire.message.slot_count |-> j]
          IN  \/ Alter("damage", Relaid([all EXCEPT ![n] = k, ![k] = n], "kept"))
              \/ Alter("damage", Relaid([all EXCEPT ![n] = k], "kept"))
              \/ \E lengths \in {"kept", "new"} : Alter("damage", Relaid(RemoveAt(all, n), lengths))
    \/ \E f \in {"version", "flags", "stage", "payload_length", "slot_count"} :
          \E d \in {-1, 1} :
             Alter("damage", [wire EXCEPT !.message = [wire.message EXCEPT ![f] = @ + d]])
    \/ \E network \in Network : Alter("damage", [wire EXCEPT !.message.network = network])
    \/ Alter("damage", [wire EXCEPT !.message.session_id = OtherSession])
    \/ \E raw \in DOMAIN PsbtOf :
          \/ wire.psbt # Absent /\ Alter("damage", [wire EXCEPT !.psbt = raw])
          \/ Alter("damage", [wire EXCEPT !.message.psbt_digest = raw,
                                          !.psbt = IF wire.psbt = Absent THEN Absent ELSE raw])

\* sign_with_nonce: an ordinary signature with any nonce, as its three callers make it.
SignWithNonce(secret, hash, nonce) ==
    LET r == PointMul(nonce, Generator).x % GroupN
        s == (ModInverse(nonce, GroupN) * ((hash % GroupN) + r * secret)) % GroupN
    IN  IF r = 0 \/ s = 0 THEN Invalid ELSE [r |-> r, s |-> LowS(s)]

SendsOwn(m) ==
    /\ ValidMessage(m)
    /\ sent' = [sent EXCEPT ![SIGNER_SIGNATURES] = m]
    /\ wire' = Package(m, Absent)
    /\ altered' = "nonce"
    /\ UNCHANGED <<psbt, h, refusal, signed>>

\* The device of the adversarial models: one slot is signed with a nonce of its own.
DeviceOwnNonce ==
    /\ DeviceReceives /\ altered = "no" /\ psbt \in Exposed
    /\ \E m \in {Received} :
          /\ DeviceCheck(m) = "none" /\ m.stage = HOST_REVEAL
          /\ \E honest \in {SignaturesFor(m)} : \E n \in DOMAIN m.slots : \E nonce \in OwnNonces :
                \E own \in {SignWithNonce(Secret(m.slots[n]), m.slots[n].message_hash, nonce)} :
                   /\ own # Invalid /\ AllSigned(honest)
                   /\ SendsOwn([honest EXCEPT !.slots[n].signature = own])

-----------------------------------------------------------------------------
(***************************************************************************)
(* The adversarial corpus (build_adversarial_cases_v1), over the fixture's *)
(* message 1.  Each case names the check that is to refuse it.             *)
(***************************************************************************)

Base == sent[HOST_COMMIT]
BaseOpenings == OpeningsFor(Base)
BaseReveal == RevealFor(BaseOpenings)

ForPsbt(raw) == Package([Base EXCEPT !.psbt_digest = raw], raw)

CorpusPackage(case) ==
    CASE case = "01-wrong-mainnet" ->
            Package([Base EXCEPT !.network = CHOOSE n \in Network : n \notin DeviceNetworks], psbt)
      [] case = "02-wrong-stage-message-2" -> Package(BaseOpenings, Absent)
      [] case = "03-outer-inner-network-mismatch" ->
            [wire EXCEPT !.network = CHOOSE n \in Network : n \notin DeviceNetworks]
      [] case \in DOMAIN Mutated -> ForPsbt(Mutated[case])
      [] case = "10-duplicate-slot-record" -> Relaid(<<1, 1, 3, 4, 5>>, "kept")
      [] case = "11-reordered-slot-records" -> Relaid(<<2, 1, 3, 4, 5>>, "kept")
      [] case = "12-altered-host-reveal" ->
            Package([BaseReveal EXCEPT !.slots[1].rho = (@ + 1) % Bytes32], psbt)
      [] case = "13-altered-signer-opening" ->
            Package([BaseReveal EXCEPT !.slots[1].opening = BaseReveal.slots[2].opening], psbt)

ExpectedCheck ==
    [case \in DOMAIN Mutated \union {"01-wrong-mainnet", "02-wrong-stage-message-2",
                  "03-outer-inner-network-mismatch", "10-duplicate-slot-record",
                  "11-reordered-slot-records", "12-altered-host-reveal",
                  "13-altered-signer-opening"} |->
        CASE case = "01-wrong-mainnet" -> "network"
          [] case = "02-wrong-stage-message-2" -> "stage"
          [] case = "04-truncated-psbt" -> "parse"
          [] case = "12-altered-host-reveal" -> "commitment"
          [] case = "13-altered-signer-opening" -> "opening"
          [] case \in {"03-outer-inner-network-mismatch", "10-duplicate-slot-record",
                       "11-reordered-slot-records"} -> "transport"
          [] OTHER -> "semantic"]

\* A case is shown to the device where it waits for message 1.
PresentCase ==
    /\ psbt = Fixture /\ Awaits(HOST_COMMIT)
    /\ \E case \in DOMAIN ExpectedCheck : Alter(case, CorpusPackage(case))

Next ==
    \/ HostInit \/ HostAcceptOpenings \/ HostComplete
    \/ DeviceAnswers \/ DeviceOwnNonce
    \/ (wire # Absent /\ Damage) \/ PresentCase

Spec == Init /\ [][Next]_vars

-----------------------------------------------------------------------------
(***************************************************************************)
(* Properties                                                              *)
(***************************************************************************)

P == INSTANCE ProtocolV1

\* A message as ProtocolV1 has it: slots by identifier, commitments and hashes as records.
Meaning(m) ==
    LET slot(id) == m.slots[CHOOSE n \in DOMAIN m.slots : Identifier(m.slots[n]) = id]
        revealable(c) == {rho \in Octets32 : HostCommit(rho) = c}
        \* A commitment that opens to no rho stands for one beyond 32 bytes.
        preimage(c) == IF revealable(c) = {} THEN {Bytes32 + c} ELSE revealable(c)
    IN  [stage |-> m.stage, network |-> m.network, session |-> m.session_id,
         psbt |-> m.psbt_digest,
         slots |-> [id \in {Identifier(m.slots[n]) : n \in DOMAIN m.slots} |->
             [hash |-> slot(id).message_hash,
              commitment |-> P!HostCommit(CHOOSE rho \in preimage(slot(id).commitment) : TRUE),
              opening |-> slot(id).opening, rho |-> slot(id).rho,
              signature |-> slot(id).signature]]]

\* Whatever arrives, the codec reads it in one way only: an accepted package is, octet for
\* octet, the encoding of the message read from it, and comparing slots by their position on
\* the wire accepts the same transitions as ProtocolV1 does, which compares by identifier
\* (decode_message, validate_transition; protocol_v1_codec.py:111, :172).
OneReading ==
    wire # Absent =>
        LET m == Received
        IN  m # Rejected =>
              /\ Encode(m) = wire.message
              /\ P!ValidMessage(Meaning(m))
              /\ \A stage \in HOST_COMMIT..HOST_REVEAL : sent[stage] # Absent =>
                    (ValidTransition(sent[stage], m)
                        <=> P!ValidTransition(Meaning(sent[stage]), Meaning(m)))

SlotSecret(slot) ==
    Root.secret[PsbtOf[psbt][slot.input_index].bip32_derivations[slot.signer_pubkey].path]

FirstTry(slot) ==
    LET secret == SlotSecret(slot)
        first == FirstCandidate(h, secret, slot.message_hash, slot.commitment)
    IN  SignWith(h, secret, slot.message_hash, Rho(Identifier(slot)), first).signature

FirstPoint(slot) == SignerOpening(h, SlotSecret(slot), slot.message_hash, slot.commitment)

EqualOpenings(m) ==
    \E n, k \in DOMAIN m.slots :
        /\ n # k /\ m.slots[n].signer_pubkey = m.slots[k].signer_pubkey
        /\ FirstPoint(m.slots[n]) = FirstPoint(m.slots[k])

\* If nothing goes wrong on the way, a session that is refused had to be: the PSBT is not
\* one to sign (by public metadata alone, or because a path does not derive its key, which
\* only the device sees after such a start), or one of three numeric edges was met: two
\* equal openings of a key, a tweak beyond the group order, or a first nonce candidate
\* that signing passes over although its point was the opening (crypto.py:173, :190, :207).
HonestNotRefused ==
    (altered = "no" /\ refusal # Absent) =>
        LET commit == sent[HOST_COMMIT]
            edge(outcome) == \E n \in DOMAIN commit.slots : FirstTry(commit.slots[n]) = outcome
        IN  \/ /\ refusal = [by |-> "host", check |-> "enumerate"]
               /\ ByFingerprint(psbt) = {} \/ ~PathsDerive(PsbtOf[psbt], Root)
            \/ /\ refusal = [by |-> "device", check |-> "semantic"]
               /\ ~PathsDerive(PsbtOf[psbt], Root)
            \/ refusal = [by |-> "device", check |-> "encode"] /\ EqualOpenings(commit)
            \/ refusal = [by |-> "device", check |-> "signing"] /\ (edge(Invalid) \/ edge(Skipped))
            \/ refusal = [by |-> "host", check |-> "signature"] /\ edge(Skipped)

\* Whatever went wrong on the way, signatures are imported for exactly the slots the owner of
\* the root would enumerate, and each is a signature of its input's hash whose nonce point
\* is the opening the device sent in message 2 tweaked by the host's own rho
\* (host_complete_v1, reconstruct_signed_psbt_v1, verify_anti_exfil).
SignedSlots ==
    signed # Absent =>
        /\ {[input_index |-> s.input_index, signer_pubkey |-> s.signer_pubkey,
             message_hash |-> PsbtOf[psbt][s.input_index].sighash] : s \in signed} = ByRoot(psbt)
        /\ \A s \in signed :
              LET openings == {o \in ToSet(sent[SIGNER_OPENINGS].slots) :
                                  Identifier(o) = Identifier(s)}
              IN  /\ EcdsaVerify(s.signer_pubkey, PsbtOf[psbt][s.input_index].sighash, s.signature)
                  /\ \A o \in openings :
                        CommittedPoint(h, Rho(Identifier(s)), o.opening).x % GroupN = s.signature.r

\* No package of the adversarial corpus is answered, and each is refused at the very check
\* the corpus names for it (adversarial_device_v1.py:121, test_adversarial_device_v1.py:53).
CorpusRefused ==
    altered \in DOMAIN ExpectedCheck =>
        /\ sent[SIGNER_OPENINGS] = Absent /\ sent[SIGNER_SIGNATURES] = Absent
        /\ refusal # Absent => refusal = [by |-> "device", check |-> ExpectedCheck[altered]]
=============================================================================
