# The anti-exfil ceremony in TLA+

This directory models the reference implementation of the anti-exfil signing
ceremony in `src/src/anti_exfil/`: a host (coordinator) and a hardware signer
produce ECDSA signatures whose nonces the signer cannot choose. The host commits
to randomness (message 1), the signer answers with its nonce points, the
*openings* (message 2), the host reveals the randomness `rho` (message 3), the
signer returns signatures whose nonces are the openings tweaked by `rho`
(message 4), and the host verifies them and imports them into the PSBT.

What can go wrong lives around the cryptography: the host is a set of short
commands that an operator runs, kills, and runs again; everything they know is in
a session directory; the packages they are given may be old, partial, or made by
a signer that does not follow the protocol. If a session's `rho` is ever revealed
for two sets of openings, the signer gets to choose among signatures after it has
seen the randomness, and the guarantee is gone. The specifications are about that.

Paths below are relative to `src/src/anti_exfil/`.

## Inventory

| component | state it keeps | operations | talks to |
|---|---|---|---|
| durable v1 coordinator, `coordinator_v1.py` | per session directory: `state.json`, `original.psbt`, `message-1.aex` | `host_init_v1`, `host_accept_openings_v1`, `host_complete_v1` | file store, codec, PSBT semantics, cryptography; the operator carries its packages |
| file store, `storage.py` | files | `write_exact`, `save_state`, `load_state`, `_atomic_replace` | - |
| protocol v1 codec, `protocol_v1_codec.py` | none | encode, decode, `validate_transition` | cryptography (points) |
| cryptography, `crypto.py` | none | point arithmetic, nonce stream, `host_commit`, `signer_opening`, `anti_exfil_sign`, `verify_anti_exfil` | - |
| PSBT v1 semantics, `psbt_v1.py` | none | enumerate slots by root, by fingerprint and for a message; build message 1; reconstruct the signed PSBT | codec, cryptography, embit |
| transport packages, `transport.py` (rung B), `protocol_v1_transport.py` | none | AEXT encode, decode | the two message codecs |
| rung B and C workflows, `workflow.py`, `psbt_workflow.py`, `coordinator.py` (with `messages.py`, `psbt_tools.py`) | a session directory of an older, single-slot format: `state.json`, `original.psbt`, an internal receipt | `host_init`, `host_reveal`, `host_verify`; `host_init_psbt`, `host_verify_psbt`; `prepare_message_3` | file store, cryptography; each rung C command calls a rung B one |
| physical exchange, `physical_workflow.py` | a local run directory and the SD card with its stage marker | `prepare`, `reveal`, `verify` | rung C workflow; the signer, by the card |
| SeedSigner adapter, `seedsigner_adapter.py` | none | `signer_commit_seedsigner`, `signer_sign_seedsigner` | SeedSigner code outside the repository; a boot script that reads the card |
| abort journals, `adversarial.py` | events per wallet, journal snapshot and transcript per session | create, reveal, record, retry | - |
| camera receiver, `camera_receiver.py`, with the UR accumulator of `transport.py` | fountain candidates of one scan, the bridge process, three output files | `receive_package`, one bridge line at a time | camera process, transport packages, file store |
| adversarial device corpus, `adversarial_device_v1.py`, and the nonce models of `adversarial.py` | none | thirteen packages a device must refuse; signatures with a nonce of the signer's own | codec, PSBT semantics, transport |
| native binding, QR output, fixtures, command line | none | pure input and output | - |

Hard behaviours, by component (each at its line in `PROJECT.json`, "hazards"):

* **coordinator and store.** State is loaded, checked and saved with no lock, so
  commands on one directory may interleave; each command makes up to four durable
  writes and may be killed between any two; existence test and replace are two
  steps; a retry may use other output paths or other packages; the stored PSBT
  may change underneath.
  *Correct* means: storage precedes disclosure, one reveal per session ever, the
  state only moves forward, signatures are imported only for the exact slot set
  and only if tweaked by the revealed randomness, completion is recorded between
  the signed PSBT and the receipt, and no crash leaves a disclosed session stuck.
* **rung B and C workflows.** Two saves for one session with message 1 shown in
  between, state and response file read two or three times within a command, completion
  recorded before any output, a reveal written before the stored PSBT is checked, commands
  of the two rungs mixed on one session. *Correct* means the same promises over another
  order of writes, and that a signature is imported into its own slot whatever PSBT a
  race has bound the session to.
* **physical exchange.** Host and device alternate through a marker file that is
  moved in several steps; the result of an earlier attempt may still lie on
  the card, and a command may be given the run directory of another exchange.
  *Correct* means: the marker never announces what the card does not hold, no `rho`
  is out before the state holds the opening it answers, a receipt stands for one
  session, and a stopped command can be finished unless it left one of three traps.
* **codec, PSBT semantics, cryptography.** Slots are ordered tuples that two sides
  compare by position; three enumerations of the same slots make different checks; the
  arithmetic has edges (a zero `r` or `s`, a tweak beyond the group order, equal
  openings) that no test vector reaches. *Correct* means: a wire has one reading,
  whatever is altered in it; a session that nobody disturbed ends in signatures unless
  a named edge is met; imported signatures cover exactly the signer's slots, under the
  host's randomness; and the corpus is refused where it says.
* **abort journals.** Sessions created against a snapshot of a shared journal.
  *Correct* means: no first reveal after an abort the session does not know of,
  events are never lost or rewritten, the digest separates histories.
* **transport packages.** Two decoders for one header, written for different messages;
  the digest covers the PSBT only. *Correct* means: what is encoded is read back by its
  own protocol and no other, bytes have one reading, damage to header or PSBT shows (a
  changed message is for the protocol to notice), and a v1 package carries the PSBT and
  network its message names.
* **camera receiver.** Interleaved frames of several packages, a table of eight
  candidates, exceptions inside the loop, a process that owns the camera, and three
  files written one after the other. *Correct* means: only a complete package
  of the awaited stage and network is written, a skipped one stays skipped, streams
  that never finish cannot starve the scan below the limit, the camera is given back on
  every path on which the process lives, and files never mix two packages.

## Modules

| module | models |
|---|---|
| `AntiExfilCrypto` | the cryptographic functions of `crypto.py` |
| `ProtocolV1` | messages, codec rules and signers of protocol v1; no state |
| `S2cEcdsa` | the arithmetic of `crypto.py` over a curve of any size; no state |
| `ProtocolV1Codec` | the wire of protocol v1: layout, order, every check, transitions by position; no state |
| `PsbtV1` | the strict reading of a PSBT: scripts, keys, three enumerations, message 1, import of signatures; no state |
| `TranscriptV1` | one v1 session in the code's own data over the three modules above, with one thing going wrong |
| `CoordinatorV1` | the three v1 coordinator commands on the file store, as processes that may race and be killed; its properties and inductive invariants |
| `PsbtWorkflow` | the rung B and C commands and message 3 preparation, in the same way |
| `AntiExfilCeremony` | abstract specification: what a durable host promises about each session |
| `CoordinatorCeremony`, `PsbtCeremony` | the refinement mappings from the two to the third, fairness, progress |
| `PhysicalExchange` | the rung C exchange with a signer on a card: three commands, marker, boot script, operator |
| `AbortJournal` | the wallet-wide abort journal and the sessions bound to it |
| `TransportEnvelope` | AEXT packages of both protocols, encode and decode; no state |
| `EnvelopeLink` | one package on its way: encoded, damaged, decoded |
| `CameraReceiver` | live scans: candidates, selection, bridge process, output files |
| `MCCoordinatorV1`, `MCPsbtWorkflow`, `MCTranscriptV1`, `MCPhysicalExchange`, `MCAbortJournal`, `MCEnvelopeLink`, `MCCameraReceiver` | small instances for TLC |
| `SequenceLemmas` | lemmas about folds, flattened sequences and induction, used by the proofs |
| `CoordinatorV1Proofs`, `PsbtWorkflowProofs`, `TranscriptV1Proofs`, `PhysicalExchangeProofs`, `AbortJournalProofs`, `EnvelopeLinkProofs`, `CameraReceiverProofs` | TLAPS proofs |

`ProtocolV1` and `PsbtWorkflow` EXTEND `AntiExfilCrypto`; `CoordinatorV1` EXTENDS
`ProtocolV1`; each `...Ceremony` refinement EXTENDS its component and INSTANCEs
`AntiExfilCeremony`. The two coordinators share the abstract specification and
nothing else, as in the code: they read different state versions and messages, so
one never acts on the other's session. `EnvelopeLink` and `CameraReceiver` EXTEND
`TransportEnvelope`; the coordinators take a package as the pair it stands for, which
`EnvelopeLink` justifies. `PhysicalExchange` EXTENDS `AntiExfilCrypto`. `S2cEcdsa`,
`ProtocolV1Codec`, `PsbtV1` and `TranscriptV1` EXTEND one another in this order, and
`TranscriptV1` INSTANCEs `ProtocolV1`: its property `OneReading` says that what the codec
does with ordered tuples on a wire is what `ProtocolV1`, and so `CoordinatorV1`, takes it for.

### How `CoordinatorV1` corresponds to the code

`disk` is a partial function from existing files to contents. A file holds a
value, not bytes: a state dictionary, a PSBT, a message, a package, a signed PSBT
or a receipt. `job[p]` is a process: `pc` names the durable operation that comes
next, `held` is the `state` dictionary in memory, `path` and `receipt` are the
output arguments, and `clear` says that the existence test of the next write has
passed. `shown` is a history of every output that was ever written, because an
operator may carry it away at once; the code keeps no such thing. `drawn` keeps
`os.urandom` from repeating.

| code | actions |
|---|---|
| `host_init_v1` up to `save_state(create=True)` | `HostInitV1` |
| `_load_state` at the head of the two other commands | `LoadState` |
| `host_accept_openings_v1`, from reading the package to the save | `HostAcceptOpeningsV1` |
| its `_load_original` after the save | `LoadOriginal` |
| `host_complete_v1`, from reading the package to the first write | `HostCompleteV1` |
| any exception before the first write | `RefuseInput` |
| `path.exists()` in `write_exact`, `save_state(create=True)` | `FindAbsent`, `FindSame`, `FindConflict` |
| `os.replace` in `_atomic_replace` | `AtomicReplace` |
| process killed; stored PSBT replaced or removed | `Crash`, `DamageOriginal` |

`NextPc`, `Target` and `Data` give each command's durable operations in the
code's order. The chain of checks in a command is one guard
(`OpeningsAccepted`, `SignaturesAccepted`) with the checks in the order of the
code; which error code is raised is not modelled.

The choice of grain: a process reads `state.json` in one step and the package in
a later one, since another process may come between. Between reading the package
and the next file operation a command touches no shared state, so it is one step.
`host_complete_v1` reads `original.psbt` inside that step; the read commutes with
everything but `DamageOriginal`, which may come before or after.

### How `PsbtWorkflow` corresponds to the code

State variables and file operations are those of `CoordinatorV1`. A job also carries
`command`, the outermost function, since a rung C command runs a rung B one inside.

| code | actions |
|---|---|
| `host_init` up to `save_state(create=True)`, alone or inside `host_init_psbt` | `HostInit`, `HostInitPsbt` |
| `host_init_psbt` after `host_init` has returned, up to its own `save_state` | `BindPsbt` |
| `load_state` at the head of `host_reveal`, `host_verify`, `host_verify_psbt` | `LoadState` |
| `host_reveal`, from reading the message to its first write | `HostReveal` |
| `prepare_message_3` up to writing `message-2.aex`; the load inside `host_reveal` | `PrepareMessage3`, `PrepareLoad` |
| its second load and the digest check, after `message-3.aex` | `PrepareOriginal` |
| `host_verify_psbt` up to the call of `host_verify`, its reading of the response included; the load inside that | `HostVerifyPsbt`, `VerifyLoad` |
| `host_verify`, from reading the message (again) to the save | `HostVerify` |
| the check that a signature was read, and `reconstruct_signed_psbt` | `CanImport`, `ImportSignature` |
| any exception of a check | `RefuseInput` |

`HostVerifyPsbt` keeps PSBT and input of the state it read, and `VerifyLoad` reads
another state, as the code does: under a race they may differ. The response file is read
twice as well, at `psbt_workflow.py:112` and `workflow.py:145`, and the two readings are two
choices among the messages signers may give (`SignerAnswers`): `HostVerifyPsbt` keeps key,
hash and signature of the first (`SlotSignature`, the job's `read`), which is all that
`ImportSignature` uses, and `HostVerify` verifies, saves and receipts the second. The digest
of a PSBT is the PSBT. `SlotsOf` gives a PSBT's slots, `Importable` says whether
`reconstruct_signed_psbt` takes a signature for it and can finalise it; `host_init_psbt`
does not ask, so a session of a PSBT outside `Importable` gets as far as COMPLETE. A
signed PSBT and the raw transaction are two records of the same data. The QR frames
that `prepare_message_3` renders after the package are left out. `Commands` restricts
an instance to some of the six commands.

### How `PhysicalExchange` corresponds to the code

`local[r]` is a run directory and `card` the exchange directory, each a partial function
from file names to contents; "." is the directory itself. `host` is the one command under
way with the writes it has still to do before its next decision, `pending` the exit code
that the boot script is about to write.

| code | actions |
|---|---|
| `prepare`, with `host_init_psbt` inside | `Prepare`, then `Write` for each entry of `PrepareWrites` |
| `reveal` and `verify` up to the copy of the response (`_read_success_code`) | `Reveal`, `Verify` (`Fetch`) |
| `host_reveal` inside `reveal`: checks, state, message 3 | `Accept`, then `AcceptWrites` |
| `_replace_stage_marker` | `Mark` (the temporary file), `ReplaceMarker`, `MarkerFails` |
| `host_verify_psbt` inside `verify`: checks, state, outputs | `Complete`, then `CompleteWrites` |
| `write_exact` on other bytes; a response or marker refused | `RefuseWrite`, `Refuse` |
| process killed before any write | `Crash` |
| `signer_commit_seedsigner`, `signer_sign_seedsigner` | `SignerCommit`, `SignerSign`, or `SignerFails` |
| the boot script's exit code; power cut before it | `SignerReports`, `SignerPowerLoss` |
| the operator carries the card, or clears it | `MoveCard`, `ClearCard` |

The boot script is not in the repository: what it must do is read off
`physical_workflow.py` (which waits for an exit code per stage) and
`docs/security-review-findings.md:932`: it takes any result, exit code or response that is
there for an attempt already made, and so runs a stage once. The fixture PSBT is fixed, hence key and hash; a
session is known by the run directory it was drawn for. The commands of rung C are taken in
their sequential form, since `PsbtWorkflow` covers how they race.

### How `TranscriptV1` and the modules below it correspond to the code

* `S2cEcdsa` has one operator per function of `crypto.py`. The curve is
  `y^2 = x^3 + 7` modulo `FieldP`, with a group of `GroupN`; a byte string of 32 is a number
  below `Bytes32`, with `GroupN < FieldP < Bytes32` as on secp256k1, so that a coordinate can
  exceed the group order and a hash both. A scalar and a point are multiplied by the loop
  of `point_mul`, as a recursive function. The two tagged hashes and the nonce stream are
  parameters, chosen by `h`. An exception is `Invalid`.
* `ProtocolV1Codec` has a wire as a header and one sequence of cells, a fixed-width field
  being one cell: records have no mark between them, so that a wrong length moves every
  later field. `ValidMessage` and `ValidTransition` make the checks of `_validate_message`
  and `validate_transition` on tuples, by position, and `ValidSlot` those of `_validate_slot`,
  field widths included (`Octets32`, `IsPoint`); a commitment is known by any number.
* `PsbtV1` has a PSBT as what embit parses it to, a script as what it pays to. `Supported`
  holds the checks that all three enumerations make of each input,
  `EnumerateSigningSlots`, `EnumerateForFingerprint` and `ProtocolSlotsValid` what they make
  besides: the second checks neither derivation paths nor the limit per input.
* `TranscriptV1` runs the host's three commands once (`HostInit`, `HostAcceptOpenings`,
  `HostComplete`; their files are `CoordinatorV1`'s subject) against a device that answers
  as the vector generator and the reference backend of the tests do (`DeviceAnswers`). In a
  session of the fixture one thing may go wrong: `Damage` (a cell, a record, a header field,
  a length, the PSBT), `DeviceOwnNonce` (`sign_with_nonce` and the signers built on it,
  `adversarial.py`), or `PresentCase` (a package of `build_adversarial_cases_v1`). The
  device's chain of refusals, `DeviceCheck`, is external: the tests drive a SeedSigner class
  that the repository does not have, and name the point at which each case is refused.

### How `AbortJournal` corresponds to the code

`events` is the dict of `WalletAbortJournal` in insertion order; `bound[h]` is an
`AbortBoundSession` object, with two history fields, the journal and the flag at its
creation. One action per method: `Record`, `CreateSession`, `AcceptHostReveal`,
`RecordPostRevealFailure`, `RejectSignerData`. A method that raises is no step.
Identifiers and reasons are byte strings, because the digest is about bytes: `Digest`
is the string that is hashed, each field behind its length, and `Encodable` is the
condition under which a length fits in its two bytes (`MaxLength`). `journal.record` may
also be called from outside any session, and a session identifier may be used for two
objects; the code refuses neither.

### How `TransportEnvelope` and `EnvelopeLink` correspond to the code

`Encodable` holds the checks of `encode` and `Packed` the bytes it returns, as the record
of header fields with the body; `HeaderValid`, `DigestValid` and `Embeds` are the checks of
`decode`, and `ReadsAs` their conjunction with the final re-encoding, which
`ProtocolV1Package.decode` compares with its input and `TransportPackage.decode` does not.
Both classes are in each operator; where they differ, the message's protocol says so
(rung B has no testnet4 and its messages name neither network nor PSBT). Bodies are byte
strings, because the two lengths cut them; a message's bytes are given by `Encoding`, an
injective constant, since both message codecs accept canonical bytes only. A payload
shorter than the header is refused in the first line and is not a state.
`EnvelopeLink` lets one header field change (`DamageHeader`), or the body, message and PSBT
alike (`DamageBody`), up to `MaxDamage` times.

### How `CameraReceiver` corresponds to the code

| code | actions |
|---|---|
| `subprocess.Popen` and the empty tables | `Start` |
| a QR symbol that reaches `accumulator.receive` (`ReceivePart`) and leaves it incomplete, or is malformed inside | `CollectPart` |
| the complete package matches: `break` | `SelectPackage` |
| it does not match: `ignored_candidates.add`, `del accumulators[...]` | `IgnorePackage` |
| its decoding raises | `RefusePackage` |
| the bridge's output ends, or a line that `parse_bridge_line` refuses | `EndScan` |
| `finally: _stop_bridge_process` | `StopBridge` |
| the three `write_exact`, or their refusal | `WriteOutput`, `RefuseOutput` |
| the bridge ends by itself; the receiver is killed | `BridgeExits`, `Kill` |

A *stream* is one animated UR message and stands for its candidate key (`Receives` is the
guard of lines 260-270); two messages with the same key, which has the checksum in it, are
not told apart. A candidate collects a set of fragments; a mixed fountain part stands for
the fragment it recovers. A symbol that is ignored or finds the table full changes only
counters and is no step. One scan runs at a time; `write_exact` is one step here, as its
races are the subject of the coordinator modules.

`bridges` has the scans whose bridge process runs: the launcher together with the child that
owns the camera, which `_stop_bridge_process` ends together. `Kill` may come at any moment of
a scan, its stop or its outputs. Before the `finally` clause has run it leaves the bridge
(`orphans`), which then runs on, during later scans too, until it exits by itself.

### Abstractions

* `ProtocolV1` keeps a slot collection as the function from slot identifiers that
  the ordered tuple denotes; layout, order and sighash types (only `SIGHASH_ALL`
  exists) are those of `ProtocolV1Codec`.
* Hashes are injective. A signature that verifies is determined by key, hash,
  `rho` and opening (`AntiExfilCrypto`), because low-S signatures are unique once their nonce point is
  fixed; so signatures are records, and `VerifyAntiExfil` is equality. `S2cEcdsa` has the
  functions themselves.
* A `rho` is named by its session and slot: `os.urandom` returns new values.
* In the coordinator modules a PSBT is a value, and which slots the signer controls in it
  is the constant `SlotsOf`; `PsbtV1` computes them.
* Signers are outside `src/`. A signer answers any message shown so far with, per
  slot, any nonce variant (0 is the RFC 6979 one), may echo one opening and sign
  with another, may leave the tweak out, may return any disclosed `rho`, and may answer
  for fewer slots.

## Runs

All runs but `abort_journal`, `envelope_link` and `physical_exchange` set
`CHECK_DEADLOCK FALSE`: with a bounded supply of session identifiers and a process killed
before its state is saved, nothing more can be initialised; scans are bounded by `MaxScans`;
and a session of `transcript` ends signed or refused.

| run | instance | states | shows |
|---|---|---|---|
| `coordinator_sequential` | 1 process, 2 directories, 2 sessions, PSBTs of 2 and 1 slots, 2 variants, 2 reveal paths, 1 damage, crashes unbounded | 45,875 | everything that must survive crashes, retries, dishonest signers and damage; refinement of `AntiExfilCeremony` |
| `coordinator_concurrent` | 2 processes, 1 directory, 1-slot PSBT, 2 sessions, 2 variants | 100,539 | what must hold even if commands race |
| `coordinator_progress` | 1 process, 2 directories, 2-slot PSBT, fairness | 5,014 | a disclosed session reaches its receipt |
| `coordinator_race` | 2 processes, 1 directory, 2 reveal paths | violated | commands that race can reveal twice |
| `psbt_sequential` | 1 process, all six commands, 2 directories, 2 sessions, 2 PSBTs, 2 variants, 1 damage | 539,718 | the same promises over another order of writes; refinement of `AntiExfilCeremony` |
| `psbt_sessions` | 2 processes, 2 sessions and 2 PSBTs in 1 directory, any answer at either reading of a response | 429,637 | what holds of a signature although a session may be bound to the PSBT of another one and a response replaced while it is verified |
| `psbt_progress` | 1 process, all commands, a PSBT that can be finalised and one that cannot, 2 variants, fairness | 7,960 | a bound session reaches its verified receipt |
| `abort_journal` | 3 session objects over 2 identifiers, reasons of different lengths, one too long to encode, 2 transcripts | 38,135 | journal and sessions in every order |
| `envelope_link` | 9 messages of both protocols, two of each alike in stage and length, 3 networks, 6 PSBTs (too short, empty, without magic, too long among them), up to 3 damages, either decoder | 1,943,440 | packages and damaged bytes |
| `camera_outputs` | 6 streams of 1 or 2 fragments, two of which never finish, table of 3, 3 scans, 3 argument lists, stopped or killed anywhere, fairness | 72,187 | candidates, camera and files over repeated scans; a scan finds its package |
| `physical_exchange` | 2 run directories, 1 card, 2 faults (kill, failed marker, failing signer, power cut), 1 cleared card, fairness | 35,940 | the card is never ahead of the host, and a killed exchange can be finished |
| `transcript` | curve modulo 43 with 31 points, 32-byte strings below 64, 128 choices of hash functions, 26 PSBTs, the fixture's session with one alteration | 8,926 | codec, PSBT semantics and arithmetic together, end to end |

Why the bounds are enough. Two sessions and two directories let sessions be
confused with each other and directories be reused; a third adds only another
bystander. Two variants are the least with which an opening can change; two slots
the least with which a message can be partial or one slot of several be wrong.
Two reveal paths matter because `write_exact` refuses to change a file, so with
one path a second reveal of another content could never get out and `OneReveal`
would hold for the wrong reason; only `package3` has two, since only the reveal
discloses `rho`. Two processes suffice for a lost update. Crashes are never
bounded. In `psbt_sequential` the PSBTs have their slots at different inputs, so that a
mixed-up PSBT shows; `psbt_sessions` has one nonce variant and no damage, because more does not fit; with it a
replaced response is one of the other session, without the tweak, or without a signature.
What racing reveals do to the opening a state holds is covered by `TranscriptSafety` and
`SignaturesBound`, which are theorems. In
`psbt_progress` two variants let `prepare_message_3` leave a refused message 2 in its
output directory, which then blocks that command but not the ceremony. The abort
journal needs two identifiers for an abort of another session, and reasons whose bytes
could be read in two ways without lengths. The damage bound, 1, allows a stored PSBT to be removed or replaced.

In `envelope_link` some message encodings begin with others or contain a PSBT's bytes, so
that a wrong cut gives another valid reading, and two differ in their values alone, which is
the change of a message that no decoder can notice; three damages let a PSBT, its length and its
digest be replaced together, which rung B cannot notice and v1 must. In `camera_outputs` a
table of 3 instead of 8 candidates can be filled by the streams of the instance, and is left
one free slot, the least with which a scan can succeed, by the two that never finish. Three
scans allow a completed one between two others, onto files that an earlier one left in part.

In `physical_exchange` two run directories are the least with which one can be mistaken for
the other. Two faults let a retry fail as well; one cleared card lets a second session be
prepared on it. Three would only repeat them: every state a fault leaves is a state of files,
from which the same commands start.

In `transcript` the curve is the smallest for which every edge of the arithmetic is met by one
of the 128 choices of hash functions: 64 with tweaks below the group order and 64 with tweaks
up to `Bytes32`. Limits are 5 slots, 3 per input and 3 keys, so that some PSBTs of the
instance exceed each of the first and the last; the second cannot be exceeded, which is the
theorem `EnumerationsAgree`. The fixture is that of `psbt_v1_fixtures.py`: four inputs of the
four script kinds and five slots, two of them in one input. Alterations are single, since the
checks that must catch them do not depend on each other; each cell may take any value of
`Junk` or of another cell.

Properties:

* `TypeOK`; `TranscriptInv`: a state file never mixes two transcripts.
* `CommitmentDurable`, `PersistBeforeReveal`: storage precedes disclosure.
* `OneReveal`: of each session at most one message 3 ever leaves.
* `SignedFromReveal`, `SignedTweaked`: what is signed, and under which randomness.
* `CompletionOrder`: signed PSBT, then COMPLETE, then receipt.
* `ImplementsCeremony`: all disclosures and the state files together are a
  behaviour of `AntiExfilCeremony`.
* `SessionsComplete`: every session shown is eventually receipted.
* `PackageBound`: a package for the second round carries the PSBT its message signs.
* `ReceiptOrder`: COMPLETE, then the internal receipt, then signed PSBT and transaction,
  then the receipt that certifies them.
* `SignedBound`: a signed PSBT fills the one slot of its key and, if a receipt certifies the
  signature in it, under the `rho` committed for that slot.
* `BoundSessionsComplete`: a session whose original is stored is eventually verified.
* `HistoryKept`, `OneEventEach`: the journal is append-only, one event per session.
* `UnseenAbortRevokes`, `RetryExact`: when a bound session may reveal, first and again.
* `DigestSeparates`: equal digests mean equal histories.
* `Canonical`: accepted bytes are the only encoding of what was read.
* `RoundTrip`: undamaged packages are read back by their own protocol only.
* `DamageDetected`: one damage is refused or leaves PSBT and stage, with another message of
  the same length or rung B's network byte changed.
* `BoundToMessage`: an accepted v1 package carries what its message names.
* `CandidatesWait`: the table is bounded and holds only streams that still wait.
* `CameraReleased`: the camera is given back on every exit path but a kill before `finally`.
* `OutputsAgree`, `CompleteMeansWritten`: output files over repeated scans.
* `ScansComplete`: a scan with a free slot ends: it finds its package, refuses one that does
  not decode, is cut short or is killed.
* `MarkerAnnounces`: what the marker asks of the signer can be done from the card alone.
* `RevealBacked`: no `rho` is in a message 3 before the state durably holds its opening.
* `ReceiptsAgree`: a verified receipt stands for the four messages of one session.
* `ExchangesFinish`: a prepared exchange reaches its receipt, unless a lasting trap closed.
* `OneReading`: an accepted wire encodes what was read from it, and comparing by position
  is comparing by identifier.
* `HonestNotRefused`: an undisturbed session fails for a PSBT not to be signed, or for one
  of three numeric edges, and for nothing else.
* `SignedSlots`: what is imported covers exactly the signer's slots, and each signature's
  nonce is the opening of message 2 tweaked by the host's `rho`, over real arithmetic.
* `CorpusRefused`: each package of the corpus is refused at the check it names.

`TypeOK` (files hold what their names say) is checked in three runs and proved of the
coordinators, the journal, the link and the camera receiver.

Only `TypeOK`, `TranscriptInv`, `SignedTweaked` and `SignedBound` hold of racing commands. The
others are promises of commands that run one at a time; the code has no lock and
`coordinator_race` shows that `OneReveal` needs one (see "findings" in
`PROJECT.json`): two `host_accept_openings_v1` load the same state, accept
different openings, save over each other, and each shows a reveal.

Three lasting traps of the card exchange bound what is claimed of it; `ExchangesFinish`
names each. A kill between the marker's temporary file and its replacement leaves a file
that `_replace_stage_marker` refuses for ever (`MarkerStuck`). A signer stage that failed, or
whose report was lost, is not run again (`SignerStuck`). And a response fetched into the run
directory of another exchange stays there, as `write_exact` never replaces it
(`Misfetched`). None of them gives out a `rho` twice.

Three numeric edges bound what is claimed of an honest session (`HonestNotRefused`): two
equal openings of one key cannot be encoded (codec), a tweak beyond the group order raises,
and a nonce candidate whose point was sent as the opening but which signing passes over
(zero nonce, `r` or `s`; `crypto.py:190-207`) yields a signature that does not match the
opening. On secp256k1 each has negligible probability; on the instance's curve all happen.

Three weaknesses of the rung C commands bound what is claimed of them.
`host_init_psbt` shows message 1 before the PSBT is stored: killed in between, the
session can be revealed but never verified, so `BoundSessionsComplete` begins when the
original is stored. And `host_verify` completes a session before the PSBT is rebuilt:
with a PSBT outside `Importable` no retry gives an output, so the property asks for one
inside. The third is the response file. `docs/transport-aext.md:66-68` says that the host
verifies the signature and "then imports only the expected signature"; but
`host_verify_psbt` imports what it read first (`psbt_workflow.py:112`, `118-128`), and
`host_verify` verifies what it reads later (`workflow.py:145`). If the file is replaced in
between, a signature that nothing has verified gets into the signed PSBT and a
`psbt_receipt` is written beside it: TLC reaches both in the instance of `psbt_sessions`.
`SignedBound` therefore speaks of the slot, which `reconstruct_signed_psbt` always checks, and
of the signatures that receipts name, which were verified. A retry does not repair it either:
`write_exact` keeps the signed PSBT that is there, and no right one can be written under that
name, so `psbt_progress` assumes the file is left alone. The card exchange is not exposed to
this as long as nobody changes its run directory: `verify` copies the response there first.

Four facts of the transport bound what is claimed of it. An empty PSBT object counts as
present in `encode` (`is not None`) and is written as absent, although
`docs/transport-aext.md`, section 3, says the PSBT must be there; no caller passes one, and
`RoundTrip` shows that no decoder takes the result. Nothing in a rung B package repeats its
network, so `DamageDetected` excepts that byte. The digest covers the PSBT only: where a
commitment, opening, `rho` or signature is changed into another that decodes, neither decoder
can notice, and `DamageDetected` excepts it too. What is then left to the protocol is the
subject of `SignedSlots`, whose sessions have their packages altered on any of the four ways.
And a complete package that does not decode ends a scan, while malformed symbols are skipped:
`ScansComplete` counts that as an end of the scan.

### Fairness

`coordinator_progress` assumes that a process that is not killed goes on
(weak fairness of its storage steps, of `_load_original` and of refusing an input
it will not accept: a Python process between two calls); that processes are
killed only finitely often; and that the operator is persistent: for every
session directory both later commands are run time and again, and time and again
the package brought to them is one that the command accepts if there is one
(strong fairness of `LoadState` and of the accepting steps per directory, since
each is disabled while another command runs). This is an assumption about the
operator (the exact retry that `docs/protocol-v1-wire-format.md`, section 9,
provides for), not about the code; nothing in the code retries by itself. Damage is excluded: a session whose stored PSBT is
gone is stuck for good. `psbt_progress` assumes the same of `host_reveal` and
`host_verify_psbt`; of `prepare_message_3` and `host_verify` only that, once begun, they
do not hang. It assumes besides that the operator leaves the response file alone while
`host_verify_psbt` runs, so that its two readings give one message (`ResponseKept`), and time
and again has it be the right one. `camera_outputs` assumes that the symbols of an animated display are read
again and again (`docs/transport-aext.md`, section 4: the sender must go on producing parts),
and that a receiver that is not killed stops its bridge and writes its outputs. Of a display of one symbol
nothing is assumed: the bridge reports changed symbols only. `physical_exchange` assumes that
a command that is not killed goes on and that a signer that answered reports (weak fairness);
that the operator keeps carrying the card and retrying `reveal` and `verify` for each run, and
a booted signer that is asked keeps being able to answer (strong fairness, as the card is away
in between); faults and cleared cards are finitely many.

## Proofs

`CoordinatorV1Proofs` proves, for every set of processes, directories, PSBTs,
slots, paths and signer variants, from `CoordinatorAssumption` alone:

* `TypeCorrect`: `Spec => []TypeOK`; `TranscriptSafety`: `Spec => []TranscriptInv`.
  The inductive invariant is `Inv`: files and jobs hold *transcripts*. The central
  lemmas, `AcceptTranscript` and `CompleteTranscript`, say that what each command
  makes of a transcript is a transcript that keeps the reveal; since a process
  writes back only what it derived from one state it read, overwriting another
  process's state cannot mix the two, and `Inv` survives any race.
* `SignaturesTweaked`: `Spec => []SignedTweaked`, races included. `CommitInv` adds
  that accepted openings answer a *shown* message 1, and that a shown message 1
  is determined by its session and PSBT; `AcceptedCommitShown` concludes that the
  message 1 the state holds was itself shown, and `SignedTranscript` reads the
  guarantee off a complete transcript.
* `RevealedOnce` and `RevealedFromDisk`: `Spec => []OneReveal` and
  `Spec => []PersistBeforeReveal` under the assumption `Sequential`, that there is
  at most one process. `Inv` is too weak: one needs to know that the process's
  state continues the one on disk (`HeldInv`), that a session lives in one
  directory (`OneDirectory`) and that each shown reveal is stored in a phase that
  makes it final (`RevealOnDisk`); `SequentialInv` is their conjunction. The run
  `coordinator_race` shows that the assumption is needed.

The same module proves, under `Sequential`, `CommitmentsDurable`
(`[]CommitmentDurable`), `SignedFromReveals` (`[]SignedFromReveal`) and `CompletedInOrder`
(`[]CompletionOrder`). `SequentialInv` and `SignedInv` do not say enough of what a
command is about to do: `RestsInv` adds that the state in memory continues the one on disk
(a completed session keeps its message 4), that the stored original was written before
message 1 is shown, that whoever is completing answers a *shown* reveal
(`HeldRevealShown`: one session has one directory, so the reveal that the signatures answer is
the one held), and that a held COMPLETE state has its signed PSBT in a file unless that is
the very next write. `ReplaceFiles` says what a durable write can do to files: states are
continued, all else is only added.

It also proves `CoordinatorImplements` (`Spec => ImplementsCeremony`). The refinement needs
`AnsweredInv` besides: a state past `COMMITMENTS_CREATED`, on disk or in memory, has
accepted openings that a signer can give, and the first state of a session has accepted
none. With one directory per session (`OneDirectory`), each durable write is a step of
`AntiExfilCeremony`: the package of message 1 is `Commit` (or a repetition), the first save
of a message 2 `Accept`, the package of message 3 `Reveal`, the signed PSBT `Import`, the
receipt `Certify`; all other steps stutter. `OpeningsAssumption` says that the value for "no
openings" is not an opening set.

`PsbtWorkflowProofs` proves, from `WorkflowAssumption` alone and for any number of
processes, `TypeCorrect`, `TranscriptSafety` and `SignaturesBound`
(`Spec => []SignedBound`). The inductive invariant is again called `Inv`. Its argument is
that whatever a process holds was right when it was read, and that no later overwriting
can make it wrong: files and processes hold transcripts (`GoodState`); every message in
flight is about a message 1 that was shown (`Answering`, which only grows); what
`host_verify` has accepted verifies against the `rho` of a transcript (`Verified`), and
receipts are made of nothing else; and what `host_verify_psbt` read first, verified or not,
was checked by `reconstruct_signed_psbt` against the PSBT in memory: since an answer signs
the key and hash it names (`SignsItsSlot`), its signature fills the slot it is for
(`FillsItsSlot`). The two readings meet only in `Certified`: a signature in a signed PSBT that
some receipt names is one that was verified, in this process or another. `SignedBound` alone
is not inductive, since it says nothing of a process that is about to write.

With the hypothesis `Sequential` added it proves `PackagesBound` (`Spec =>
[]PackageBound`), `ReceiptsInOrder` (`Spec => []ReceiptOrder`) and `WorkflowImplements`
(`Spec => ImplementsCeremony`). `SequentialInv` says of the one process that what it holds fits
together (`Fits`) and is the state of its directory, or continues it where a save is due
(`InStep`: neither a PSBT nor a completed signature is lost), and of what was shown that it
rests on a state (`OutcomesRest`). The refinement needs more, `LinkInv`: one directory per
session, an opening a signer can have given in every shown message 2 and, behind every
shown message 3, the state with its opening. From it each durable write is a step of
`AntiExfilCeremony`: message 1 is `Commit`, the save of an opening `Accept`, message 3
`Reveal`, the save of a signature `Import`, a receipt `Certify`; all other steps stutter.

`TranscriptV1Proofs` has six parts.

* Enumerations (`PsbtV1`): for every PSBT, root and limits that satisfy
  `MultisigAssumption`, `EnumerationsAgree` (the fingerprint enumeration gives the root's
  slots whenever the paths of the PSBT derive their keys, although it checks neither the
  paths nor the slots per input: supported scripts have at most `MaxMultisigKeys` keys) and
  `SignerSlotsAreOwn` (what the signer enumerates the host would ask for, unsigned, of a
  supported script, with keys of the signer's root).
* Codec (`ProtocolV1Codec`), from `SlotLimitAssumption`: `MessageReadBack`, that every valid
  message is read back from its encoding, and `WireIsEncoding`, that whatever
  `decode_message` accepts is the encoding of what it read. Both need that records of one
  width, laid end to end, are cut where they were joined, for any number of them; this is an
  induction over a fold, made in `SequenceLemmas`.
* Sessions (`TranscriptV1`), from `TranscriptAssumption`: `SlotsSigned` (`Spec =>
  []SignedSlots`), with every damage, replacement and dishonest nonce of the model and for
  every curve and hash. `SignedSlots` speaks of the last step only. The invariant
  `SessionInv` says what each of the four turns may rely on: that message 1 asks for the
  root's slots, that message 2 keeps its slots, that message 3 adds the host's own rhos, that
  message 4 answers it. These do not hold outright, as message 1 may ask for slots of an
  enumeration that checks no path and a package may be altered before the device reads it;
  but since one thing may go wrong, an unaltered package is what its sender sent, an altered
  one was read by a check that follows from there, and what the device vouched for last
  stays vouched for. In the last step the commitments are pairwise distinct, hence so are the
  identifiers, so the signed slots inject into the root's, of which there are as many.
* Arithmetic (`S2cEcdsa`), from `CurveAssumption`, `PrimeAssumption` and `GroupAssumption`:
  `HonestSignatureAccepted`, that `verify_anti_exfil` accepts what `anti_exfil_sign` returns,
  with the opening returned beside it, and that this opening is the one of message 2 unless
  the first nonce candidate is passed over. The group law and the order of the generator are
  assumed (TLC evaluates both assumptions on the instance's curve); the code's own part is
  proved. The double-and-add loop has a solution and adds a point as often as the scalar
  says (`DoubleAndAddIs`, `OneMore`), hence multiples add and multiply as scalars do
  modulo `GroupN` (`MultipleSum`, `MultipleProduct`). A point is read back from its 33 bytes,
  its two roots differing in parity (`PointReadBack`). `LowS` may negate `s`, which turns the
  nonce point into its mirror image with the same `x` (`Verifying`, `MultipleOpposite`).
* The undisturbed session (`TranscriptV1`): `HonestRefusalsOnly` (`Spec =>
  []HonestNotRefused`). On top of the assumptions above it needs `SettingAssumption` (the
  device is set for the session's network, its secrets are scalars, the rhos of a session and
  their commitments are distinct) and `CommitmentAssumption` (commitments are numbers, and no
  two rhos have the same one), which TLC evaluates, and two hypotheses: `HashesAssumed`, that
  the point hash yields numbers and the nonce stream a scalar, and `ValuesApart`, that the
  placeholders of the model are not messages. Without the first there is nothing to sign with
  and without the second nothing tells a refusal from a message; the instance's hashes and
  model values satisfy both. The invariant is `UndisturbedInv`: as long as nothing was
  altered, message 1 is the one made of an enumeration (`CommitMade`) and every later message
  is a function of it (`Expected`), so each check is made of known values. The codec's are met
  since enumerations are in order and their commitments, rhos and openings distinct, the
  last unless the device refused; the device's since `ByRoot` is `ByFingerprint` whenever the
  paths derive; the host's since an honest signature verifies (`HonestSignatureAccepted`).
* One reading (`TranscriptV1`, `ProtocolV1`): `ReadingsAgree` (`Spec => []OneReading`),
  from `SlotLimitAssumption`, `MultisigAssumption`, `TranscriptAssumption` and
  `CommitmentAssumption`. `OneReading` holds whatever damage, corpus case or dishonest
  nonce a session has met. Its first part is `WireIsEncoding`, which needs that the
  package under way has the fields of a wire; the invariant `PackageInv` says so, and to
  survive damage also that an unaltered package is laid out from a message. The other two
  parts are about `Meaning`, which takes a message to the one `ProtocolV1` has, with slots
  known by identifier: a message the codec finds valid means a valid one (`MeaningValid`),
  and `validate_transition`, which pairs slots by position, accepts what `ProtocolV1`
  accepts by identifier (`TransitionMeans`). Both rest on the order of the slots: slots in
  order have distinct identifiers, so as many as there are slots (`IdentifiersCounted`),
  and two sequences in order of the same identifiers agree at each place (`SamePlaces`).
  Commitments must be binding, as `ProtocolV1` takes them to be: it has the rho in place
  of its hash.

`PhysicalExchangeProofs` proves, from `ExchangeAssumption`, `MarkerAnnouncesAlways`,
`RevealBackedAlways` and `ReceiptsAgreeAlways` for any number of run directories, faults and
cleared cards. A session fixes its four messages (the signer is deterministic), so the
invariant says which message each file may hold; and of a command under way it says that
what each pending write relies on is already there or among the writes before it. The
properties are not inductive without the second: they say nothing of a command killed
half-way and of what its retry will find.

`AbortJournalProofs` proves, from `JournalAssumption`, `TypeCorrect`, `RecordedOnce`,
`HistoryAppended`, `RetriesExact`, `DigestsSeparate` (`Spec => []DigestSeparates`) and
`UnseenAbortsRevoke`. The last two rest on the lemma `DigestInjective`: histories with equal
digests are equal, since each field is behind its length and the events behind their number.
A fold is computed from its last element by a recursive function (`SequenceLemmas`), and the
lemma follows by taking a shortest history that would be read in a second way. It needs
neither a bound on the journal nor a hash: what `SHA-256` adds is collision resistance.

`EnvelopeLinkProofs` proves, from `EnvelopeAssumption` and `LinkAssumption`, `TypeCorrect`,
`CanonicalReading`, `ReadBack`, `MessageBinds` and `DamageNoticed` (`Spec =>
[]DamageDetected`). The state part is small (`LinkInv`: the
result is what the decoder makes of the bytes, which are the encoder's until damaged); the
work is in the lemmas about the codec: `ReadingIsCanonical`, that the checks of `decode`
determine every byte, so the comparison that rung B leaves out could not fail, and
`EncodedIsRead`, that injective message encodings leave one reading. `DamageNoticed` has a lemma for
each kind of damage: behind the header that was sent, a body that is accepted has a message of
the length the header gives and then the PSBT of the digest (`BodyChangeRead`); of the header,
each field but rung B's network contradicts another or the body (`HeaderChangeRefused`).

`CameraReceiverProofs` proves, from `ReceiverAssumption`, `TypeCorrect`, `TableBounded`,
`CameraGivenBack`, `OneSetOfOutputs` and `CompletionWritten`, for any number of streams,
candidates and scans. `ReceiverInv` adds to the properties that a selected stream decodes
and matches (`SelectionInv`) and that the outputs a scan is past hold its parts
(`OutputInv`); `OutputsAgree` needs the second, since a message file is only right because
the package file was written or found equal before. `CameraReleased` is inductive by itself: a
scan starts only when the one before has stopped its bridge or left it as an orphan.

Only model-checked:

* `CorpusRefused`, a statement about the packages of one fixture, which TLC computes.
* The progress properties, since liveness under fairness is out of the prover's reach.

## Plan

Done: the core (`CoordinatorV1` and what it rests on), the abort journal, rungs B and C, the
card exchange, transport and camera, the codec with PSBT semantics and arithmetic, and the
proofs listed above, which include both refinements of `AntiExfilCeremony`. Left:
`SelectiveAbortJournal` (`adversarial.py`), the older form of the journal for one session.

The library's induction theorems take an operator, which the installed provers cannot
instantiate. Where induction over data was needed (`FlattenSeq`, `Digest`, records on a
wire, `DoubleAndAdd`) it is made from the existence of a least element.

## Not modelled

HMAC and SHA-256 (parameters or injective operators), PSBT parsing and BIP 143 hashes
(embit's), UR and CBOR, the bytes of AEXB messages, DER, images and QR pages, the command
line (argument parsing around the modelled commands, and demonstrations that run host and
signer in one process), the native binding, error codes, fixtures' files and release scripts.
They keep no state of the ceremony, or compute functions that the modules take as constants
or as injective operators. The Sparrow coordinator, the SeedSigner firmware and the card's
boot script are not in this repository; the signer appears through what it may send.
