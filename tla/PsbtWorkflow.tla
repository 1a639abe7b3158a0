---------------------------- MODULE PsbtWorkflow ----------------------------
(***************************************************************************)
(* The single-slot ceremony that came before protocol v1: the Rung B host  *)
(* commands (workflow.py), the Rung C commands that bind a session to a    *)
(* PSBT (psbt_workflow.py) and the preparation of message 3 for QR display *)
(* (coordinator.py), on the file store (storage.py).                       *)
(*                                                                         *)
(* As in CoordinatorV1 each command is a process, each durable write is a  *)
(* step, nothing locks a session directory, and a process may be killed    *)
(* before any step.  The order of writes is another one: message 1 is      *)
(* shown before the session is bound to its PSBT, and completion is saved  *)
(* before any output exists.                                               *)
(***************************************************************************)
EXTENDS AntiExfilCrypto, Naturals, FiniteSets

CONSTANTS
    Commands,      \* the commands the operator uses
    Proc,          \* processes the operator may run at the same time
    Dir,           \* session directories
    Psbt,          \* PSBTs offered for signing
    SlotsOf,       \* [Psbt -> set of slots]: its native P2WPKH, SIGHASH_ALL inputs
    Importable,    \* PSBTs not yet signed by the signer, and final once they are
    Session,       \* what os.urandom may draw as session identifiers
    OutPath,       \* names the operator gives to a command's outputs
    Variant,       \* nonce variants signers use (see NoncePoint), 0 among them
    MaxDamage      \* bound: stored PSBTs changed from outside

ASSUME WorkflowAssumption ==
    /\ \A q \in Psbt : \A s \in SlotsOf[q] :
          s = [input |-> s.input, key |-> s.key, hash |-> s.hash]
    /\ Commands \subseteq {"init", "init_psbt", "reveal", "prepare", "verify", "verify_psbt"}
    /\ Importable \subseteq Psbt
    /\ 0 \in Variant
    /\ MaxDamage \in Nat

VARIABLES
    disk,      \* [existing files -> contents]: everything that survives a process
    job,       \* [Proc -> the process's program counter and memory]
    shown,     \* every output an operator has been able to take away (history)
    drawn,     \* session identifiers os.urandom has returned so far
    damage     \* how many stored PSBTs were changed from outside

vars == <<disk, job, shown, drawn, damage>>

-----------------------------------------------------------------------------
(***************************************************************************)
(* messages.py and psbt_tools.py                                           *)
(***************************************************************************)

HOST_COMMIT       == 1
SIGNER_OPENINGS   == 2
HOST_REVEAL       == 3
SIGNER_SIGNATURES == 4

CommitMessage(state) ==
    [kind |-> "message", stage |-> HOST_COMMIT, session |-> state.session,
     key |-> state.key, hash |-> state.hash, commitment |-> state.commitment,
     opening |-> Absent, rho |-> Absent, signature |-> Absent]

\* The fields of each stage (_validate_message).
ValidMessage(m) ==
    /\ m.opening # Absent <=> m.stage >= SIGNER_OPENINGS
    /\ m.rho # Absent <=> m.stage >= HOST_REVEAL
    /\ m.signature # Absent <=> m.stage >= SIGNER_SIGNATURES

RevealMessage(openings, rho) == [openings EXCEPT !.stage = HOST_REVEAL, !.rho = rho]

SlotsFor(psbt, key) == {s \in SlotsOf[psbt] : s.key = key}

\* find_single_p2wpkh_slot: the PSBT has this slot of the key and no other.
SingleSlot(psbt, slot) == SlotsFor(psbt, slot.key) = {slot}

\* What a command writes besides messages.  A signed PSBT stands for the raw
\* transaction that is final with it.
Package(message, psbt) == [kind |-> "package", message |-> message, psbt |-> psbt]

SignedPsbt(psbt, input, m) ==
    [kind |-> "signed", psbt |-> psbt, input |-> input, key |-> m.key, signature |-> m.signature]

RawTransaction(psbt, input, m) == [SignedPsbt(psbt, input, m) EXCEPT !.kind = "raw"]

Receipt(m) == [kind |-> "receipt", message |-> m]

\* host_verify's receipt for m, with the digests of what was made of another reading.
PsbtReceipt(psbt, input, read, m) ==
    [kind |-> "psbt_receipt", message |-> m, signed |-> SignedPsbt(psbt, input, read)]

-----------------------------------------------------------------------------
(***************************************************************************)
(* Files.                                                                  *)
(***************************************************************************)

StateFile(d)    == <<"state.json", d>>
OriginalFile(d) == <<"original.psbt", d>>
InternalReceiptFile(d) == <<"anti-exfil-receipt.json", d>>
OutFile(kind, out)     == <<kind, out>>

OutKinds == {"message-1", "message-3", "receipt", "signed.psbt", "transaction.raw",
             "verified-receipt", "prepared/message-2", "prepared/message-3",
             "prepared/package"}

File == ({"state.json", "original.psbt", "anti-exfil-receipt.json"} \X Dir)
            \union (OutKinds \X OutPath)

Exists(f) == f \in DOMAIN disk

States == {disk[f] : f \in {StateFile(d) : d \in Dir} \intersect DOMAIN disk}

Outputs == {disk[f] : f \in (OutKinds \X OutPath) \intersect DOMAIN disk}

\* The messages of one stage that have left the host.
Disclosed(stage) == {o \in shown : o.kind = "message" /\ o.stage = stage}

-----------------------------------------------------------------------------
(***************************************************************************)
(* What an operator may bring back from a signer: any answer to any        *)
(* message shown so far.  A signer may echo one opening and sign with      *)
(* another, return any rho it has been told, and leave out the tweak.      *)
(***************************************************************************)

OpeningsFrom(m) ==
    {[m EXCEPT !.stage = SIGNER_OPENINGS,
               !.opening = NoncePoint(m.key, m.hash, m.commitment, v)] : v \in Variant}

SignerChoice ==
    [echoed : Variant, signed : Variant, tweaked : BOOLEAN,
     rho : {m.rho : m \in Disclosed(HOST_REVEAL)}]

SignaturesFrom(m) ==
    LET Point(v) == NoncePoint(m.key, m.hash, m.commitment, v)
    IN  {[m EXCEPT !.stage = SIGNER_SIGNATURES,
                   !.opening = Point(choice.echoed),
                   !.rho = choice.rho,
                   !.signature = AntiExfilSignature(m.key, m.hash,
                        IF choice.tweaked THEN choice.rho ELSE Absent,
                        Point(choice.signed))] : choice \in SignerChoice}

SignerAnswers ==
    UNION ({OpeningsFrom(m) : m \in Disclosed(HOST_COMMIT)}
             \union {SignaturesFrom(m) : m \in Disclosed(HOST_REVEAL)})

-----------------------------------------------------------------------------
(***************************************************************************)
(* A process.  The program counter names what comes next; "held" is the    *)
(* state dictionary in memory, "psbt" and "input" the PSBT in memory and   *)
(* the index of its slot, "message" the response it was given, "clear"     *)
(* whether the existence test of the next write has passed.                *)
(* host_verify_psbt opens the operator's response file once, and           *)
(* host_verify opens it again: "read" is what is imported of the first     *)
(* reading, "message" what the second one gave.                            *)
(***************************************************************************)

Idle == [pc |-> "idle"]

Job(pc, command, d, out) ==
    [pc |-> pc, command |-> command, dir |-> d, out |-> out, held |-> Absent,
     psbt |-> Absent, input |-> Absent, read |-> Absent, message |-> Absent, clear |-> FALSE]

Resume(p, pc) == [job[p] EXCEPT !.pc = pc, !.clear = FALSE]

Become(p, j) == job' = [job EXCEPT ![p] = j]

Exit(p) == Become(p, Idle)

\* (Fault: the verified receipt is written before the outputs it certifies.)
NextPcReceiptFirst(j) ==
    CASE j.pc = "init_state"                                      -> "init_message1"
      [] j.pc = "init_message1" /\ j.command = "init_psbt"        -> "bind"
      [] j.pc = "bind_state"                                      -> "bind_original"
      [] j.pc = "prepare_message2"                                -> "prepare_load"
      [] j.pc = "reveal_state"                                    -> "reveal_message3"
      [] j.pc = "reveal_message3" /\ j.command = "prepare"        -> "prepare_original"
      [] j.pc = "verify_state"                                    -> "verify_receipt"
      [] j.pc = "verify_receipt" /\ j.command = "verify_psbt"     -> "import"
      [] j.pc = "import_signed"                                   -> "import_receipt"
      [] j.pc = "import_receipt"                                  -> "import_raw"
      [] OTHER                                                    -> "done"

\* The order of each command's durable writes, and the reads between them.
NextPc(j) ==
    CASE j.pc = "init_state"                                      -> "init_message1"
      [] j.pc = "init_message1" /\ j.command = "init_psbt"        -> "bind"
      [] j.pc = "bind_state"                                      -> "bind_original"
      [] j.pc = "prepare_message2"                                -> "prepare_load"
      [] j.pc = "reveal_state"                                    -> "reveal_message3"
      [] j.pc = "reveal_message3" /\ j.command = "prepare"        -> "prepare_original"
      [] j.pc = "verify_state"                                    -> "verify_receipt"
      [] j.pc = "verify_receipt" /\ j.command = "verify_psbt"     -> "import"
      [] j.pc = "import_signed"                                   -> "import_raw"
      [] j.pc = "import_raw"                                      -> "import_receipt"
      [] OTHER                                                    -> "done"

Advance(p) ==
    IF NextPc(job[p]) = "done" THEN Exit(p) ELSE Become(p, Resume(p, NextPc(job[p])))

SavePcs == {"bind_state", "reveal_state", "verify_state"}

\* The file a durable write goes to.
Target(j) ==
    CASE j.pc \in SavePcs \union {"init_state"} -> StateFile(j.dir)
      [] j.pc = "bind_original"    -> OriginalFile(j.dir)
      [] j.pc = "init_message1"    -> OutFile("message-1", j.out)
      [] j.pc = "prepare_message2" -> OutFile("prepared/message-2", j.out)
      [] j.pc = "reveal_message3"  ->
            OutFile(IF j.command = "prepare" THEN "prepared/message-3" ELSE "message-3", j.out)
      [] j.pc = "prepare_package"  -> OutFile("prepared/package", j.out)
      [] j.pc = "verify_receipt"   ->
            IF j.command = "verify_psbt" THEN InternalReceiptFile(j.dir)
                                         ELSE OutFile("receipt", j.out)
      [] j.pc = "import_signed"    -> OutFile("signed.psbt", j.out)
      [] j.pc = "import_raw"       -> OutFile("transaction.raw", j.out)
      [] OTHER                     -> OutFile("verified-receipt", j.out)

\* What it writes there.
Data(j) ==
    CASE j.pc \in SavePcs \union {"init_state"} -> j.held
      [] j.pc = "bind_original"    -> j.psbt
      [] j.pc = "init_message1"    -> CommitMessage(j.held)
      [] j.pc = "prepare_message2" -> j.message
      [] j.pc = "reveal_message3"  -> RevealMessage(j.message, j.held.rho)
      [] j.pc = "prepare_package"  -> Package(RevealMessage(j.message, j.held.rho), j.psbt)
      [] j.pc = "verify_receipt"   -> Receipt(j.message)
      [] j.pc = "import_signed"    -> SignedPsbt(j.psbt, j.input, j.read)
      [] j.pc = "import_raw"       -> RawTransaction(j.psbt, j.input, j.read)
      [] OTHER                     -> PsbtReceipt(j.psbt, j.input, j.read, j.message)

OutputPcs == {"init_message1", "prepare_message2", "reveal_message3", "prepare_package",
              "verify_receipt", "import_signed", "import_raw", "import_receipt"}

ExactPcs == OutputPcs \union {"bind_original"}

-----------------------------------------------------------------------------
(***************************************************************************)
(* storage.py                                                              *)
(***************************************************************************)

Written(f, content) ==
    [g \in DOMAIN disk \union {f} |-> IF g = f THEN content ELSE disk[g]]

\* write_exact and save_state(create=True) on a path that names no file.
FindAbsent(p) ==
    /\ job[p].pc \in ExactPcs \union {"init_state"}
    /\ ~job[p].clear
    /\ ~Exists(Target(job[p]))
    /\ Become(p, [job[p] EXCEPT !.clear = TRUE])
    /\ UNCHANGED <<disk, shown, drawn, damage>>

\* (Fault: any file that is already there is refused.)
FindSameRefused(p) ==
    /\ job[p].pc \in ExactPcs
    /\ ~job[p].clear
    /\ Exists(Target(job[p]))
    /\ disk[Target(job[p])] = Data(job[p])
    /\ Exit(p)
    /\ UNCHANGED <<disk, shown, drawn, damage>>

\* write_exact on a file that already holds these bytes.
FindSame(p) ==
    /\ job[p].pc \in ExactPcs
    /\ ~job[p].clear
    /\ Exists(Target(job[p]))
    /\ disk[Target(job[p])] = Data(job[p])
    /\ Advance(p)
    /\ UNCHANGED <<disk, shown, drawn, damage>>

\* OUTPUT_EXISTS: write_exact refuses to replace other bytes.  RETRY_CONFLICT:
\* save_state(create=True) refuses to replace any state.
FindConflict(p) ==
    /\ job[p].pc \in ExactPcs \union {"init_state"}
    /\ ~job[p].clear
    /\ Exists(Target(job[p]))
    /\ job[p].pc \in ExactPcs => disk[Target(job[p])] # Data(job[p])
    /\ Exit(p)
    /\ UNCHANGED <<disk, shown, drawn, damage>>

\* _atomic_replace; a save_state without create makes no test first.
AtomicReplace(p) ==
    /\ job[p].pc \in SavePcs \/ (job[p].pc \in ExactPcs \union {"init_state"} /\ job[p].clear)
    /\ disk' = Written(Target(job[p]), Data(job[p]))
    /\ shown' = IF job[p].pc \in OutputPcs THEN shown \union {Data(job[p])} ELSE shown
    /\ Advance(p)
    /\ UNCHANGED <<drawn, damage>>

-----------------------------------------------------------------------------
(***************************************************************************)
(* Creating a session: host_init, and host_init_psbt around it.            *)
(***************************************************************************)

\* os.urandom never repeats: a rho is named by the session it was drawn with.
Rho(session) == [session |-> session]

\* (Fault: no field for the opening.)
InitialStateShort(session, slot) ==
    [phase |-> "COMMITMENTS_CREATED", session |-> session, key |-> slot.key,
     hash |-> slot.hash, rho |-> Rho(session), commitment |-> HostCommit(Rho(session)),
     signature |-> Absent, rung |-> Absent, psbt |-> Absent, input |-> Absent]

\* The fields host_init_psbt adds later are not there yet.
InitialState(session, slot) ==
    [phase |-> "COMMITMENTS_CREATED", session |-> session, key |-> slot.key,
     hash |-> slot.hash, rho |-> Rho(session), commitment |-> HostCommit(Rho(session)),
     opening |-> Absent, signature |-> Absent,
     rung |-> Absent, psbt |-> Absent, input |-> Absent]

HostInit(p) ==
    /\ job[p].pc = "idle"
    /\ "init" \in Commands
    /\ \E d \in Dir, session \in Session \ drawn, out \in OutPath,
          slot \in UNION {SlotsOf[q] : q \in Psbt} :
          /\ Become(p, [Job("init_state", "init", d, out) EXCEPT
                            !.held = InitialState(session, slot)])
          /\ drawn' = drawn \union {session}
    /\ UNCHANGED <<disk, shown, damage>>

HostInitPsbt(p) ==
    /\ job[p].pc = "idle"
    /\ "init_psbt" \in Commands
    /\ \E d \in Dir, session \in Session \ drawn, out \in OutPath, psbt \in Psbt :
          \E slot \in SlotsOf[psbt] :
              /\ SingleSlot(psbt, slot)
              /\ Become(p, [Job("init_state", "init_psbt", d, out) EXCEPT
                                !.held = InitialState(session, slot),
                                !.psbt = psbt, !.input = slot.input])
              /\ drawn' = drawn \union {session}
    /\ UNCHANGED <<disk, shown, damage>>

\* host_init_psbt after host_init has returned: the state is read again and gets the
\* PSBT's digest and slot.
BindPsbt(p) ==
    /\ job[p].pc = "bind"
    /\ Exists(StateFile(job[p].dir))
    /\ Become(p, [Resume(p, "bind_state") EXCEPT
            !.held = [disk[StateFile(job[p].dir)] EXCEPT
                         !.rung = "C", !.psbt = job[p].psbt, !.input = job[p].input]])
    /\ UNCHANGED <<disk, shown, drawn, damage>>

-----------------------------------------------------------------------------
(***************************************************************************)
(* host_reveal, and prepare_message_3 around it.                           *)
(***************************************************************************)

\* load_state, the first thing host_reveal, host_verify and host_verify_psbt do.
LoadState(p, d, command) ==
    /\ job[p].pc = "idle"
    /\ Exists(StateFile(d))
    /\ \E out \in OutPath :
          Become(p, [Job(command, command, d, out) EXCEPT !.held = disk[StateFile(d)]])
    /\ UNCHANGED <<disk, shown, drawn, damage>>

\* _require_state_context
StateContext(state, m) ==
    <<state.session, state.hash, state.key, state.commitment>>
        = <<m.session, m.hash, m.key, m.commitment>>

\* (Fault: a retry is not compared with the opening accepted before.)
OpeningAcceptedAnyRetry(state, m) ==
    /\ ValidMessage(m) /\ m.stage = SIGNER_OPENINGS
    /\ StateContext(state, m)

OpeningAccepted(state, m) ==
    /\ ValidMessage(m) /\ m.stage = SIGNER_OPENINGS
    /\ StateContext(state, m)
    /\ \/ state.phase = "COMMITMENTS_CREATED"
       \/ state.phase \in {"OPENINGS_ACCEPTED", "COMPLETE"} /\ state.opening = m.opening

\* The input of host_reveal: a file of the operator, or the message 2 that
\* prepare_message_3 has put in its output directory.
RevealInputs(j) ==
    IF j.command = "prepare" THEN {disk[OutFile("prepared/message-2", j.out)]}
                             ELSE SignerAnswers

\* (Fault: a retry is saved as well.)
HostRevealResetsPhase(p) ==
    /\ job[p].pc = "reveal"
    /\ \E m \in RevealInputs(job[p]) :
          /\ OpeningAccepted(job[p].held, m)
          /\ Become(p, [Resume(p, "reveal_state") EXCEPT
                  !.message = m,
                  !.held = [@ EXCEPT !.opening = m.opening, !.phase = "OPENINGS_ACCEPTED"]])
    /\ UNCHANGED <<disk, shown, drawn, damage>>

\* The first accepted opening is saved; a retry must bring the same one and saves
\* nothing.
HostReveal(p) ==
    /\ job[p].pc = "reveal"
    /\ \E m \in RevealInputs(job[p]) :
          /\ OpeningAccepted(job[p].held, m)
          /\ IF job[p].held.phase = "COMMITMENTS_CREATED"
             THEN Become(p, [Resume(p, "reveal_state") EXCEPT
                     !.message = m,
                     !.held = [@ EXCEPT !.opening = m.opening, !.phase = "OPENINGS_ACCEPTED"]])
             ELSE Become(p, [Resume(p, "reveal_message3") EXCEPT !.message = m])
    /\ UNCHANGED <<disk, shown, drawn, damage>>

\* prepare_message_3 takes a message 2 for any session and copies it first.
PrepareMessage3(p) ==
    /\ job[p].pc = "idle"
    /\ "prepare" \in Commands
    /\ \E d \in Dir, out \in OutPath, m \in SignerAnswers :
          /\ ValidMessage(m) /\ m.stage = SIGNER_OPENINGS
          /\ Become(p, [Job("prepare_message2", "prepare", d, out) EXCEPT !.message = m])
    /\ UNCHANGED <<disk, shown, drawn, damage>>

PrepareLoad(p) ==
    /\ job[p].pc = "prepare_load"
    /\ Exists(StateFile(job[p].dir))
    /\ Become(p, [Resume(p, "reveal") EXCEPT !.held = disk[StateFile(job[p].dir)]])
    /\ UNCHANGED <<disk, shown, drawn, damage>>

OriginalIs(d, psbt) ==
    /\ psbt # Absent
    /\ Exists(OriginalFile(d))
    /\ disk[OriginalFile(d)] = psbt

\* (Fault: the stored original goes out unchecked.)
PrepareOriginalUnchecked(p) ==
    /\ job[p].pc = "prepare_original"
    /\ Exists(OriginalFile(job[p].dir))
    /\ Become(p, [Resume(p, "prepare_package") EXCEPT !.psbt = disk[OriginalFile(job[p].dir)]])
    /\ UNCHANGED <<disk, shown, drawn, damage>>

OriginalMatches(d) == Exists(StateFile(d)) /\ OriginalIs(d, disk[StateFile(d)].psbt)

\* Message 3 has been written by now; the stored original is compared with the digest in
\* the state, read again, before it goes out in the package.
PrepareOriginal(p) ==
    /\ job[p].pc = "prepare_original"
    /\ OriginalMatches(job[p].dir)
    /\ Become(p, [Resume(p, "prepare_package") EXCEPT !.psbt = disk[OriginalFile(job[p].dir)]])
    /\ UNCHANGED <<disk, shown, drawn, damage>>

-----------------------------------------------------------------------------
(***************************************************************************)
(* host_verify, and host_verify_psbt around it.                            *)
(***************************************************************************)

\* What host_verify_psbt uses of the response it reads itself.
SlotSignature(m) == [key |-> m.key, hash |-> m.hash, signature |-> m.signature]

\* host_verify_psbt, before host_verify: the state must be a Rung C one and the stored
\* original its PSBT; both, and the response it reads here, stay in memory.
HostVerifyPsbt(p) ==
    LET held == job[p].held
    IN  /\ job[p].pc = "verify_psbt"
        /\ held.rung = "C"
        /\ OriginalIs(job[p].dir, held.psbt)
        /\ \E m \in SignerAnswers :
              Become(p, [Resume(p, "verify_load") EXCEPT
                            !.read = SlotSignature(m), !.psbt = held.psbt, !.input = held.input])
        /\ UNCHANGED <<disk, shown, drawn, damage>>

\* host_verify reads the state for itself.
VerifyLoad(p) ==
    /\ job[p].pc = "verify_load"
    /\ Exists(StateFile(job[p].dir))
    /\ Become(p, [Resume(p, "verify") EXCEPT !.held = disk[StateFile(job[p].dir)]])
    /\ UNCHANGED <<disk, shown, drawn, damage>>

SignatureAccepted(state, m) ==
    /\ ValidMessage(m) /\ m.stage = SIGNER_SIGNATURES
    /\ StateContext(state, m)
    /\ state.phase \in {"OPENINGS_ACCEPTED", "COMPLETE"}
    /\ m.opening = state.opening
    /\ m.rho = state.rho
    /\ VerifyAntiExfil(m.key, m.hash, m.rho, m.opening, m.signature)
    /\ state.phase = "COMPLETE" => state.signature = m.signature

\* The response is read from the operator's file here, also when host_verify_psbt has
\* read that file before: what is there now may be another message.
HostVerify(p) ==
    /\ job[p].pc = "verify"
    /\ \E m \in SignerAnswers :
          /\ SignatureAccepted(job[p].held, m)
          /\ Become(p, [Resume(p, "verify_state") EXCEPT
                !.message = m,
                !.held = [@ EXCEPT !.phase = "COMPLETE", !.signature = m.signature]])
    /\ UNCHANGED <<disk, shown, drawn, damage>>

\* (Fault: the PSBT's slot is not compared with the response.)
ReconstructsAnySlot(psbt, input, m) == psbt \in Importable

\* reconstruct_signed_psbt: the slot is found again in the original PSBT and must be
\* the response's, at the input the state named; the PSBT must take the signature.
Reconstructs(psbt, input, m) ==
    /\ SingleSlot(psbt, [input |-> input, key |-> m.key, hash |-> m.hash])
    /\ psbt \in Importable

CanImport(j) == j.read.signature # Absent /\ Reconstructs(j.psbt, j.input, j.read)

\* What host_verify_psbt imports is the response it read itself, not the one that
\* host_verify accepted.
ImportSignature(p) ==
    /\ job[p].pc = "import"
    /\ CanImport(job[p])
    /\ Become(p, Resume(p, "import_signed"))
    /\ UNCHANGED <<disk, shown, drawn, damage>>

-----------------------------------------------------------------------------
(***************************************************************************)
(* Refusals.  What the operator brings may be unacceptable or unreadable;  *)
(* what a command has read before is refused only as its checks fail.      *)
(***************************************************************************)

CanReveal(j) == \E m \in RevealInputs(j) : OpeningAccepted(j.held, m)

RefuseInput(p) ==
    /\ \/ job[p].pc = "reveal" /\ (job[p].command = "prepare" => ~CanReveal(job[p]))
       \/ job[p].pc \in {"verify_psbt", "verify"}
       \/ job[p].pc = "prepare_load" /\ ~Exists(StateFile(job[p].dir))
       \/ job[p].pc = "prepare_original" /\ ~OriginalMatches(job[p].dir)
       \/ job[p].pc = "import" /\ ~CanImport(job[p])
    /\ Exit(p)
    /\ UNCHANGED <<disk, shown, drawn, damage>>

\* From outside: a process is killed; a stored original is removed or replaced.
Crash(p) ==
    /\ job[p].pc # "idle"
    /\ Exit(p)
    /\ UNCHANGED <<disk, shown, drawn, damage>>

DamageOriginal(d) ==
    /\ damage < MaxDamage
    /\ Exists(OriginalFile(d))
    /\ \/ \E content \in Psbt \ {disk[OriginalFile(d)]} :
             disk' = Written(OriginalFile(d), content)
       \/ disk' = [f \in DOMAIN disk \ {OriginalFile(d)} |-> disk[f]]
    /\ damage' = damage + 1
    /\ UNCHANGED <<job, shown, drawn>>

-----------------------------------------------------------------------------
Init ==
    /\ disk = [f \in {} |-> Absent]
    /\ job = [p \in Proc |-> Idle]
    /\ shown = {}
    /\ drawn = {}
    /\ damage = 0

StorageStep(p) == FindAbsent(p) \/ FindSame(p) \/ FindConflict(p) \/ AtomicReplace(p)

Command(p) ==
    \/ HostInit(p)
    \/ HostInitPsbt(p)
    \/ BindPsbt(p)
    \/ \E d \in Dir, command \in Commands \intersect {"reveal", "verify", "verify_psbt"} :
          LoadState(p, d, command)
    \/ HostReveal(p)
    \/ PrepareMessage3(p)
    \/ PrepareLoad(p)
    \/ PrepareOriginal(p)
    \/ HostVerifyPsbt(p)
    \/ VerifyLoad(p)
    \/ HostVerify(p)
    \/ ImportSignature(p)
    \/ RefuseInput(p)

Next ==
    \/ \E p \in Proc : StorageStep(p) \/ Command(p) \/ Crash(p)
    \/ \E d \in Dir : DamageOriginal(d)

Spec == Init /\ [][Next]_vars

-----------------------------------------------------------------------------
(***************************************************************************)
(* Correctness.  TypeOK, TranscriptInv and SignedBound hold whatever the   *)
(* operator does; the others hold when the commands run one at a time,     *)
(* crashes and retries included.                                           *)
(***************************************************************************)

StateFields == {"phase", "session", "key", "hash", "rho", "commitment", "opening",
                "signature", "rung", "psbt", "input"}

ReadPcs == {"bind", "reveal", "prepare_load", "prepare_original", "verify_psbt",
            "verify_load", "verify", "import"}

Pcs == ExactPcs \union SavePcs \union ReadPcs \union {"idle", "init_state"}

\* Every file holds what its name says and every process is at a known point.
TypeOK ==
    /\ DOMAIN disk \subseteq File
    /\ DOMAIN job = Proc
    /\ \A d \in Dir :
          /\ Exists(StateFile(d)) => DOMAIN disk[StateFile(d)] = StateFields
          /\ Exists(OriginalFile(d)) => disk[OriginalFile(d)] \in Psbt
    /\ Outputs \subseteq shown
    /\ \A p \in Proc :
          /\ job[p].pc \in Pcs
          /\ job[p].pc # "idle" => job[p].dir \in Dir /\ job[p].out \in OutPath
    /\ drawn \subseteq Session
    /\ damage \in 0..MaxDamage

\* A state dictionary records one transcript: its commitment is that of its own rho, an
\* opening was accepted exactly when the phase says so, and a complete session's
\* signature verifies against its own rho and opening.
Transcript(s) ==
    /\ s.commitment = HostCommit(s.rho)
    /\ s.rho = Rho(s.session)
    /\ s.phase = "COMMITMENTS_CREATED" <=> s.opening = Absent
    /\ IF s.phase = "COMPLETE"
       THEN VerifyAntiExfil(s.key, s.hash, s.rho, s.opening, s.signature)
       ELSE s.signature = Absent

\* Whatever the order of crashes, retries and processes, no session directory holds a
\* state that mixes two transcripts (workflow.py's checks against the state).
TranscriptInv == \A s \in States : Transcript(s) /\ s.session \in drawn

\* The signatures that a receipt, internal or not, says were verified.
Certified == {o.message.signature : o \in {x \in shown : x.kind \in {"receipt", "psbt_receipt"}}}

\* Races and a response file replaced between its two readings included, a signed PSBT
\* fills the one slot its PSBT has for that key; and if the signature in it is one that a
\* receipt certifies, it is for that slot, over its hash, and tweaked by the rho a shown
\* message 1 committed to for it (host_verify, reconstruct_signed_psbt).  A signature
\* that no receipt certifies can be in a signed PSBT, and beside a verified receipt: the
\* one in a file that was replaced after host_verify_psbt read it.
SignedBound ==
    \A o \in {x \in shown : x.kind \in {"signed", "raw"}} :
        \E slot \in SlotsOf[o.psbt] :
            /\ SlotsFor(o.psbt, o.key) = {slot} /\ slot.input = o.input
            /\ o.signature \in Certified =>
                  /\ <<o.signature.key, o.signature.hash>> = <<slot.key, slot.hash>>
                  /\ \E c \in Disclosed(HOST_COMMIT) :
                        <<c.key, c.hash, c.commitment>>
                            = <<slot.key, slot.hash, HostCommit(o.signature.rho)>>

\* The package for the signer's second round carries the very PSBT whose slot the
\* revealed message signs, even if the stored original was changed
\* (prepare_message_3's digest check).
PackageBound ==
    \A o \in {x \in shown : x.kind = "package"} :
        \E s \in States :
            /\ s.session = o.message.session
            /\ s.psbt = o.psbt
            /\ SingleSlot(o.psbt, [input |-> s.input, key |-> o.message.key,
                                     hash |-> o.message.hash])

\* Outputs follow what they rest on: a receipt, internal or not, that of a COMPLETE
\* state with that signature; and a verified receipt is there only with the signed PSBT
\* and the transaction it certifies (host_verify, host_verify_psbt).
ReceiptOrder ==
    /\ \A o \in {x \in shown : x.kind \in {"receipt", "psbt_receipt"}} :
          \E s \in States :
              /\ s.session = o.message.session
              /\ s.phase = "COMPLETE"
              /\ s.signature = o.message.signature
    /\ \A o \in {x \in shown : x.kind = "psbt_receipt"} :
          {o.signed, [o.signed EXCEPT !.kind = "raw"]} \subseteq Outputs

-----------------------------------------------------------------------------
(***************************************************************************)
(* The inductive invariant behind TypeOK, TranscriptInv and SignedBound,   *)
(* for any number of processes.                                            *)
(***************************************************************************)

JobFields == {"pc", "command", "dir", "out", "held", "psbt", "input", "read", "message", "clear"}

MessageFields == {"kind", "stage", "session", "key", "hash", "commitment", "opening",
                  "rho", "signature"}

GoodState(s, ids) == DOMAIN s = StateFields /\ Transcript(s) /\ s.session \in ids

Context(m) == <<m.session, m.key, m.hash, m.commitment>>

\* Signers sign the slot that their message names.
SignsItsSlot(m) ==
    m.signature # Absent => m.signature.key = m.key /\ m.signature.hash = m.hash

\* A message about a commitment that has been shown.
Answering(m, outputs) ==
    /\ DOMAIN m = MessageFields /\ m.kind = "message" /\ SignsItsSlot(m)
    /\ \E c \in outputs :
          c.kind = "message" /\ c.stage = HOST_COMMIT /\ Context(m) = Context(c)

\* A signature response that host_verify has accepted.
Verified(m) ==
    /\ m.signature = AntiExfilSignature(m.key, m.hash, m.rho, m.opening)
    /\ m.commitment = HostCommit(m.rho)

ImportPcs   == {"import_signed", "import_raw", "import_receipt"}
VerifiedPcs == {"verify_state", "verify_receipt", "import"} \union ImportPcs
MessagePcs  == {"prepare_message2", "prepare_load", "reveal_state", "reveal_message3",
                "prepare_original", "prepare_package"} \union VerifiedPcs

GoodJob(j, ids, outputs, files) ==
    /\ j.pc \in Pcs
    /\ j.pc # "idle" =>
          /\ DOMAIN j = JobFields
          /\ j.dir \in Dir /\ j.out \in OutPath
          /\ j.command = "init_psbt" => j.psbt \in Psbt
          /\ j.pc \in {"bind", "bind_state", "bind_original"} => j.command = "init_psbt"
          /\ j.pc \notin {"prepare_message2", "prepare_load"} => GoodState(j.held, ids)
          /\ j.pc \in MessagePcs => Answering(j.message, outputs)
          /\ j.pc \in {"verify_psbt", "verify_load", "import"} \union ImportPcs
                => j.command = "verify_psbt"
          /\ (j.pc \in {"verify_load", "verify"} \union VerifiedPcs /\ j.command = "verify_psbt")
                => SignsItsSlot(j.read)
          /\ (j.pc \in {"prepare_load", "reveal"} /\ j.command = "prepare")
                => OutFile("prepared/message-2", j.out) \in files
          /\ j.pc \in VerifiedPcs => Verified(j.message)
          /\ j.pc \in ImportPcs => CanImport(j)

JobInv == DOMAIN job = Proc /\ \A p \in Proc : GoodJob(job[p], drawn, shown, DOMAIN disk)

StoreInv ==
    /\ DOMAIN disk \subseteq File
    /\ \A d \in Dir :
          /\ Exists(StateFile(d)) => GoodState(disk[StateFile(d)], drawn)
          /\ Exists(OriginalFile(d)) => disk[OriginalFile(d)] \in Psbt
    /\ \A kind \in OutKinds, out \in OutPath :
          Exists(OutFile(kind, out)) => disk[OutFile(kind, out)] \in shown
    /\ \A out \in OutPath : Exists(OutFile("prepared/message-2", out)) =>
          disk[OutFile("prepared/message-2", out)].kind = "message"
    /\ drawn \subseteq Session
    /\ damage \in 0..MaxDamage

\* A signed PSBT's signature names the slot it fills.
FillsItsSlot(o) ==
    /\ o.signature.key = o.key
    /\ SingleSlot(o.psbt, [input |-> o.input, key |-> o.key, hash |-> o.signature.hash])

\* Every shown message is about a shown commitment, every receipt is for an accepted
\* response, and every signature is in the slot it names.
ShownInv ==
    \A o \in shown :
        /\ o.kind = "message" => Answering(o, shown)
        /\ o.kind \in {"receipt", "psbt_receipt"} =>
              Answering(o.message, shown) /\ Verified(o.message)
        /\ o.kind \in {"signed", "raw"} => FillsItsSlot(o)

Inv == JobInv /\ StoreInv /\ ShownInv
=============================================================================
