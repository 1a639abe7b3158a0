---------------------------- MODULE CoordinatorV1 ----------------------------
(***************************************************************************)
(* The durable host coordinator of protocol v1 (coordinator_v1.py) on its  *)
(* file store (storage.py).                                                *)
(*                                                                         *)
(* The coordinator is three commands, each run by the operator in a        *)
(* process of its own: host_init_v1 creates a session and shows message 1, *)
(* host_accept_openings_v1 takes message 2 and shows message 3,            *)
(* host_complete_v1 takes message 4 and writes the signed PSBT and the     *)
(* receipt.  A process keeps its view of the session in memory; all that   *)
(* outlives it is the disk.  Every durable write is a step of its own, the *)
(* existence test of a write and its os.replace are two steps, and a       *)
(* process may be killed before any of them.  Nothing locks a session      *)
(* directory, so several processes may work on it at once.                 *)
(***************************************************************************)
EXTENDS ProtocolV1

CONSTANTS
    Proc,          \* processes the operator may run at the same time
    Dir,           \* session directories
    Psbt,          \* PSBTs offered for signing
    SlotsOf,       \* [Psbt -> set of identifiers]: the slots the signer controls
    Network,       \* networks an operator may name
    Session,       \* what os.urandom may draw as session identifiers
    OutPath,       \* [output kind -> set of paths the operator names for it]
    Variant,       \* nonce variants signers use (see ProtocolV1), 0 among them
    MaxDamage      \* bound: stored PSBTs changed from outside

Kinds == {"package1", "package3", "signed", "receipt"}

ASSUME CoordinatorAssumption ==
    /\ SlotsOf \in [Psbt -> SUBSET (Nat \X Nat)]
    /\ DOMAIN OutPath = Kinds
    /\ 0 \in Variant
    /\ MaxDamage \in Nat

VARIABLES
    disk,      \* [existing files -> contents]: everything that survives a process
    job,       \* [Proc -> the process's program counter and memory]
    shown,     \* every output an operator has been able to take away (history)
    drawn,     \* session identifiers os.urandom has returned so far
    damage     \* how many stored PSBTs were changed from outside

vars == <<disk, job, shown, drawn, damage>>

-----------------------------------------------------------------------------
(***************************************************************************)
(* Files.                                                                  *)
(***************************************************************************)

Paths == UNION {OutPath[k] : k \in Kinds}

StateFile(d)    == <<"state.json", d>>
OriginalFile(d) == <<"original.psbt", d>>
Message1File(d) == <<"message-1.aex", d>>
OutFile(path)   == <<"output", path>>

File == ({"state.json", "original.psbt", "message-1.aex"} \X Dir) \union ({"output"} \X Paths)

\* What the coordinator's output files hold: AEXT packages (stages 1 and 3 carry
\* the PSBT), the PSBT with a partial signature per slot, and the receipt.
Package(message, psbt) == [kind |-> "package", message |-> message, psbt |-> psbt]

SignedPsbt(psbt, message4) ==
    [kind |-> "signed", psbt |-> psbt,
     partial_sigs |-> [i \in DOMAIN message4.slots |-> message4.slots[i].signature]]

Receipt(state) ==
    [kind |-> "receipt", network |-> state.network, session |-> state.session,
     signed |-> SignedPsbt(state.psbt, state.message_4)]

Exists(f) == f \in DOMAIN disk

Outputs == {disk[f] : f \in {OutFile(path) : path \in Paths} \intersect DOMAIN disk}

\* The messages of one stage that have left the coordinator.
Disclosed(stage) ==
    {o.message : o \in {x \in shown : x.kind = "package" /\ x.message.stage = stage}}

-----------------------------------------------------------------------------
(***************************************************************************)
(* The packages an operator may bring back from a signer: any answer to    *)
(* any message shown so far, complete or over fewer slots.                 *)
(***************************************************************************)

OpeningsFrom(commit) ==
    UNION {{OpeningsMessage(commit, v) : v \in [S -> Variant]} :
              S \in (SUBSET DOMAIN commit.slots) \ {{}}}

SignerChoice == [echoed : Variant, signed : Variant, tweaked : BOOLEAN]

SignaturesFrom(reveal) ==
    UNION {{SignaturesMessage(reveal, v) : v \in [S -> SignerChoice]} :
              S \in (SUBSET DOMAIN reveal.slots) \ {{}}}

SignerAnswers ==
    UNION ({OpeningsFrom(m) : m \in Disclosed(HOST_COMMIT)}
             \union {SignaturesFrom(m) : m \in Disclosed(HOST_REVEAL)})

-----------------------------------------------------------------------------
(***************************************************************************)
(* A process.  The program counter names the durable operation that comes  *)
(* next; "held" is the state dictionary in memory, "path" and "receipt"    *)
(* the output arguments, "clear" whether the existence test of the next    *)
(* write has passed.                                                       *)
(***************************************************************************)

Idle == [pc |-> "idle"]

Job(pc, d, held, path, receipt) ==
    [pc |-> pc, dir |-> d, held |-> held, path |-> path, receipt |-> receipt, clear |-> FALSE]

\* The process at another point of its command, with the state it now holds.
Resume(p, pc, held) == Job(pc, job[p].dir, held, job[p].path, job[p].receipt)

Exit(p) == job' = [job EXCEPT ![p] = Idle]

\* (Fault: the receipt is written before completion is saved.)
NextPcReceiptFirst(pc) ==
    CASE pc = "init_state"       -> "init_original"
      [] pc = "init_original"    -> "init_message1"
      [] pc = "init_message1"    -> "init_package"
      [] pc = "accept_state"     -> "accept_original"
      [] pc = "accept_original"  -> "accept_package"
      [] pc = "complete_signed"  -> "complete_receipt"
      [] pc = "complete_receipt" -> "complete_state"
      [] OTHER                   -> "done"

\* The order of each command's durable operations.
NextPc(pc) ==
    CASE pc = "init_state"      -> "init_original"
      [] pc = "init_original"   -> "init_message1"
      [] pc = "init_message1"   -> "init_package"
      [] pc = "accept_state"    -> "accept_original"
      [] pc = "accept_original" -> "accept_package"
      [] pc = "complete_signed" -> "complete_state"
      [] pc = "complete_state"  -> "complete_receipt"
      [] OTHER                  -> "done"

Advance(p) ==
    LET next == NextPc(job[p].pc)
    IN  IF next = "done" THEN Exit(p)
                           ELSE job' = [job EXCEPT ![p] = Resume(p, next, job[p].held)]

\* The file a durable operation writes, and the bytes it writes there.
Target(j) ==
    CASE j.pc \in {"init_state", "accept_state", "complete_state"} -> StateFile(j.dir)
      [] j.pc = "init_original"    -> OriginalFile(j.dir)
      [] j.pc = "init_message1"    -> Message1File(j.dir)
      [] j.pc = "complete_receipt" -> OutFile(j.receipt)
      [] OTHER                     -> OutFile(j.path)

Data(j) ==
    CASE j.pc \in {"init_state", "accept_state", "complete_state"} -> j.held
      [] j.pc = "init_original"    -> j.held.psbt
      [] j.pc = "init_message1"    -> j.held.message_1
      [] j.pc = "init_package"     -> Package(j.held.message_1, j.held.psbt)
      [] j.pc = "accept_package"   -> Package(j.held.message_3, j.held.psbt)
      [] j.pc = "complete_signed"  -> SignedPsbt(j.held.psbt, j.held.message_4)
      [] OTHER                     -> Receipt(j.held)

ExactPcs == {"init_original", "init_message1", "init_package", "accept_package",
             "complete_signed", "complete_receipt"}

\* (Fault: host_init_v1 saves its state without create=True.)
SavePcsAndInit == {"init_state", "accept_state", "complete_state"}

SavePcs == {"accept_state", "complete_state"}

OutputPcs == {"init_package", "accept_package", "complete_signed", "complete_receipt"}

-----------------------------------------------------------------------------
(***************************************************************************)
(* storage.py                                                              *)
(***************************************************************************)

Written(f, content) ==
    [g \in DOMAIN disk \union {f} |-> IF g = f THEN content ELSE disk[g]]

\* write_exact and save_state(create=True) on a path that names no file.
FindAbsent(p) ==
    /\ job[p].pc \in ExactPcs \union {"init_state"}
    /\ ~job[p].clear
    /\ ~Exists(Target(job[p]))
    /\ job' = [job EXCEPT ![p] = [Resume(p, job[p].pc, job[p].held) EXCEPT !.clear = TRUE]]
    /\ UNCHANGED <<disk, shown, drawn, damage>>

\* (Fault: any file that is already there is refused.)
FindSameRefused(p) ==
    /\ job[p].pc \in ExactPcs
    /\ ~job[p].clear
    /\ Exists(Target(job[p]))
    /\ disk[Target(job[p])] = Data(job[p])
    /\ Exit(p)
    /\ UNCHANGED <<disk, shown, drawn, damage>>

\* write_exact on a file that already holds these bytes.
FindSame(p) ==
    /\ job[p].pc \in ExactPcs
    /\ ~job[p].clear
    /\ Exists(Target(job[p]))
    /\ disk[Target(job[p])] = Data(job[p])
    /\ Advance(p)
    /\ UNCHANGED <<disk, shown, drawn, damage>>

\* OUTPUT_EXISTS: write_exact refuses to replace other bytes.  RETRY_CONFLICT:
\* save_state(create=True) refuses to replace any state.
FindConflict(p) ==
    /\ job[p].pc \in ExactPcs \union {"init_state"}
    /\ ~job[p].clear
    /\ Exists(Target(job[p]))
    /\ job[p].pc \in ExactPcs => disk[Target(job[p])] # Data(job[p])
    /\ Exit(p)
    /\ UNCHANGED <<disk, shown, drawn, damage>>

\* _atomic_replace: the temporary file becomes the target in one os.replace.  A
\* save_state without create makes no test first.
AtomicReplace(p) ==
    /\ job[p].pc \in SavePcs \/ (job[p].pc \in ExactPcs \union {"init_state"} /\ job[p].clear)
    /\ disk' = Written(Target(job[p]), Data(job[p]))
    /\ shown' = IF job[p].pc \in OutputPcs THEN shown \union {Data(job[p])} ELSE shown
    /\ Advance(p)
    /\ UNCHANGED <<drawn, damage>>

-----------------------------------------------------------------------------
(***************************************************************************)
(* coordinator_v1.py                                                       *)
(***************************************************************************)

\* The session identifier and one rho per slot are drawn together from
\* os.urandom, which never repeats: a rho is named by the session it was drawn
\* with and its slot.
Rhos(session, psbt) == [i \in SlotsOf[psbt] |-> [session |-> session, slot |-> i]]

\* (Fault: the message 4 entry is forgotten.)
InitialStateShort(network, session, psbt) ==
    [phase |-> "COMMITMENTS_CREATED", network |-> network, session |-> session,
     psbt |-> psbt, rhos |-> Rhos(session, psbt),
     message_1 |-> CommitMessage(network, session, psbt, Rhos(session, psbt)),
     message_2 |-> Absent, message_3 |-> Absent]

InitialState(network, session, psbt) ==
    [phase |-> "COMMITMENTS_CREATED", network |-> network, session |-> session,
     psbt |-> psbt, rhos |-> Rhos(session, psbt),
     message_1 |-> CommitMessage(network, session, psbt, Rhos(session, psbt)),
     message_2 |-> Absent, message_3 |-> Absent, message_4 |-> Absent]

HostInitV1(p) ==
    /\ job[p].pc = "idle"
    /\ \E d \in Dir, network \in Network, session \in Session \ drawn, psbt \in Psbt,
          path \in OutPath["package1"] :
          LET state == InitialState(network, session, psbt)
          IN  /\ SlotsOf[psbt] # {}
              /\ ValidMessage(state.message_1)
              /\ job' = [job EXCEPT ![p] = Job("init_state", d, state, path, path)]
              /\ drawn' = drawn \union {session}
    /\ UNCHANGED <<disk, shown, damage>>

\* _load_state, the first thing either later command does.
LoadState(p, d, command) ==
    /\ job[p].pc = "idle"
    /\ Exists(StateFile(d))
    /\ \E path \in OutPath[IF command = "accept" THEN "package3" ELSE "signed"],
          receipt \in OutPath["receipt"] :
          job' = [job EXCEPT ![p] =
                     Job(command, d, disk[StateFile(d)], path,
                         IF command = "accept" THEN path ELSE receipt)]
    /\ UNCHANGED <<disk, shown, drawn, damage>>

\* _require_state_context
StateContext(state, m) ==
    /\ m.session = state.session
    /\ m.network = state.network
    /\ m.psbt = state.psbt

RevealFor(state, m) == RevealMessage(m, state.rhos)

\* (Fault: a retry is compared with nothing.)
OpeningsAcceptedAnyRetry(state, m) ==
    /\ m.stage = SIGNER_OPENINGS
    /\ ValidMessage(m)
    /\ ValidTransition(state.message_1, m)
    /\ StateContext(state, m)

\* The checks host_accept_openings_v1 makes before it writes anything.
OpeningsAccepted(state, m) ==
    /\ m.stage = SIGNER_OPENINGS
    /\ ValidMessage(m)
    /\ ValidTransition(state.message_1, m)
    /\ StateContext(state, m)
    /\ \/ state.phase = "COMMITMENTS_CREATED"
       \/ state.phase \in {"OPENINGS_ACCEPTED", "COMPLETE"} /\ state.message_2 = m
    /\ ValidMessage(RevealFor(state, m))
    /\ ValidTransition(m, RevealFor(state, m))
    /\ state.message_3 \in {Absent, RevealFor(state, m)}

\* (Fault: the reveal is shown without being saved.)
HostAcceptOpeningsUnsaved(p) ==
    /\ job[p].pc = "accept"
    /\ \E m \in SignerAnswers :
          /\ OpeningsAccepted(job[p].held, m)
          /\ job' = [job EXCEPT ![p] = Resume(p, "accept_original",
                [job[p].held EXCEPT !.message_3 = RevealFor(job[p].held, m)])]
    /\ UNCHANGED <<disk, shown, drawn, damage>>

\* (Fault: every accepted message 2 sets the phase.)
HostAcceptOpeningsResetsPhase(p) ==
    /\ job[p].pc = "accept"
    /\ \E m \in SignerAnswers :
          LET held == job[p].held
          IN  /\ OpeningsAccepted(held, m)
              /\ job' = [job EXCEPT ![p] = Resume(p, "accept_state",
                    [held EXCEPT
                        !.phase = "OPENINGS_ACCEPTED",
                        !.message_2 = m,
                        !.message_3 = RevealFor(held, m)])]
    /\ UNCHANGED <<disk, shown, drawn, damage>>

\* The package is read after the state was loaded; the phase moves only from
\* COMMITMENTS_CREATED, and the reveal goes to the state file before it is shown.
HostAcceptOpeningsV1(p) ==
    /\ job[p].pc = "accept"
    /\ \E m \in SignerAnswers :
          LET held == job[p].held
          IN  /\ OpeningsAccepted(held, m)
              /\ job' = [job EXCEPT ![p] = Resume(p, "accept_state",
                    [held EXCEPT
                        !.phase = IF @ = "COMMITMENTS_CREATED" THEN "OPENINGS_ACCEPTED" ELSE @,
                        !.message_2 = m,
                        !.message_3 = RevealFor(held, m)])]
    /\ UNCHANGED <<disk, shown, drawn, damage>>

OriginalIs(d, psbt) == Exists(OriginalFile(d)) /\ disk[OriginalFile(d)] = psbt

\* _load_original, between saving the reveal and showing it.
LoadOriginal(p) ==
    /\ job[p].pc = "accept_original"
    /\ IF OriginalIs(job[p].dir, job[p].held.psbt)
         THEN Advance(p)
         ELSE Exit(p)
    /\ UNCHANGED <<disk, shown, drawn, damage>>

VerifiedSlots(m, rhos) ==
    \A i \in DOMAIN m.slots :
        VerifyAntiExfil(KeyOf(i), m.slots[i].hash, rhos[i], m.slots[i].opening,
                        m.slots[i].signature)

\* reconstruct_signed_psbt_v1 re-derives the slot set from the original PSBT and
\* repeats every binding to message 1, and the verification, before it imports the
\* signatures.
Reconstructs(psbt, commit, m, rhos) ==
    /\ commit.psbt = psbt
    /\ DOMAIN rhos = DOMAIN commit.slots
    /\ \A i \in DOMAIN commit.slots : HostCommit(rhos[i]) = commit.slots[i].commitment
    /\ <<m.network, m.session, m.psbt>> = <<commit.network, commit.session, commit.psbt>>
    /\ DOMAIN m.slots = DOMAIN commit.slots
    /\ \A i \in DOMAIN m.slots :
          /\ m.slots[i].hash = commit.slots[i].hash
          /\ m.slots[i].commitment = commit.slots[i].commitment
    /\ VerifiedSlots(m, rhos)

\* The checks host_complete_v1 makes before it writes anything, the stored
\* original among them.
SignaturesAccepted(state, d, m) ==
    /\ m.stage = SIGNER_SIGNATURES
    /\ ValidMessage(m)
    /\ state.phase = "COMPLETE" => state.message_4 = m
    /\ state.phase \in {"OPENINGS_ACCEPTED", "COMPLETE"}
    /\ ValidTransition(state.message_3, m)
    /\ StateContext(state, m)
    /\ VerifiedSlots(m, state.rhos)
    /\ OriginalIs(d, state.psbt)
    /\ Reconstructs(state.psbt, state.message_1, m, state.rhos)

HostCompleteV1(p) ==
    /\ job[p].pc = "complete"
    /\ \E m \in SignerAnswers :
          /\ SignaturesAccepted(job[p].held, job[p].dir, m)
          /\ job' = [job EXCEPT ![p] = Resume(p, "complete_signed",
                [job[p].held EXCEPT !.phase = "COMPLETE", !.message_4 = m])]
    /\ UNCHANGED <<disk, shown, drawn, damage>>

\* The command refuses its input, whatever made it unacceptable or unreadable:
\* the process ends before its first durable operation.
RefuseInput(p) ==
    /\ job[p].pc \in {"accept", "complete"}
    /\ Exit(p)
    /\ UNCHANGED <<disk, shown, drawn, damage>>

-----------------------------------------------------------------------------
(***************************************************************************)
(* What happens from outside: a process is killed, and the stored original *)
(* is removed or replaced (the change _load_original is there to detect).  *)
(***************************************************************************)

Crash(p) ==
    /\ job[p].pc # "idle"
    /\ Exit(p)
    /\ UNCHANGED <<disk, shown, drawn, damage>>

DamageOriginal(d) ==
    /\ damage < MaxDamage
    /\ Exists(OriginalFile(d))
    /\ \/ \E content \in Psbt \ {disk[OriginalFile(d)]} :
             disk' = Written(OriginalFile(d), content)
       \/ disk' = [f \in DOMAIN disk \ {OriginalFile(d)} |-> disk[f]]
    /\ damage' = damage + 1
    /\ UNCHANGED <<job, shown, drawn>>

-----------------------------------------------------------------------------
Init ==
    /\ disk = [f \in {} |-> Absent]
    /\ job = [p \in Proc |-> Idle]
    /\ shown = {}
    /\ drawn = {}
    /\ damage = 0

StorageStep(p) == FindAbsent(p) \/ FindSame(p) \/ FindConflict(p) \/ AtomicReplace(p)

Command(p) ==
    \/ HostInitV1(p)
    \/ \E d \in Dir : LoadState(p, d, "accept") \/ LoadState(p, d, "complete")
    \/ HostAcceptOpeningsV1(p)
    \/ LoadOriginal(p)
    \/ HostCompleteV1(p)
    \/ RefuseInput(p)

Next ==
    \/ \E p \in Proc : StorageStep(p) \/ Command(p) \/ Crash(p)
    \/ \E d \in Dir : DamageOriginal(d)

Spec == Init /\ [][Next]_vars

-----------------------------------------------------------------------------
(***************************************************************************)
(* Correctness.  TypeOK, TranscriptInv and SignedTweaked hold whatever the *)
(* operator does; the others hold when the commands on a coordinator's     *)
(* sessions run one at a time (Sequential), crashes and retries included.  *)
(***************************************************************************)

Sequential == \A p, q \in Proc : p = q

States == {disk[f] : f \in {StateFile(d) : d \in Dir} \intersect DOMAIN disk}

Signed   == {o \in shown : o.kind = "signed"}
Receipts == {o \in shown : o.kind = "receipt"}

Phases == {"COMMITMENTS_CREATED", "OPENINGS_ACCEPTED", "COMPLETE"}

Pcs == ExactPcs \union SavePcs
         \union {"idle", "init_state", "accept", "accept_original", "complete"}

StateFields == {"phase", "network", "session", "psbt", "rhos", "message_1", "message_2",
                "message_3", "message_4"}

\* Every file holds what its name says and every process is at a known point.
TypeOK ==
    /\ DOMAIN disk \subseteq File
    /\ DOMAIN job = Proc
    /\ \A d \in Dir :
          /\ Exists(StateFile(d)) => DOMAIN disk[StateFile(d)] = StateFields
          /\ Exists(OriginalFile(d)) => disk[OriginalFile(d)] \in Psbt
    /\ Outputs \subseteq shown
    /\ \A o \in shown : o.kind \in {"package", "signed", "receipt"}
    /\ \A p \in Proc :
          /\ job[p].pc \in Pcs
          /\ job[p].pc # "idle" =>
                /\ job[p].dir \in Dir
                /\ job[p].clear \in BOOLEAN
                /\ DOMAIN job[p].held = StateFields
    /\ drawn \subseteq Session
    /\ damage \in 0..MaxDamage

\* A state dictionary records one transcript: its commitments are those of its own
\* randomness and PSBT, the reveal is the one that answers its accepted openings,
\* and a complete session's signatures verify against exactly that reveal.
Transcript(s) ==
    /\ DOMAIN s = StateFields
    /\ s.session \in Session /\ s.psbt \in Psbt /\ s.phase \in Phases
    /\ s.rhos = Rhos(s.session, s.psbt)
    /\ s.message_1 = CommitMessage(s.network, s.session, s.psbt, s.rhos)
    /\ s.phase = "COMMITMENTS_CREATED" => s.message_2 = Absent /\ s.message_3 = Absent
    /\ s.phase # "COMMITMENTS_CREATED" =>
          /\ ValidMessage(s.message_2) /\ ValidTransition(s.message_1, s.message_2)
          /\ s.message_3 = RevealFor(s, s.message_2)
          /\ ValidTransition(s.message_2, s.message_3)
    /\ s.phase # "COMPLETE" => s.message_4 = Absent
    /\ s.phase = "COMPLETE" =>
          /\ ValidTransition(s.message_3, s.message_4)
          /\ VerifiedSlots(s.message_4, s.rhos)

\* Whatever the order of crashes, retries and processes, a session directory never
\* holds a state that mixes two transcripts (coordinator_v1.py's checks against
\* state["message_1"], state["message_2"] and state["message_3"]).
TranscriptInv == \A s \in States : Transcript(s) /\ s.session \in drawn

\* The anti-exfil guarantee itself, races included: every partial signature of a
\* signed PSBT is for the slot's own key and hash, and its nonce is tweaked by the
\* rho that a shown message 1 committed to; no slot is missing or added.
SignedTweaked ==
    \A o \in Signed : \E c \in Disclosed(HOST_COMMIT) :
        /\ o.psbt = c.psbt
        /\ DOMAIN o.partial_sigs = DOMAIN c.slots
        /\ \A i \in DOMAIN c.slots :
              /\ o.partial_sigs[i].key = KeyOf(i)
              /\ o.partial_sigs[i].hash = c.slots[i].hash
              /\ HostCommit(o.partial_sigs[i].rho) = c.slots[i].commitment

\* Host storage precedes disclosure: a message 1 that was shown can be answered,
\* because the state that holds its rhos and, unless it was damaged, the PSBT it
\* commits to are on disk.
CommitmentDurable ==
    \A m \in Disclosed(HOST_COMMIT) : \E d \in Dir :
        /\ Exists(StateFile(d))
        /\ disk[StateFile(d)].message_1 = m
        /\ damage = 0 => OriginalIs(d, m.psbt)

\* Exact retry: of each session at most one message 3 ever leaves the coordinator, on
\* whatever paths and after whatever crashes, so a signer that has seen the session's
\* rho cannot have another opening accepted.
OneReveal ==
    \A m, n \in Disclosed(HOST_REVEAL) : m.session = n.session => m = n

\* Persist before reveal: a message 3 that was shown is the one some session's state
\* holds, so a retry after any crash shows the same one.
PersistBeforeReveal ==
    \A m \in Disclosed(HOST_REVEAL) : \E s \in States : s.message_3 = m

\* A signed PSBT holds, for exactly the slots of the session, the one signature that
\* the shown reveal determines: its nonce is the accepted opening tweaked by the
\* committed rho.  (The rhos name the session, so with OneReveal two signed files of
\* one session are equal.)
SignedFromReveal ==
    \A o \in Signed : \E m \in Disclosed(HOST_REVEAL) :
        /\ o.psbt = m.psbt
        /\ o.partial_sigs = [i \in DOMAIN m.slots |->
              AntiExfilSignature(KeyOf(i), m.slots[i].hash, m.slots[i].rho, m.slots[i].opening)]

\* Completion is recorded between the two outputs: a COMPLETE state implies its
\* signed PSBT is on disk, a receipt implies its session is COMPLETE.
CompletionOrder ==
    /\ \A s \in States : s.phase = "COMPLETE" => SignedPsbt(s.psbt, s.message_4) \in Outputs
    /\ \A r \in Receipts : \E s \in States : s.phase = "COMPLETE" /\ r = Receipt(s)

-----------------------------------------------------------------------------
(***************************************************************************)
(* Inductive strengthenings, one conjunct per idea.                        *)
(***************************************************************************)

RevealPcs   == {"accept_state", "accept_original", "accept_package"}
CompletePcs == {"complete_signed", "complete_state", "complete_receipt"}

\* What a process carries from one step to the next: the arguments of its command
\* and the transcript of a session whose identifier has been drawn.
GoodJob(j, sessions) ==
    /\ j.pc \in Pcs
    /\ j.pc # "idle" =>
          /\ j.dir \in Dir /\ j.path \in Paths /\ j.receipt \in Paths
          /\ j.clear \in BOOLEAN
          /\ Transcript(j.held) /\ j.held.session \in sessions
          /\ j.pc \in RevealPcs \union CompletePcs => j.held.phase # "COMMITMENTS_CREATED"

JobInv == DOMAIN job = Proc /\ \A p \in Proc : GoodJob(job[p], drawn)

\* What is in the files and has been shown, whatever wrote it.
StoreInv ==
    /\ DOMAIN disk \subseteq File
    /\ \A d \in Dir :
          /\ Exists(StateFile(d)) =>
                Transcript(disk[StateFile(d)]) /\ disk[StateFile(d)].session \in drawn
          /\ Exists(OriginalFile(d)) => disk[OriginalFile(d)] \in Psbt
    /\ \A path \in Paths : Exists(OutFile(path)) => disk[OutFile(path)] \in shown
    /\ \A o \in shown : o.kind \in {"package", "signed", "receipt"}
    /\ drawn \subseteq Session
    /\ damage \in 0..MaxDamage

\* A state that an accepted reveal has been bound to keeps it.
KeepsReveal(s, t) ==
    /\ t.session = s.session
    /\ s.phase # "COMMITMENTS_CREATED" =>
          t.phase # "COMMITMENTS_CREATED" /\ t.message_3 = s.message_3

\* The session of a process is on disk, under no other process's writes, from the
\* moment it is created; afterwards the process holds that state or a continuation.
HeldInv ==
    \A p \in Proc :
        /\ job[p].pc = "init_state" =>
              /\ job[p].clear => ~Exists(StateFile(job[p].dir))
              /\ \A d \in Dir : Exists(StateFile(d)) =>
                    disk[StateFile(d)].session # job[p].held.session
        /\ job[p].pc \notin {"idle", "init_state"} =>
              /\ Exists(StateFile(job[p].dir))
              /\ KeepsReveal(disk[StateFile(job[p].dir)], job[p].held)
        /\ job[p].pc \in {"accept_original", "accept_package"} =>
              KeepsReveal(job[p].held, disk[StateFile(job[p].dir)])

\* A session has one directory.
OneDirectory ==
    \A d, e \in Dir :
        /\ Exists(StateFile(d)) /\ Exists(StateFile(e))
        /\ disk[StateFile(d)].session = disk[StateFile(e)].session
        => d = e

\* PersistBeforeReveal, with the phase that makes the stored reveal final.
RevealOnDisk ==
    \A m \in Disclosed(HOST_REVEAL) : \E d \in Dir :
        /\ Exists(StateFile(d))
        /\ disk[StateFile(d)].phase # "COMMITMENTS_CREATED"
        /\ disk[StateFile(d)].message_3 = m

Inv == StoreInv /\ JobInv

SequentialInv == Inv /\ HeldInv /\ OneDirectory /\ RevealOnDisk

\* A session that has accepted openings got them for the message 1 it has shown; a
\* message 1 that was shown commits to the randomness of its session.
CommitInv ==
    /\ \A m \in Disclosed(HOST_COMMIT) :
          m = CommitMessage(m.network, m.session, m.psbt, Rhos(m.session, m.psbt))
    /\ \A d \in Dir :
          /\ Exists(StateFile(d))
          /\ disk[StateFile(d)].phase # "COMMITMENTS_CREATED"
          => disk[StateFile(d)].message_1 \in Disclosed(HOST_COMMIT)
    /\ \A p \in Proc : job[p].pc # "idle" =>
          /\ job[p].held.phase # "COMMITMENTS_CREATED" =>
                job[p].held.message_1 \in Disclosed(HOST_COMMIT)
          /\ job[p].pc \in CompletePcs => job[p].held.phase = "COMPLETE"

SignedInv == Inv /\ CommitInv /\ SignedTweaked

=============================================================================
