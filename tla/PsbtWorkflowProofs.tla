------------------------- MODULE PsbtWorkflowProofs -------------------------
(***************************************************************************)
(* Proofs about PsbtWorkflow for every set of commands, processes,         *)
(* directories, PSBTs, paths and signers: first what holds whatever races, *)
(* then, for commands that run one at a time, where packages and receipts  *)
(* come from and that AntiExfilCeremony is implemented.                    *)
(***************************************************************************)
EXTENDS PsbtCeremony, TLAPS

-----------------------------------------------------------------------------
(***************************************************************************)
(* States.                                                                 *)
(***************************************************************************)

\* host_init creates a transcript.
LEMMA InitialGood ==
    ASSUME NEW session, NEW slot, NEW ids, session \in ids
    PROVE  GoodState(InitialState(session, slot), ids)
BY DEF GoodState, Transcript, InitialState, StateFields, Rho, HostCommit

\* Accepting an opening keeps a transcript one.
LEMMA RevealGood ==
    ASSUME NEW s, NEW m, NEW ids, GoodState(s, ids), OpeningAccepted(s, m),
           s.phase = "COMMITMENTS_CREATED"
    PROVE  GoodState([s EXCEPT !.opening = m.opening, !.phase = "OPENINGS_ACCEPTED"], ids)
<1> DEFINE t == [s EXCEPT !.opening = m.opening, !.phase = "OPENINGS_ACCEPTED"]
<1>1. /\ DOMAIN t = StateFields
      /\ t.session = s.session /\ t.rho = s.rho /\ t.commitment = s.commitment
      /\ t.key = s.key /\ t.hash = s.hash /\ t.signature = s.signature
      /\ t.opening = m.opening /\ t.phase = "OPENINGS_ACCEPTED"
  BY DEF GoodState, StateFields
<1>2. m.opening # Absent
  BY DEF OpeningAccepted, ValidMessage, SIGNER_OPENINGS
<1>3. s.signature = Absent
  BY DEF GoodState, Transcript
<1> HIDE DEF t
<1>4. GoodState(t, ids)
  BY <1>1, <1>2, <1>3 DEF GoodState, Transcript
<1> QED
  BY <1>4 DEF t

\* Accepting a signature completes a transcript, and what was accepted is verified.
LEMMA VerifyGood ==
    ASSUME NEW s, NEW m, NEW ids, GoodState(s, ids), SignatureAccepted(s, m)
    PROVE  /\ GoodState([s EXCEPT !.phase = "COMPLETE", !.signature = m.signature], ids)
           /\ Verified(m)
<1> DEFINE t == [s EXCEPT !.phase = "COMPLETE", !.signature = m.signature]
<1>1. /\ DOMAIN t = StateFields
      /\ t.session = s.session /\ t.rho = s.rho /\ t.commitment = s.commitment
      /\ t.key = s.key /\ t.hash = s.hash /\ t.opening = s.opening
      /\ t.signature = m.signature /\ t.phase = "COMPLETE"
  BY DEF GoodState, StateFields
<1>2. /\ m.key = s.key /\ m.hash = s.hash /\ m.commitment = s.commitment
      /\ m.opening = s.opening /\ m.rho = s.rho
      /\ VerifyAntiExfil(m.key, m.hash, m.rho, m.opening, m.signature)
  BY DEF SignatureAccepted, StateContext
<1>3. s.opening # Absent
  BY DEF SignatureAccepted, GoodState, Transcript
<1> HIDE DEF t
<1>4. GoodState(t, ids)
  BY <1>1, <1>2, <1>3 DEF GoodState, Transcript
<1>5. Verified(m)
  BY <1>2 DEF Verified, VerifyAntiExfil, GoodState, Transcript
<1> QED
  BY <1>4, <1>5 DEF t

\* Binding a session to a PSBT does not touch its transcript.
LEMMA BindGood ==
    ASSUME NEW s, NEW psbt, NEW input, NEW ids, GoodState(s, ids)
    PROVE  GoodState([s EXCEPT !.rung = "C", !.psbt = psbt, !.input = input], ids)
BY DEF GoodState, Transcript, StateFields

-----------------------------------------------------------------------------
(***************************************************************************)
(* Messages.                                                               *)
(***************************************************************************)

LEMMA CommitFields ==
    ASSUME NEW s
    PROVE  /\ DOMAIN CommitMessage(s) = MessageFields
           /\ CommitMessage(s).kind = "message" /\ CommitMessage(s).stage = HOST_COMMIT
BY DEF CommitMessage, MessageFields

\* A reveal is about the commitment its openings are about.
LEMMA RevealAnswers ==
    ASSUME NEW m, NEW rho, NEW outputs, Answering(m, outputs)
    PROVE  Answering(RevealMessage(m, rho), outputs)
<1> DEFINE r == RevealMessage(m, rho)
<1>1. DOMAIN r = MessageFields /\ r.kind = "message" /\ Context(r) = Context(m)
  BY DEF RevealMessage, Answering, Context, MessageFields
<1>2. SignsItsSlot(r)
  BY DEF RevealMessage, Answering, SignsItsSlot, MessageFields
<1> HIDE DEF r
<1>3. Answering(r, outputs)
  BY <1>1, <1>2 DEF Answering
<1> QED
  BY <1>3 DEF r

\* So is whatever a signer answers.
LEMMA AnswersAnswer ==
    ASSUME ShownInv, NEW m \in SignerAnswers
    PROVE  Answering(m, shown)
<1>1. CASE \E c \in Disclosed(HOST_COMMIT) : m \in OpeningsFrom(c)
  <2> PICK c \in Disclosed(HOST_COMMIT) : m \in OpeningsFrom(c)
    BY <1>1
  <2>1. PICK v \in Variant :
            m = [c EXCEPT !.stage = SIGNER_OPENINGS,
                          !.opening = NoncePoint(c.key, c.hash, c.commitment, v)]
    BY DEF OpeningsFrom
  <2>2. Answering(c, shown)
    BY DEF ShownInv, Disclosed
  <2>3. DOMAIN m = MessageFields /\ m.kind = "message" /\ Context(m) = Context(c)
    BY <2>1, <2>2 DEF Answering, Context, MessageFields
  <2>4. SignsItsSlot(m)
    BY <2>1, <2>2 DEF Answering, SignsItsSlot, MessageFields
  <2> QED
    BY <2>2, <2>3, <2>4 DEF Answering
<1>2. CASE \E r \in Disclosed(HOST_REVEAL) : m \in SignaturesFrom(r)
  <2> PICK r \in Disclosed(HOST_REVEAL) : m \in SignaturesFrom(r)
    BY <1>2
  <2> DEFINE Point(v) == NoncePoint(r.key, r.hash, r.commitment, v)
  <2>1. PICK choice \in SignerChoice :
            m = [r EXCEPT !.stage = SIGNER_SIGNATURES,
                          !.opening = Point(choice.echoed),
                          !.rho = choice.rho,
                          !.signature = AntiExfilSignature(r.key, r.hash,
                               IF choice.tweaked THEN choice.rho ELSE Absent,
                               Point(choice.signed))]
    BY DEF SignaturesFrom
  <2>2. Answering(r, shown)
    BY DEF ShownInv, Disclosed
  <2>3. DOMAIN m = MessageFields /\ m.kind = "message" /\ Context(m) = Context(r)
    BY <2>1, <2>2 DEF Answering, Context, MessageFields
  <2>4. SignsItsSlot(m)
    BY <2>1, <2>2 DEF Answering, SignsItsSlot, MessageFields, AntiExfilSignature
  <2> QED
    BY <2>2, <2>3, <2>4 DEF Answering
<1> QED
  BY <1>1, <1>2 DEF SignerAnswers

\* What a signer answers signs the slot it names, if it signs at all.
LEMMA AnswersSignTheirSlot ==
    ASSUME ShownInv, NEW m \in SignerAnswers
    PROVE  SignsItsSlot(SlotSignature(m))
BY AnswersAnswer DEF Answering, SignsItsSlot, SlotSignature

-----------------------------------------------------------------------------
(***************************************************************************)
(* Steps that write nothing.                                               *)
(***************************************************************************)

LEMMA InitInv == Init => Inv
BY WorkflowAssumption
   DEF Init, Inv, JobInv, StoreInv, ShownInv, GoodJob, Idle, Pcs, Exists

\* What a process holds stays good while identifiers, outputs and prepared messages are
\* added.
LEMMA GoodJobGrows ==
    ASSUME NEW j, NEW ids, NEW ids2, NEW outputs, NEW outputs2, NEW files, NEW files2,
           GoodJob(j, ids, outputs, files), ids \subseteq ids2, outputs \subseteq outputs2,
           \A out \in OutPath : OutFile("prepared/message-2", out) \in files
                                    => OutFile("prepared/message-2", out) \in files2
    PROVE  GoodJob(j, ids2, outputs2, files2)
<1>1. \A m : Answering(m, outputs) => Answering(m, outputs2)
  BY DEF Answering
<1>2. \A s : GoodState(s, ids) => GoodState(s, ids2)
  BY DEF GoodState
<1> QED
  BY <1>1, <1>2 DEF GoodJob

\* A step of one process that leaves files and outputs alone keeps Inv if the process
\* goes on with a good job.
LEMMA OneJobStep ==
    ASSUME Inv, NEW p \in Proc, NEW j, GoodJob(j, drawn', shown, DOMAIN disk),
           job' = [job EXCEPT ![p] = j],
           drawn \subseteq drawn', drawn' \subseteq Session, UNCHANGED <<disk, shown, damage>>
    PROVE  Inv'
<1>1. JobInv'
  <2>1. DOMAIN job' = Proc
    BY DEF Inv, JobInv
  <2>2. ASSUME NEW q \in Proc PROVE GoodJob(job'[q], drawn', shown, DOMAIN disk)
    <3>1. GoodJob(job[q], drawn', shown, DOMAIN disk)
      BY GoodJobGrows DEF Inv, JobInv
    <3> QED
      BY <3>1 DEF Inv, JobInv
  <2> QED
    BY <2>1, <2>2 DEF JobInv
<1>2. StoreInv'
  <2>1. \A s : GoodState(s, drawn) => GoodState(s, drawn')
    BY DEF GoodState
  <2> QED
    BY <2>1 DEF Inv, StoreInv, Exists
<1>3. ShownInv'
  BY DEF Inv, ShownInv
<1> QED
  BY <1>1, <1>2, <1>3 DEF Inv

\* The same when no identifier is drawn.
LEMMA QuietStep ==
    ASSUME Inv, NEW p \in Proc, NEW j, GoodJob(j, drawn, shown, DOMAIN disk),
           job' = [job EXCEPT ![p] = j], UNCHANGED <<disk, shown, drawn, damage>>
    PROVE  Inv'
<1>1. drawn \subseteq Session
  BY DEF Inv, StoreInv
<1> QED
  BY <1>1, OneJobStep

LEMMA IdleGood ==
    ASSUME NEW ids, NEW outputs, NEW files
    PROVE  GoodJob(Idle, ids, outputs, files)
BY DEF GoodJob, Idle, Pcs

\* A process that exits, for whatever reason.
LEMMA ExitStep ==
    ASSUME Inv, NEW p \in Proc, Exit(p), UNCHANGED <<disk, shown, drawn, damage>>
    PROVE  Inv'
<1>1. job' = [job EXCEPT ![p] = Idle]
  BY DEF Exit, Become
<1> QED
  BY <1>1, IdleGood, QuietStep

\* A process that is past a durable operation is good for the next one.
LEMMA AdvanceGood ==
    ASSUME NEW j, NEW ids, NEW outputs, NEW files, GoodJob(j, ids, outputs, files),
           j.pc \in ExactPcs \union SavePcs \union {"init_state"}, NextPc(j) # "done",
           j.pc = "prepare_message2" => OutFile("prepared/message-2", j.out) \in files
    PROVE  GoodJob([j EXCEPT !.pc = NextPc(j), !.clear = FALSE], ids, outputs, files)
<1> DEFINE k == [j EXCEPT !.pc = NextPc(j), !.clear = FALSE]
<1>1. j.pc # "idle" /\ DOMAIN j = JobFields
  BY DEF GoodJob, ExactPcs, OutputPcs, SavePcs
<1>2. /\ DOMAIN k = JobFields /\ k.pc = NextPc(j)
      /\ k.command = j.command /\ k.dir = j.dir /\ k.out = j.out /\ k.held = j.held
      /\ k.psbt = j.psbt /\ k.input = j.input /\ k.read = j.read /\ k.message = j.message
  BY <1>1 DEF JobFields
<1> HIDE DEF k
<1>3. \/ j.pc = "init_state" /\ NextPc(j) = "init_message1"
      \/ j.pc = "init_message1" /\ j.command = "init_psbt" /\ NextPc(j) = "bind"
      \/ j.pc = "bind_state" /\ NextPc(j) = "bind_original"
      \/ j.pc = "prepare_message2" /\ NextPc(j) = "prepare_load"
      \/ j.pc = "reveal_state" /\ NextPc(j) = "reveal_message3"
      \/ j.pc = "reveal_message3" /\ NextPc(j) = "prepare_original"
      \/ j.pc = "verify_state" /\ NextPc(j) = "verify_receipt"
      \/ j.pc = "verify_receipt" /\ j.command = "verify_psbt" /\ NextPc(j) = "import"
      \/ j.pc = "import_signed" /\ NextPc(j) = "import_raw"
      \/ j.pc = "import_raw" /\ NextPc(j) = "import_receipt"
  BY DEF NextPc
<1>4. k.pc \in Pcs /\ k.pc \notin {"idle", "verify", "reveal"}
  BY <1>2, <1>3 DEF Pcs, ExactPcs, OutputPcs, SavePcs, ReadPcs
<1>5. /\ k.dir \in Dir /\ k.out \in OutPath
      /\ k.command = "init_psbt" => k.psbt \in Psbt
      /\ k.pc \in {"bind", "bind_state", "bind_original"} => k.command = "init_psbt"
  BY <1>1, <1>2, <1>3 DEF GoodJob
<1>6. k.pc \notin {"prepare_message2", "prepare_load"} => GoodState(k.held, ids)
  BY <1>1, <1>2, <1>3 DEF GoodJob
<1>7. k.pc \in MessagePcs => Answering(k.message, outputs)
  BY <1>1, <1>2, <1>3 DEF GoodJob, MessagePcs, VerifiedPcs, ImportPcs
<1>8. k.pc = "prepare_load" => OutFile("prepared/message-2", k.out) \in files
  BY <1>2, <1>3
<1>9. /\ k.pc \in VerifiedPcs => Verified(k.message)
      /\ k.pc \in ImportPcs => CanImport(k)
  BY <1>1, <1>2, <1>3 DEF GoodJob, CanImport, VerifiedPcs, ImportPcs
<1>10. /\ k.pc \in {"verify_psbt", "verify_load", "import"} \union ImportPcs
             => k.command = "verify_psbt"
       /\ (k.pc \in VerifiedPcs /\ k.command = "verify_psbt") => SignsItsSlot(k.read)
  BY <1>1, <1>2, <1>3 DEF GoodJob, VerifiedPcs, ImportPcs
<1>11. k.pc \notin {"verify_psbt", "verify_load"}
  BY <1>2, <1>3
<1>12. GoodJob(k, ids, outputs, files)
  BY <1>2, <1>4, <1>5, <1>6, <1>7, <1>8, <1>9, <1>10, <1>11 DEF GoodJob
<1> QED
  BY <1>12 DEF k

\* The existence tests of write_exact and save_state.
LEMMA TestSteps ==
    ASSUME Inv, NEW p \in Proc, FindAbsent(p) \/ FindSame(p) \/ FindConflict(p)
    PROVE  Inv'
<1> DEFINE j == job[p]
<1>1. GoodJob(j, drawn, shown, DOMAIN disk)
  BY DEF Inv, JobInv
<1>2. CASE FindAbsent(p)
  <2> DEFINE k == [j EXCEPT !.clear = TRUE]
  <2>1. j.pc # "idle" /\ DOMAIN j = JobFields
    BY <1>1, <1>2 DEF FindAbsent, GoodJob, ExactPcs, OutputPcs
  <2>2. GoodJob(k, drawn, shown, DOMAIN disk)
    BY <1>1, <2>1 DEF GoodJob, CanImport, JobFields
  <2> QED
    BY <1>2, <2>2, QuietStep DEF FindAbsent, Become
<1>3. CASE FindSame(p)
  <2> DEFINE k == [j EXCEPT !.pc = NextPc(j), !.clear = FALSE]
  <2>1. CASE NextPc(j) = "done"
    BY <1>3, <2>1, ExitStep DEF FindSame, Advance
  <2>2. CASE NextPc(j) # "done"
    <3>1. j.pc = "prepare_message2" => OutFile("prepared/message-2", j.out) \in DOMAIN disk
      BY <1>3 DEF FindSame, Exists, Target, SavePcs
    <3>2. GoodJob(k, drawn, shown, DOMAIN disk)
      BY <1>1, <1>3, <2>2, <3>1, AdvanceGood DEF FindSame
    <3>3. job' = [job EXCEPT ![p] = k]
      BY <1>3, <2>2 DEF FindSame, Advance, Become, Resume
    <3> QED
      BY <1>3, <3>2, <3>3, QuietStep DEF FindSame
  <2> QED
    BY <2>1, <2>2
<1>4. CASE FindConflict(p)
  BY <1>4, ExitStep DEF FindConflict
<1> QED
  BY <1>2, <1>3, <1>4

-----------------------------------------------------------------------------
(***************************************************************************)
(* The commands.                                                           *)
(***************************************************************************)

LEMMA JobOf ==
    ASSUME NEW pc, NEW command, NEW d, NEW out
    PROVE  LET j == Job(pc, command, d, out)
           IN  /\ DOMAIN j = JobFields
               /\ j.pc = pc /\ j.command = command /\ j.dir = d /\ j.out = out
BY DEF Job, JobFields

LEMMA HostInitStep ==
    ASSUME Inv, NEW p \in Proc, HostInit(p)
    PROVE  Inv'
<1>1. PICK d \in Dir, session \in Session \ drawn, out \in OutPath,
           slot \in UNION {SlotsOf[q] : q \in Psbt} :
          /\ job' = [job EXCEPT ![p] = [Job("init_state", "init", d, out) EXCEPT
                            !.held = InitialState(session, slot)]]
          /\ drawn' = drawn \union {session}
  BY DEF HostInit, Become
<1> DEFINE j == [Job("init_state", "init", d, out) EXCEPT !.held = InitialState(session, slot)]
<1>2. /\ DOMAIN j = JobFields /\ j.pc = "init_state" /\ j.command = "init"
      /\ j.dir = d /\ j.out = out /\ j.held = InitialState(session, slot)
  BY DEF Job, JobFields
<1>3. GoodState(InitialState(session, slot), drawn')
  BY <1>1, InitialGood
<1>4. GoodJob(j, drawn', shown, DOMAIN disk)
  <2> HIDE DEF j
  <2> QED
    BY <1>2, <1>3 DEF GoodJob, Pcs, MessagePcs, VerifiedPcs, ImportPcs
<1>5. drawn \subseteq drawn' /\ drawn' \subseteq Session
  BY <1>1 DEF Inv, StoreInv
<1>6. UNCHANGED <<disk, shown, damage>>
  BY DEF HostInit
<1> QED
  BY <1>1, <1>4, <1>5, <1>6, OneJobStep

LEMMA HostInitPsbtStep ==
    ASSUME Inv, NEW p \in Proc, HostInitPsbt(p)
    PROVE  Inv'
<1>1. PICK d \in Dir, session \in Session \ drawn, out \in OutPath, psbt \in Psbt :
          \E slot \in SlotsOf[psbt] :
              /\ job' = [job EXCEPT ![p] = [Job("init_state", "init_psbt", d, out) EXCEPT
                                !.held = InitialState(session, slot),
                                !.psbt = psbt, !.input = slot.input]]
              /\ drawn' = drawn \union {session}
  BY DEF HostInitPsbt, Become
<1>2. PICK slot \in SlotsOf[psbt] :
          /\ job' = [job EXCEPT ![p] = [Job("init_state", "init_psbt", d, out) EXCEPT
                            !.held = InitialState(session, slot),
                            !.psbt = psbt, !.input = slot.input]]
          /\ drawn' = drawn \union {session}
  BY <1>1
<1> DEFINE j == [Job("init_state", "init_psbt", d, out) EXCEPT
                    !.held = InitialState(session, slot),
                    !.psbt = psbt, !.input = slot.input]
<1>3. /\ DOMAIN j = JobFields /\ j.pc = "init_state" /\ j.command = "init_psbt"
      /\ j.dir = d /\ j.out = out /\ j.held = InitialState(session, slot) /\ j.psbt = psbt
  BY DEF Job, JobFields
<1>4. GoodState(InitialState(session, slot), drawn')
  BY <1>2, InitialGood
<1>5. GoodJob(j, drawn', shown, DOMAIN disk)
  <2> HIDE DEF j
  <2> QED
    BY <1>3, <1>4 DEF GoodJob, Pcs, MessagePcs, VerifiedPcs, ImportPcs
<1>6. drawn \subseteq drawn' /\ drawn' \subseteq Session
  BY <1>2 DEF Inv, StoreInv
<1>7. UNCHANGED <<disk, shown, damage>>
  BY DEF HostInitPsbt
<1> QED
  BY <1>2, <1>5, <1>6, <1>7, OneJobStep

LEMMA BindPsbtStep ==
    ASSUME Inv, NEW p \in Proc, BindPsbt(p)
    PROVE  Inv'
<1> DEFINE j == job[p]
           held == [disk[StateFile(j.dir)] EXCEPT
                       !.rung = "C", !.psbt = j.psbt, !.input = j.input]
           k == [Resume(p, "bind_state") EXCEPT !.held = held]
<1>1. GoodJob(j, drawn, shown, DOMAIN disk) /\ j.pc = "bind"
  BY DEF Inv, JobInv, BindPsbt
<1>2. GoodState(held, drawn)
  BY <1>1, BindGood DEF Inv, StoreInv, GoodJob, BindPsbt
<1>3. /\ DOMAIN k = JobFields /\ k.pc = "bind_state" /\ k.command = "init_psbt"
      /\ k.dir \in Dir /\ k.out \in OutPath /\ k.held = held /\ k.psbt \in Psbt
  BY <1>1 DEF GoodJob, Resume, JobFields
<1>4. GoodJob(k, drawn, shown, DOMAIN disk)
  <2> HIDE DEF held, k
  <2> QED
    BY <1>2, <1>3 DEF GoodJob, Pcs, SavePcs, MessagePcs, VerifiedPcs, ImportPcs
<1> QED
  BY <1>4, QuietStep DEF BindPsbt, Become

LEMMA LoadStateStep ==
    ASSUME Inv, NEW p \in Proc, NEW d \in Dir, NEW command \in {"reveal", "verify", "verify_psbt"},
           LoadState(p, d, command)
    PROVE  Inv'
<1>1. PICK out \in OutPath :
          job' = [job EXCEPT ![p] =
                     [Job(command, command, d, out) EXCEPT !.held = disk[StateFile(d)]]]
  BY DEF LoadState, Become
<1> DEFINE j == [Job(command, command, d, out) EXCEPT !.held = disk[StateFile(d)]]
<1>2. /\ DOMAIN j = JobFields /\ j.pc = command /\ j.command = command
      /\ j.dir = d /\ j.out = out /\ j.held = disk[StateFile(d)]
  BY DEF Job, JobFields
<1>3. GoodState(disk[StateFile(d)], drawn)
  BY DEF LoadState, Inv, StoreInv
<1>4. GoodJob(j, drawn, shown, DOMAIN disk)
  <2> HIDE DEF j
  <2>1. /\ j.pc \in Pcs /\ j.pc \notin MessagePcs \union VerifiedPcs \union ImportPcs
        /\ j.pc \notin {"bind", "bind_state", "bind_original"}
        /\ ~(j.pc = "verify" /\ j.command = "verify_psbt")
        /\ j.command \notin {"prepare", "init_psbt"}
    BY <1>2 DEF Pcs, ReadPcs, MessagePcs, VerifiedPcs, ImportPcs
  <2> QED
    BY <1>2, <1>3, <2>1 DEF GoodJob
<1> QED
  BY <1>1, <1>4, QuietStep DEF LoadState

\* What host_reveal reads is about a shown commitment.
LEMMA RevealInputAnswers ==
    ASSUME Inv, NEW p \in Proc, job[p].pc = "reveal", NEW m \in RevealInputs(job[p])
    PROVE  Answering(m, shown)
<1> DEFINE j == job[p]
           f == OutFile("prepared/message-2", j.out)
<1>1. CASE j.command = "prepare"
  <2>1. m = disk[f] /\ Exists(f) /\ j.out \in OutPath
    BY <1>1 DEF RevealInputs, Inv, JobInv, GoodJob, Exists
  <2>2. disk[f] \in shown /\ disk[f].kind = "message"
    BY <2>1 DEF Inv, StoreInv, OutKinds
  <2> QED
    BY <2>1, <2>2 DEF Inv, ShownInv
<1>2. CASE j.command # "prepare"
  BY <1>2, AnswersAnswer DEF RevealInputs, Inv
<1> QED
  BY <1>1, <1>2

LEMMA HostRevealStep ==
    ASSUME Inv, NEW p \in Proc, HostReveal(p)
    PROVE  Inv'
<1> DEFINE j == job[p]
           saved(m) == [j.held EXCEPT !.opening = m.opening, !.phase = "OPENINGS_ACCEPTED"]
           first(m) == [Resume(p, "reveal_state") EXCEPT !.message = m, !.held = saved(m)]
           again(m) == [Resume(p, "reveal_message3") EXCEPT !.message = m]
<1>1. GoodJob(j, drawn, shown, DOMAIN disk) /\ j.pc = "reveal"
  BY DEF Inv, JobInv, HostReveal
<1>2. /\ DOMAIN j = JobFields /\ j.dir \in Dir /\ j.out \in OutPath
      /\ j.command = "init_psbt" => j.psbt \in Psbt
      /\ GoodState(j.held, drawn)
  BY <1>1 DEF GoodJob
<1>3. PICK m \in RevealInputs(j) :
          /\ OpeningAccepted(j.held, m)
          /\ IF j.held.phase = "COMMITMENTS_CREATED"
             THEN job' = [job EXCEPT ![p] = first(m)]
             ELSE job' = [job EXCEPT ![p] = again(m)]
  <2>1. \A m : first(m) = [Resume(p, "reveal_state") EXCEPT
                     !.message = m,
                     !.held = [@ EXCEPT !.opening = m.opening, !.phase = "OPENINGS_ACCEPTED"]]
    BY <1>2 DEF Resume, JobFields
  <2> HIDE DEF first
  <2> QED
    BY <2>1 DEF HostReveal, Become
<1>4. Answering(m, shown)
  BY <1>1, RevealInputAnswers
<1>5. CASE j.held.phase = "COMMITMENTS_CREATED"
  <2>1. GoodState(saved(m), drawn)
    BY <1>2, <1>3, <1>5, RevealGood
  <2> HIDE DEF saved
  <2> DEFINE k == first(m)
  <2>2. /\ DOMAIN k = JobFields /\ k.pc = "reveal_state" /\ k.command = j.command
        /\ k.dir = j.dir /\ k.out = j.out /\ k.held = saved(m) /\ k.psbt = j.psbt
        /\ k.message = m
    BY <1>2 DEF Resume, JobFields
  <2>3. GoodJob(k, drawn, shown, DOMAIN disk)
    <3> HIDE DEF k, first
    <3> QED
      BY <1>2, <1>4, <2>1, <2>2 DEF GoodJob, Pcs, SavePcs, VerifiedPcs, ImportPcs
  <2> QED
    BY <1>3, <1>5, <2>3, QuietStep DEF HostReveal
<1>6. CASE j.held.phase # "COMMITMENTS_CREATED"
  <2> DEFINE k == again(m)
  <2>1. /\ DOMAIN k = JobFields /\ k.pc = "reveal_message3" /\ k.command = j.command
        /\ k.dir = j.dir /\ k.out = j.out /\ k.held = j.held /\ k.psbt = j.psbt
        /\ k.message = m
    BY <1>2 DEF Resume, JobFields
  <2>2. GoodJob(k, drawn, shown, DOMAIN disk)
    <3> HIDE DEF k, again
    <3> QED
      BY <1>2, <1>4, <2>1 DEF GoodJob, Pcs, ExactPcs, OutputPcs, VerifiedPcs, ImportPcs
  <2> QED
    BY <1>3, <1>6, <2>2, QuietStep DEF HostReveal
<1> QED
  BY <1>5, <1>6

LEMMA PrepareMessage3Step ==
    ASSUME Inv, NEW p \in Proc, PrepareMessage3(p)
    PROVE  Inv'
<1>1. PICK d \in Dir, out \in OutPath, m \in SignerAnswers :
          job' = [job EXCEPT ![p] =
                     [Job("prepare_message2", "prepare", d, out) EXCEPT !.message = m]]
  BY DEF PrepareMessage3, Become
<1> DEFINE j == [Job("prepare_message2", "prepare", d, out) EXCEPT !.message = m]
<1>2. /\ DOMAIN j = JobFields /\ j.pc = "prepare_message2" /\ j.command = "prepare"
      /\ j.dir = d /\ j.out = out /\ j.message = m
  BY DEF Job, JobFields
<1>3. Answering(m, shown)
  BY AnswersAnswer DEF Inv
<1>4. GoodJob(j, drawn, shown, DOMAIN disk)
  <2> HIDE DEF j
  <2> QED
    BY <1>2, <1>3 DEF GoodJob, Pcs, ExactPcs, OutputPcs, VerifiedPcs, ImportPcs
<1> QED
  BY <1>1, <1>4, QuietStep DEF PrepareMessage3

\* host_reveal and host_verify, each called from the command around it, read the state.
LEMMA InnerLoadSteps ==
    ASSUME Inv, NEW p \in Proc, PrepareLoad(p) \/ VerifyLoad(p)
    PROVE  Inv'
<1> DEFINE j == job[p]
           pc == IF j.pc = "prepare_load" THEN "reveal" ELSE "verify"
           k == [Resume(p, pc) EXCEPT !.held = disk[StateFile(j.dir)]]
<1>1. /\ GoodJob(j, drawn, shown, DOMAIN disk) /\ j.pc \in {"prepare_load", "verify_load"}
      /\ Exists(StateFile(j.dir))
      /\ job' = [job EXCEPT ![p] = k] /\ UNCHANGED <<disk, shown, drawn, damage>>
  BY DEF Inv, JobInv, PrepareLoad, VerifyLoad, Become
<1>2. /\ DOMAIN j = JobFields /\ j.dir \in Dir /\ j.out \in OutPath
      /\ j.command = "init_psbt" => j.psbt \in Psbt
      /\ j.pc = "verify_load" => SignsItsSlot(j.read)
      /\ (j.pc = "prepare_load" /\ j.command = "prepare")
            => OutFile("prepared/message-2", j.out) \in DOMAIN disk
  BY <1>1 DEF GoodJob
<1>3. GoodState(disk[StateFile(j.dir)], drawn)
  BY <1>1, <1>2 DEF Inv, StoreInv
<1>4. /\ DOMAIN k = JobFields /\ k.pc = pc /\ k.command = j.command
      /\ k.dir = j.dir /\ k.out = j.out /\ k.held = disk[StateFile(j.dir)] /\ k.psbt = j.psbt
      /\ k.read = j.read
  BY <1>2 DEF Resume, JobFields
<1>5. /\ pc \in Pcs /\ pc \notin MessagePcs \union VerifiedPcs \union ImportPcs
      /\ pc \notin {"idle", "bind", "bind_state", "bind_original", "prepare_load",
                    "prepare_message2", "verify_psbt", "verify_load", "import"}
      /\ pc = "reveal" => j.pc = "prepare_load"
      /\ pc = "verify" => j.pc # "prepare_load"
  BY DEF Pcs, ReadPcs, MessagePcs, VerifiedPcs, ImportPcs
<1>6. GoodJob(k, drawn, shown, DOMAIN disk)
  <2> HIDE DEF k, pc
  <2> QED
    BY <1>1, <1>2, <1>3, <1>4, <1>5 DEF GoodJob
<1> QED
  BY <1>1, <1>6, QuietStep

LEMMA PrepareOriginalStep ==
    ASSUME Inv, NEW p \in Proc, PrepareOriginal(p)
    PROVE  Inv'
<1> DEFINE j == job[p]
           k == [Resume(p, "prepare_package") EXCEPT !.psbt = disk[OriginalFile(j.dir)]]
<1>1. /\ GoodJob(j, drawn, shown, DOMAIN disk) /\ j.pc = "prepare_original"
      /\ Exists(OriginalFile(j.dir)) /\ job' = [job EXCEPT ![p] = k]
  BY DEF Inv, JobInv, PrepareOriginal, OriginalMatches, OriginalIs, Become
<1>2. /\ DOMAIN j = JobFields /\ j.dir \in Dir /\ j.out \in OutPath
      /\ GoodState(j.held, drawn) /\ Answering(j.message, shown)
  BY <1>1 DEF GoodJob, MessagePcs
<1>3. disk[OriginalFile(j.dir)] \in Psbt
  BY <1>1, <1>2 DEF Inv, StoreInv
<1>4. /\ DOMAIN k = JobFields /\ k.pc = "prepare_package"
      /\ k.dir = j.dir /\ k.out = j.out /\ k.held = j.held /\ k.psbt \in Psbt
      /\ k.message = j.message
  BY <1>2, <1>3 DEF Resume, JobFields
<1>5. GoodJob(k, drawn, shown, DOMAIN disk)
  <2> HIDE DEF k
  <2> QED
    BY <1>2, <1>4 DEF GoodJob, Pcs, ExactPcs, OutputPcs, VerifiedPcs, ImportPcs
<1> QED
  BY <1>1, <1>5, QuietStep DEF PrepareOriginal

LEMMA HostVerifyPsbtStep ==
    ASSUME Inv, NEW p \in Proc, HostVerifyPsbt(p)
    PROVE  Inv'
<1> DEFINE j == job[p]
           k(m) == [Resume(p, "verify_load") EXCEPT
                       !.read = SlotSignature(m), !.psbt = j.held.psbt, !.input = j.held.input]
<1>1. PICK m \in SignerAnswers : job' = [job EXCEPT ![p] = k(m)]
  BY DEF HostVerifyPsbt, Become
<1>2. /\ GoodJob(j, drawn, shown, DOMAIN disk) /\ j.pc = "verify_psbt"
      /\ Exists(OriginalFile(j.dir)) /\ disk[OriginalFile(j.dir)] = j.held.psbt
  BY DEF Inv, JobInv, HostVerifyPsbt, OriginalIs
<1>3. /\ DOMAIN j = JobFields /\ j.dir \in Dir /\ j.out \in OutPath
      /\ j.command = "verify_psbt" /\ GoodState(j.held, drawn)
  BY <1>2 DEF GoodJob
<1>4. j.held.psbt \in Psbt
  BY <1>2, <1>3 DEF Inv, StoreInv
<1>5. SignsItsSlot(SlotSignature(m))
  BY AnswersSignTheirSlot DEF Inv
<1>6. /\ DOMAIN k(m) = JobFields /\ k(m).pc = "verify_load"
      /\ k(m).dir = j.dir /\ k(m).out = j.out /\ k(m).held = j.held /\ k(m).psbt \in Psbt
      /\ k(m).read = SlotSignature(m) /\ k(m).command = "verify_psbt"
  BY <1>3, <1>4 DEF Resume, JobFields
<1>7. GoodJob(k(m), drawn, shown, DOMAIN disk)
  <2> HIDE DEF k
  <2> QED
    BY <1>3, <1>5, <1>6 DEF GoodJob, Pcs, ReadPcs, MessagePcs, VerifiedPcs, ImportPcs
<1> QED
  BY <1>1, <1>7, QuietStep DEF HostVerifyPsbt

LEMMA HostVerifyStep ==
    ASSUME Inv, NEW p \in Proc, HostVerify(p)
    PROVE  Inv'
<1> DEFINE j == job[p]
           saved(m) == [j.held EXCEPT !.phase = "COMPLETE", !.signature = m.signature]
           k(m) == [Resume(p, "verify_state") EXCEPT !.message = m, !.held = saved(m)]
<1>1. GoodJob(j, drawn, shown, DOMAIN disk) /\ j.pc = "verify"
  BY DEF Inv, JobInv, HostVerify
<1>2. /\ DOMAIN j = JobFields /\ j.dir \in Dir /\ j.out \in OutPath
      /\ j.command = "init_psbt" => j.psbt \in Psbt
      /\ GoodState(j.held, drawn)
      /\ j.command = "verify_psbt" => SignsItsSlot(j.read)
  BY <1>1 DEF GoodJob
<1>3. PICK m \in SignerAnswers :
          SignatureAccepted(j.held, m) /\ job' = [job EXCEPT ![p] = k(m)]
  <2>1. \A m : k(m) = [Resume(p, "verify_state") EXCEPT
                   !.message = m,
                   !.held = [@ EXCEPT !.phase = "COMPLETE", !.signature = m.signature]]
    BY <1>2 DEF Resume, JobFields
  <2> HIDE DEF k
  <2> QED
    BY <2>1 DEF HostVerify, Become
<1>4. Answering(m, shown)
  BY AnswersAnswer DEF Inv
<1>5. GoodState(saved(m), drawn) /\ Verified(m)
  BY <1>2, <1>3, VerifyGood
<1> HIDE DEF saved
<1>6. /\ DOMAIN k(m) = JobFields /\ k(m).pc = "verify_state" /\ k(m).command = j.command
      /\ k(m).dir = j.dir /\ k(m).out = j.out /\ k(m).held = saved(m) /\ k(m).psbt = j.psbt
      /\ k(m).read = j.read /\ k(m).message = m
  BY <1>2 DEF Resume, JobFields
<1>7. GoodJob(k(m), drawn, shown, DOMAIN disk)
  <2> HIDE DEF k
  <2> QED
    BY <1>2, <1>4, <1>5, <1>6 DEF GoodJob, Pcs, SavePcs, ImportPcs
<1> QED
  BY <1>3, <1>7, QuietStep DEF HostVerify

LEMMA ImportSignatureStep ==
    ASSUME Inv, NEW p \in Proc, ImportSignature(p)
    PROVE  Inv'
<1> DEFINE j == job[p]
           k == Resume(p, "import_signed")
<1>1. GoodJob(j, drawn, shown, DOMAIN disk) /\ j.pc = "import"
  BY DEF Inv, JobInv, ImportSignature
<1>2. /\ DOMAIN j = JobFields /\ j.dir \in Dir /\ j.out \in OutPath
      /\ j.command = "init_psbt" => j.psbt \in Psbt
      /\ GoodState(j.held, drawn) /\ Answering(j.message, shown) /\ Verified(j.message)
      /\ j.command = "verify_psbt" /\ SignsItsSlot(j.read) /\ CanImport(j)
  BY <1>1 DEF GoodJob, MessagePcs, VerifiedPcs, ImportSignature
<1>3. /\ DOMAIN k = JobFields /\ k.pc = "import_signed" /\ k.command = j.command
      /\ k.dir = j.dir /\ k.out = j.out /\ k.held = j.held /\ k.psbt = j.psbt
      /\ k.input = j.input /\ k.read = j.read /\ k.message = j.message
  BY <1>2 DEF Resume, JobFields
<1>4. GoodJob(k, drawn, shown, DOMAIN disk)
  <2> HIDE DEF k
  <2> QED
    BY <1>2, <1>3 DEF GoodJob, CanImport, Pcs, ExactPcs, OutputPcs
<1> QED
  BY <1>4, QuietStep DEF ImportSignature, Become

LEMMA CommandStep ==
    ASSUME Inv, NEW p \in Proc, Command(p)
    PROVE  Inv'
<1>1. CASE \E d \in Dir, command \in Commands \intersect {"reveal", "verify", "verify_psbt"} :
              LoadState(p, d, command)
  BY <1>1, LoadStateStep
<1>2. CASE RefuseInput(p)
  BY <1>2, ExitStep DEF RefuseInput
<1> QED
  BY <1>1, <1>2, HostInitStep, HostInitPsbtStep, BindPsbtStep, HostRevealStep,
     PrepareMessage3Step, InnerLoadSteps, PrepareOriginalStep, HostVerifyPsbtStep,
     HostVerifyStep, ImportSignatureStep DEF Command

-----------------------------------------------------------------------------
(***************************************************************************)
(* Steps that write.                                                       *)
(***************************************************************************)

\* What a durable operation writes, by its place in the command.
LEMMA Writes ==
    ASSUME NEW j, j.pc \in ExactPcs \union SavePcs \union {"init_state"}
    PROVE  /\ j.pc \in SavePcs \union {"init_state"} =>
                 Target(j) = StateFile(j.dir) /\ Data(j) = j.held
           /\ j.pc = "bind_original" => Target(j) = OriginalFile(j.dir) /\ Data(j) = j.psbt
           /\ j.pc = "prepare_message2" =>
                 Target(j) = OutFile("prepared/message-2", j.out) /\ Data(j) = j.message
           /\ j.pc \in OutputPcs \ {"prepare_message2"} =>
                 \/ Target(j) = InternalReceiptFile(j.dir)
                 \/ \E kind \in OutKinds \ {"prepared/message-2"} :
                       Target(j) = OutFile(kind, j.out)
<1>1. j.pc \in SavePcs \union {"init_state"} =>
          Target(j) = StateFile(j.dir) /\ Data(j) = j.held
  BY DEF Target, Data, SavePcs
<1>2. j.pc = "bind_original" => Target(j) = OriginalFile(j.dir) /\ Data(j) = j.psbt
  BY DEF Target, Data, SavePcs
<1>3. j.pc = "prepare_message2" =>
          Target(j) = OutFile("prepared/message-2", j.out) /\ Data(j) = j.message
  BY DEF Target, Data, SavePcs
<1>4. ASSUME j.pc \in OutputPcs \ {"prepare_message2"}
      PROVE  \/ Target(j) = InternalReceiptFile(j.dir)
             \/ \E kind \in OutKinds \ {"prepared/message-2"} :
                   Target(j) = OutFile(kind, j.out)
  BY <1>4 DEF Target, SavePcs, OutputPcs, OutKinds
<1> QED
  BY <1>1, <1>2, <1>3, <1>4

\* The kind of output each write is.
LEMMA WrittenKind ==
    ASSUME Inv, NEW p \in Proc, job[p].pc \in OutputPcs
    PROVE  LET j == job[p]
           IN  /\ j.pc \in {"init_message1", "prepare_message2", "reveal_message3"} =>
                     Data(j).kind = "message" /\ Answering(Data(j), shown \union {Data(j)})
               /\ j.pc = "prepare_package" => Data(j).kind = "package"
               /\ j.pc = "verify_receipt" =>
                     Data(j).kind = "receipt" /\ Data(j).message = j.message
               /\ j.pc = "import_signed" => Data(j).kind = "signed"
               /\ j.pc = "import_raw" => Data(j).kind = "raw"
               /\ j.pc = "import_receipt" =>
                     Data(j).kind = "psbt_receipt" /\ Data(j).message = j.message
<1> DEFINE j == job[p]
           new == shown \union {Data(j)}
<1>1. GoodJob(j, drawn, shown, DOMAIN disk)
  BY DEF Inv, JobInv
<1>2. ASSUME j.pc = "init_message1"
      PROVE  Data(j).kind = "message" /\ Answering(Data(j), new)
  <2>1. Data(j) = CommitMessage(j.held)
    BY <1>2 DEF Data, SavePcs
  <2>2. SignsItsSlot(CommitMessage(j.held))
    BY DEF SignsItsSlot, CommitMessage
  <2> QED
    BY <2>1, <2>2, CommitFields DEF Answering
<1>3. ASSUME j.pc = "prepare_message2"
      PROVE  Data(j).kind = "message" /\ Answering(Data(j), new)
  <2>1. Data(j) = j.message /\ Answering(j.message, shown)
    BY <1>1, <1>3 DEF Data, SavePcs, GoodJob, MessagePcs
  <2> QED
    BY <2>1 DEF Answering
<1>4. ASSUME j.pc = "reveal_message3"
      PROVE  Data(j).kind = "message" /\ Answering(Data(j), new)
  <2>1. Data(j) = RevealMessage(j.message, j.held.rho) /\ Answering(j.message, shown)
    BY <1>1, <1>4 DEF Data, SavePcs, GoodJob, MessagePcs
  <2>2. Answering(j.message, new)
    BY <2>1 DEF Answering
  <2> HIDE DEF new
  <2>3. Answering(Data(j), new)
    BY <2>1, <2>2, RevealAnswers
  <2> QED
    BY <2>3 DEF Answering
<1>5. j.pc = "prepare_package" => Data(j).kind = "package"
  BY DEF Data, SavePcs, Package
<1>6. j.pc = "verify_receipt" => Data(j).kind = "receipt" /\ Data(j).message = j.message
  BY DEF Data, SavePcs, Receipt
<1>7. j.pc = "import_signed" => Data(j).kind = "signed"
  BY DEF Data, SavePcs, SignedPsbt
<1>8. j.pc = "import_raw" => Data(j).kind = "raw"
  <2>1. RawTransaction(j.psbt, j.input, j.read).kind = "raw"
    BY DEF RawTransaction, SignedPsbt
  <2> QED
    BY <2>1 DEF Data, SavePcs
<1>9. j.pc = "import_receipt" =>
          Data(j).kind = "psbt_receipt" /\ Data(j).message = j.message
  BY DEF Data, SavePcs, PsbtReceipt
<1> QED
  BY <1>2, <1>3, <1>4, <1>5, <1>6, <1>7, <1>8, <1>9

\* A written receipt is for a response that host_verify accepted.
LEMMA WrittenReceipt ==
    ASSUME Inv, NEW p \in Proc, job[p].pc \in OutputPcs,
           Data(job[p]).kind \in {"receipt", "psbt_receipt"}
    PROVE  Answering(Data(job[p]).message, shown) /\ Verified(Data(job[p]).message)
<1> DEFINE j == job[p]
<1>1. j.pc \in {"verify_receipt", "import_receipt"} /\ Data(j).message = j.message
  BY WrittenKind DEF OutputPcs
<1>2. GoodJob(j, drawn, shown, DOMAIN disk)
  BY DEF Inv, JobInv
<1> QED
  BY <1>1, <1>2 DEF GoodJob, MessagePcs, VerifiedPcs, ImportPcs

\* A signature is written into the slot it names, and into no other.
LEMMA WrittenFills ==
    ASSUME Inv, NEW p \in Proc, job[p].pc \in OutputPcs, Data(job[p]).kind \in {"signed", "raw"}
    PROVE  FillsItsSlot(Data(job[p]))
<1> DEFINE j == job[p]
           r == j.read
           o == Data(j)
<1>1. j.pc \in {"import_signed", "import_raw"}
  BY WrittenKind DEF OutputPcs
<1>2. SignsItsSlot(r) /\ CanImport(j)
  BY <1>1 DEF Inv, JobInv, GoodJob, VerifiedPcs, ImportPcs
<1>3. o.psbt = j.psbt /\ o.input = j.input /\ o.key = r.key /\ o.signature = r.signature
  <2>1. CASE j.pc = "import_signed"
    BY <2>1 DEF Data, SavePcs, SignedPsbt
  <2>2. CASE j.pc = "import_raw"
    BY <2>2 DEF Data, SavePcs, SignedPsbt, RawTransaction
  <2> QED
    BY <1>1, <2>1, <2>2
<1>4. /\ r.signature.key = r.key /\ r.signature.hash = r.hash
      /\ SingleSlot(j.psbt, [input |-> j.input, key |-> r.key, hash |-> r.hash])
  BY <1>2 DEF SignsItsSlot, CanImport, Reconstructs
<1> HIDE DEF o, r, j
<1>5. FillsItsSlot(o)
  BY <1>3, <1>4 DEF FillsItsSlot
<1> QED
  BY <1>5 DEF o, j

LEMMA AtomicReplaceStep ==
    ASSUME Inv, NEW p \in Proc, AtomicReplace(p)
    PROVE  Inv'
<1> DEFINE j == job[p]
<1>1. /\ j.pc \in ExactPcs \union SavePcs \union {"init_state"}
      /\ disk' = [f \in DOMAIN disk \union {Target(j)} |->
                     IF f = Target(j) THEN Data(j) ELSE disk[f]]
      /\ shown' = IF j.pc \in OutputPcs THEN shown \union {Data(j)} ELSE shown
      /\ UNCHANGED <<drawn, damage>> /\ Advance(p)
  BY DEF AtomicReplace, Written
<1>2. /\ GoodJob(j, drawn, shown, DOMAIN disk) /\ j.pc # "idle"
      /\ j.dir \in Dir /\ j.out \in OutPath
  BY <1>1 DEF Inv, JobInv, GoodJob, ExactPcs, OutputPcs, SavePcs
<1>3. shown \subseteq shown' /\ DOMAIN disk \subseteq DOMAIN disk' /\ drawn' = drawn
  BY <1>1
<1>4. JobInv'
  <2>1. ASSUME NEW q \in Proc PROVE GoodJob(job[q], drawn', shown', DOMAIN disk')
    BY <1>3, GoodJobGrows DEF Inv, JobInv
  <2> DEFINE k == [j EXCEPT !.pc = NextPc(j), !.clear = FALSE]
  <2>2. PICK i : GoodJob(i, drawn', shown', DOMAIN disk') /\ job' = [job EXCEPT ![p] = i]
    <3>1. CASE NextPc(j) = "done"
      BY <1>1, <3>1, IdleGood DEF Advance, Exit, Become
    <3>2. CASE NextPc(j) # "done"
      <4>1. j.pc = "prepare_message2" =>
                OutFile("prepared/message-2", j.out) \in DOMAIN disk'
        BY <1>1, Writes
      <4>2. GoodJob(j, drawn', shown', DOMAIN disk')
        BY <2>1
      <4>3. GoodJob(k, drawn', shown', DOMAIN disk')
        BY <1>1, <3>2, <4>1, <4>2, AdvanceGood
      <4>4. job' = [job EXCEPT ![p] = k]
        BY <1>1, <3>2 DEF Advance, Become, Resume
      <4> QED
        BY <4>3, <4>4
    <3> QED
      BY <3>1, <3>2
  <2>3. DOMAIN job' = Proc
    BY <2>2 DEF Inv, JobInv
  <2>4. ASSUME NEW q \in Proc PROVE GoodJob(job'[q], drawn', shown', DOMAIN disk')
    BY <2>1, <2>2 DEF Inv, JobInv
  <2> QED
    BY <2>3, <2>4 DEF JobInv
<1>5. StoreInv'
  <2>1. Target(j) \in File
    <3>1. \A d \in Dir : StateFile(d) \in File /\ OriginalFile(d) \in File
                           /\ InternalReceiptFile(d) \in File
      BY DEF File, StateFile, OriginalFile, InternalReceiptFile
    <3>2. \A kind \in OutKinds, out \in OutPath : OutFile(kind, out) \in File
      BY DEF File, OutFile
    <3>3. "prepared/message-2" \in OutKinds
      BY DEF OutKinds
    <3> QED
      BY <1>1, <1>2, <3>1, <3>2, <3>3, Writes DEF ExactPcs
  <2>2. DOMAIN disk' \subseteq File /\ drawn' \subseteq Session /\ damage' \in 0..MaxDamage
    BY <1>1, <2>1 DEF Inv, StoreInv
  <2>3. ASSUME NEW d \in Dir, Exists(StateFile(d))'
        PROVE  GoodState(disk'[StateFile(d)], drawn')
    <3>1. CASE Target(j) = StateFile(d)
      <4>1. j.pc \in SavePcs \union {"init_state"}
        BY <1>1, <3>1, Writes
           DEF ExactPcs, StateFile, OriginalFile, InternalReceiptFile, OutFile, OutKinds
      <4>2. Data(j) = j.held /\ GoodState(j.held, drawn)
        BY <1>1, <1>2, <4>1, Writes DEF GoodJob, SavePcs
      <4> QED
        BY <1>1, <3>1, <4>2
    <3>2. CASE Target(j) # StateFile(d)
      BY <1>1, <2>3, <3>2 DEF Inv, StoreInv, Exists
    <3> QED
      BY <3>1, <3>2
  <2>4. ASSUME NEW d \in Dir, Exists(OriginalFile(d))'
        PROVE  disk'[OriginalFile(d)] \in Psbt
    <3>1. CASE Target(j) = OriginalFile(d)
      <4>1. j.pc = "bind_original"
        BY <1>1, <3>1, Writes
           DEF ExactPcs, StateFile, OriginalFile, InternalReceiptFile, OutFile, OutKinds
      <4>2. Data(j) = j.psbt /\ j.psbt \in Psbt
        BY <1>1, <1>2, <4>1, Writes DEF GoodJob
      <4> QED
        BY <1>1, <3>1, <4>2
    <3>2. CASE Target(j) # OriginalFile(d)
      BY <1>1, <2>4, <3>2 DEF Inv, StoreInv, Exists
    <3> QED
      BY <3>1, <3>2
  <2>5. ASSUME NEW kind \in OutKinds, NEW out \in OutPath, Exists(OutFile(kind, out))'
        PROVE  disk'[OutFile(kind, out)] \in shown'
    <3>1. CASE Target(j) = OutFile(kind, out)
      <4>1. j.pc \in OutputPcs
        BY <1>1, <3>1, Writes DEF ExactPcs, StateFile, OriginalFile, OutFile, OutKinds
      <4> QED
        BY <1>1, <3>1, <4>1
    <3>2. CASE Target(j) # OutFile(kind, out)
      <4>1. Exists(OutFile(kind, out)) /\ disk'[OutFile(kind, out)] = disk[OutFile(kind, out)]
        BY <1>1, <2>5, <3>2 DEF Exists
      <4> QED
        BY <1>3, <4>1 DEF Inv, StoreInv
    <3> QED
      BY <3>1, <3>2
  <2>6. ASSUME NEW out \in OutPath, Exists(OutFile("prepared/message-2", out))'
        PROVE  disk'[OutFile("prepared/message-2", out)].kind = "message"
    <3> DEFINE f == OutFile("prepared/message-2", out)
    <3>1. CASE Target(j) = f
      <4>1. j.pc = "prepare_message2"
        BY <1>1, <3>1, Writes
           DEF ExactPcs, StateFile, OriginalFile, InternalReceiptFile, OutFile, OutKinds
      <4>2. Data(j) = j.message /\ Answering(j.message, shown)
        BY <1>1, <1>2, <4>1, Writes DEF GoodJob, MessagePcs
      <4> QED
        BY <1>1, <3>1, <4>2 DEF Answering
    <3>2. CASE Target(j) # f
      BY <1>1, <2>6, <3>2 DEF Inv, StoreInv, Exists
    <3> QED
      BY <3>1, <3>2
  <2> QED
    BY <2>2, <2>3, <2>4, <2>5, <2>6 DEF StoreInv
<1>6. ShownInv'
  <2>1. \A m : Answering(m, shown) => Answering(m, shown')
    BY <1>3 DEF Answering
  <2>2. ASSUME NEW o \in shown' \ shown
        PROVE  /\ o.kind = "message" => Answering(o, shown')
               /\ o.kind \in {"receipt", "psbt_receipt"} =>
                     Answering(o.message, shown) /\ Verified(o.message)
               /\ o.kind \in {"signed", "raw"} => FillsItsSlot(o)
    <3>1. j.pc \in OutputPcs /\ o = Data(j) /\ shown' = shown \union {Data(j)}
      BY <1>1, <2>2
    <3>2. Data(j).kind = "message" => Answering(Data(j), shown \union {Data(j)})
      BY <3>1, WrittenKind DEF OutputPcs
    <3>3. Data(j).kind \in {"receipt", "psbt_receipt"} =>
              Answering(Data(j).message, shown) /\ Verified(Data(j).message)
      BY <3>1, WrittenReceipt
    <3>4. Data(j).kind \in {"signed", "raw"} => FillsItsSlot(Data(j))
      BY <3>1, WrittenFills
    <3> QED
      BY <3>1, <3>2, <3>3, <3>4
  <2> QED
    BY <2>1, <2>2 DEF Inv, ShownInv
<1> QED
  BY <1>4, <1>5, <1>6 DEF Inv

\* A stored original is removed or replaced by another PSBT.
LEMMA DamageStep ==
    ASSUME Inv, NEW d \in Dir, DamageOriginal(d)
    PROVE  Inv'
<1>1. /\ DOMAIN disk' \subseteq DOMAIN disk
      /\ \A f \in DOMAIN disk : f # OriginalFile(d) => f \in DOMAIN disk' /\ disk'[f] = disk[f]
      /\ OriginalFile(d) \in DOMAIN disk' => disk'[OriginalFile(d)] \in Psbt
      /\ UNCHANGED <<job, shown, drawn>>
  BY DEF DamageOriginal, Written, Exists
<1>2. damage' \in 0..MaxDamage
  BY WorkflowAssumption DEF DamageOriginal, Inv, StoreInv
<1>3. /\ \A e \in Dir : StateFile(e) # OriginalFile(d)
      /\ \A kind \in OutKinds, out \in OutPath : OutFile(kind, out) # OriginalFile(d)
      /\ "prepared/message-2" \in OutKinds
  BY DEF StateFile, OriginalFile, OutFile, OutKinds
<1>4. JobInv'
  <2>1. ASSUME NEW q \in Proc PROVE GoodJob(job[q], drawn', shown', DOMAIN disk')
    BY <1>1, <1>3, GoodJobGrows DEF Inv, JobInv
  <2> QED
    BY <1>1, <2>1 DEF Inv, JobInv
<1>5. \A e \in Dir : Exists(OriginalFile(e))' => disk'[OriginalFile(e)] \in Psbt
  <2> SUFFICES ASSUME NEW e \in Dir, OriginalFile(e) \in DOMAIN disk'
               PROVE  disk'[OriginalFile(e)] \in Psbt
    BY DEF Exists
  <2>1. CASE OriginalFile(e) = OriginalFile(d)
    BY <1>1, <2>1
  <2>2. CASE OriginalFile(e) # OriginalFile(d)
    BY <1>1, <2>2 DEF Inv, StoreInv, Exists
  <2> QED
    BY <2>1, <2>2
<1>6. StoreInv'
  BY <1>1, <1>2, <1>3, <1>5 DEF Inv, StoreInv, Exists
<1>7. ShownInv'
  BY <1>1 DEF Inv, ShownInv
<1> QED
  BY <1>4, <1>6, <1>7 DEF Inv

-----------------------------------------------------------------------------
(***************************************************************************)
(* The theorems.                                                           *)
(***************************************************************************)

LEMMA InvStep == Inv /\ [Next]_vars => Inv'
<1> SUFFICES ASSUME Inv, [Next]_vars
             PROVE  Inv'
  OBVIOUS
<1>1. CASE UNCHANGED vars
  BY <1>1 DEF vars, Inv, JobInv, StoreInv, ShownInv, Exists
<1>2. ASSUME NEW p \in Proc, StorageStep(p)
      PROVE  Inv'
  BY <1>2, TestSteps, AtomicReplaceStep DEF StorageStep
<1>3. ASSUME NEW p \in Proc, Command(p)
      PROVE  Inv'
  BY <1>3, CommandStep
<1>4. ASSUME NEW p \in Proc, Crash(p)
      PROVE  Inv'
  BY <1>4, ExitStep DEF Crash
<1>5. ASSUME NEW d \in Dir, DamageOriginal(d)
      PROVE  Inv'
  BY <1>5, DamageStep
<1> QED
  BY <1>1, <1>2, <1>3, <1>4, <1>5 DEF Next

\* Inv is an invariant of the workflow, races, crashes and damage included.
THEOREM InvHolds == Spec => []Inv
<1>1. Init => Inv
  BY InitInv
<1>2. Inv /\ [Next]_vars => Inv'
  BY InvStep
<1> QED
  BY <1>1, <1>2, PTL DEF Spec

\* TypeOK: every file and process is what the code takes it for.
THEOREM TypeCorrect == Spec => []TypeOK
<1>1. Inv => TypeOK
  <2> SUFFICES ASSUME Inv
               PROVE  TypeOK
    OBVIOUS
  <2>1. Outputs \subseteq shown
    BY DEF Inv, StoreInv, Outputs, Exists, OutFile
  <2>2. \A p \in Proc :
          /\ job[p].pc \in Pcs
          /\ job[p].pc # "idle" => job[p].dir \in Dir /\ job[p].out \in OutPath
    BY DEF Inv, JobInv, GoodJob
  <2>3. \A d \in Dir : Exists(StateFile(d)) => DOMAIN disk[StateFile(d)] = StateFields
    BY DEF Inv, StoreInv, GoodState
  <2> QED
    BY <2>1, <2>2, <2>3 DEF Inv, StoreInv, JobInv, TypeOK
<1> QED
  BY <1>1, InvHolds, PTL

\* TranscriptInv: no interleaving, crash or retry leaves a session directory holding a
\* mixture of two transcripts (the checks of host_reveal and host_verify against the
\* state they loaded).
THEOREM TranscriptSafety == Spec => []TranscriptInv
<1>1. Inv => TranscriptInv
  BY DEF Inv, StoreInv, GoodState, TranscriptInv, States, Exists
<1> QED
  BY <1>1, InvHolds, PTL

\* SignedBound: whatever races host_init_psbt's second save loses, and whatever becomes
\* of the response file between its two readings, a signature is imported only into the
\* one slot the PSBT in memory has for its key (reconstruct_signed_psbt); and one that a
\* receipt certifies is tweaked by a rho committed to for that slot.
THEOREM SignaturesBound == Spec => []SignedBound
<1>1. Inv => SignedBound
  <2> SUFFICES ASSUME Inv, NEW o \in shown, o.kind \in {"signed", "raw"}
               PROVE  \E slot \in SlotsOf[o.psbt] :
                  /\ SlotsFor(o.psbt, o.key) = {slot} /\ slot.input = o.input
                  /\ o.signature \in Certified =>
                        /\ <<o.signature.key, o.signature.hash>> = <<slot.key, slot.hash>>
                        /\ \E c \in Disclosed(HOST_COMMIT) :
                              <<c.key, c.hash, c.commitment>>
                                  = <<slot.key, slot.hash, HostCommit(o.signature.rho)>>
    BY DEF SignedBound
  <2> DEFINE slot == [input |-> o.input, key |-> o.key, hash |-> o.signature.hash]
  <2>1. o.signature.key = o.key /\ SlotsFor(o.psbt, o.key) = {slot}
    BY DEF Inv, ShownInv, FillsItsSlot, SingleSlot
  <2>2. slot \in SlotsOf[o.psbt] /\ slot.input = o.input
    BY <2>1 DEF SlotsFor
  <2>3. <<o.signature.key, o.signature.hash>> = <<slot.key, slot.hash>>
    BY <2>1
  <2>4. ASSUME o.signature \in Certified
        PROVE  \E c \in Disclosed(HOST_COMMIT) :
                  <<c.key, c.hash, c.commitment>>
                      = <<slot.key, slot.hash, HostCommit(o.signature.rho)>>
    <3>1. PICK x \in shown : /\ x.kind \in {"receipt", "psbt_receipt"}
                             /\ o.signature = x.message.signature
      BY <2>4 DEF Certified
    <3> DEFINE m == x.message
    <3>2. Answering(m, shown) /\ Verified(m)
      BY <3>1 DEF Inv, ShownInv
    <3>3. /\ o.signature.key = m.key /\ o.signature.hash = m.hash
          /\ HostCommit(o.signature.rho) = m.commitment
      BY <3>1, <3>2 DEF Verified, AntiExfilSignature
    <3>4. PICK c \in Disclosed(HOST_COMMIT) : Context(m) = Context(c)
      BY <3>2 DEF Answering, Disclosed
    <3>5. c.key = m.key /\ c.hash = m.hash /\ c.commitment = m.commitment
      BY <3>4 DEF Context
    <3> HIDE DEF slot, m
    <3> QED
      BY <2>3, <3>3, <3>4, <3>5
  <2> HIDE DEF slot
  <2> QED
    BY <2>1, <2>2, <2>3, <2>4
<1> QED
  BY <1>1, InvHolds, PTL
-----------------------------------------------------------------------------
(***************************************************************************)
(* Commands run one at a time: what links the state in the memory of the   *)
(* process, the state on disk and the outputs.                             *)
(***************************************************************************)

Sequential == \A p, q \in Proc : p = q

\* State t continues state s: the session is the same, and neither its PSBT nor a
\* signature it completed with is lost.
Continues(s, t) ==
    /\ <<t.session, t.key, t.hash, t.commitment>> = <<s.session, s.key, s.hash, s.commitment>>
    /\ s.psbt # Absent => t.psbt = s.psbt /\ t.input = s.input
    /\ s.phase = "COMPLETE" => t.phase = "COMPLETE" /\ t.signature = s.signature

\* The PSBT a state is bound to has the slot the state signs.
SlotAt(input, s) == [input |-> input, key |-> s.key, hash |-> s.hash]

SlotFits(s) == s.psbt # Absent => SingleSlot(s.psbt, SlotAt(s.input, s))

\* One of the operator's output files holds o.
Stored(o, files) ==
    \E kind \in OutKinds, out \in OutPath :
        OutFile(kind, out) \in DOMAIN files /\ files[OutFile(kind, out)] = o

CreatePcs   == {"init_state", "init_message1", "bind"}
CopyPcs     == {"prepare_message2", "prepare_load"}
AnsweredPcs == {"reveal_state", "reveal_message3", "prepare_original", "prepare_package"}
                   \union VerifiedPcs

\* What a process holds fits together.
Fits(j) ==
    /\ j.pc \notin CopyPcs => SlotFits(j.held)
    /\ j.pc \in CreatePcs /\ j.command = "init_psbt" =>
          j.held.psbt = Absent /\ SingleSlot(j.psbt, SlotAt(j.input, j.held))
    /\ j.pc \in AnsweredPcs => StateContext(j.held, j.message)
    /\ j.pc = "prepare_package" => j.psbt = j.held.psbt /\ j.psbt # Absent
    /\ j.pc \in VerifiedPcs =>
          j.held.phase = "COMPLETE" /\ j.held.signature = j.message.signature

\* The state it holds is that of its directory, or continues it where a save is due.
InStep(j, files) ==
    /\ StateFile(j.dir) \in DOMAIN files
    /\ IF j.pc \in SavePcs THEN Continues(files[StateFile(j.dir)], j.held)
                           ELSE j.held = files[StateFile(j.dir)]

Rests(j, files) ==
    j.pc # "idle" =>
        /\ Fits(j)
        /\ j.pc \in ExactPcs \union {"init_state"} /\ j.clear => Target(j) \notin DOMAIN files
        /\ j.pc \notin CopyPcs \union {"init_state"} => InStep(j, files)
        /\ j.pc \in {"import_raw", "import_receipt"} =>
              Stored(SignedPsbt(j.psbt, j.input, j.read), files)
        /\ j.pc = "import_receipt" =>
              Stored(RawTransaction(j.psbt, j.input, j.read), files)

RestsInv ==
    /\ \A p \in Proc : Rests(job[p], disk)
    /\ \A d \in Dir : Exists(StateFile(d)) => SlotFits(disk[StateFile(d)])

\* A package is that of a session on disk, with the PSBT it is bound to.
PackageRests(o, files) ==
    \E d \in Dir :
        /\ StateFile(d) \in DOMAIN files
        /\ StateContext(files[StateFile(d)], o.message)
        /\ files[StateFile(d)].psbt = o.psbt /\ o.psbt # Absent

ReceiptRests(o, files) ==
    /\ \E d \in Dir :
          /\ StateFile(d) \in DOMAIN files
          /\ files[StateFile(d)].session = o.message.session
          /\ files[StateFile(d)].phase = "COMPLETE"
          /\ files[StateFile(d)].signature = o.message.signature
    /\ o.kind = "psbt_receipt" =>
          Stored(o.signed, files) /\ Stored([o.signed EXCEPT !.kind = "raw"], files)

OutcomesRest ==
    \A o \in shown :
        /\ o.kind = "package" => PackageRests(o, disk)
        /\ o.kind \in {"receipt", "psbt_receipt"} => ReceiptRests(o, disk)

SequentialInv == Inv /\ RestsInv /\ OutcomesRest

LEMMA SequentialInit == Init => SequentialInv
<1> SUFFICES ASSUME Init
             PROVE  SequentialInv
  OBVIOUS
<1>1. RestsInv
  BY DEF Init, RestsInv, Rests, Idle, Exists
<1>2. OutcomesRest
  BY DEF Init, OutcomesRest
<1> QED
  BY <1>1, <1>2, InitInv DEF SequentialInv

\* A step that changes one process only.
LEMMA SequentialQuiet ==
    ASSUME SequentialInv, NEW p \in Proc, NEW j, Rests(j, disk), job' = [job EXCEPT ![p] = j],
           UNCHANGED <<disk, shown>>, Inv'
    PROVE  SequentialInv'
<1>1. \A q \in Proc : Rests(job'[q], disk)
  BY DEF SequentialInv, RestsInv, Inv, JobInv
<1>2. RestsInv'
  BY <1>1 DEF SequentialInv, RestsInv, Exists
<1>3. OutcomesRest'
  BY DEF SequentialInv, OutcomesRest
<1> QED
  BY <1>2, <1>3 DEF SequentialInv

LEMMA IdleRests ==
    ASSUME NEW files
    PROVE  Rests(Idle, files)
BY DEF Rests, Idle

\* What is known of a process at work.
LEMMA JobKnown ==
    ASSUME SequentialInv, NEW p \in Proc, job[p].pc # "idle"
    PROVE  /\ DOMAIN job[p] = JobFields /\ job[p].dir \in Dir /\ job[p].out \in OutPath
           /\ Fits(job[p])
           /\ job[p].pc \in ExactPcs \union {"init_state"} /\ job[p].clear =>
                 Target(job[p]) \notin DOMAIN disk
           /\ job[p].pc \notin CopyPcs \union {"init_state"} => InStep(job[p], disk)
BY DEF SequentialInv, Inv, JobInv, GoodJob, RestsInv, Rests

-----------------------------------------------------------------------------
(***************************************************************************)
(* Sequential commands: steps that write nothing.                          *)
(***************************************************************************)

\* host_init: no PSBT is bound yet.
LEMMA HostInitRests ==
    ASSUME NEW p \in Proc, HostInit(p)
    PROVE  \E j : Rests(j, disk) /\ job' = [job EXCEPT ![p] = j]
<1>1. PICK d \in Dir, session \in Session \ drawn, out \in OutPath,
           slot \in UNION {SlotsOf[q] : q \in Psbt} :
          job' = [job EXCEPT ![p] = [Job("init_state", "init", d, out) EXCEPT
                            !.held = InitialState(session, slot)]]
  BY DEF HostInit, Become
<1> DEFINE j == [Job("init_state", "init", d, out) EXCEPT !.held = InitialState(session, slot)]
<1>2. /\ j.pc = "init_state" /\ j.command = "init" /\ j.clear = FALSE
      /\ j.held.psbt = Absent
  BY DEF Job, InitialState
<1>3. Rests(j, disk)
  <2> HIDE DEF j
  <2> QED
    BY <1>2 DEF Rests, Fits, SlotFits, AnsweredPcs, VerifiedPcs, ImportPcs
<1> QED
  BY <1>1, <1>3

\* host_init_psbt: the PSBT in memory has the slot of the new session and no other.
LEMMA HostInitPsbtRests ==
    ASSUME NEW p \in Proc, HostInitPsbt(p)
    PROVE  \E j : Rests(j, disk) /\ job' = [job EXCEPT ![p] = j]
<1>1. PICK d \in Dir, session \in Session \ drawn, out \in OutPath, psbt \in Psbt :
          \E slot \in SlotsOf[psbt] :
              /\ SingleSlot(psbt, slot)
              /\ job' = [job EXCEPT ![p] = [Job("init_state", "init_psbt", d, out) EXCEPT
                                !.held = InitialState(session, slot),
                                !.psbt = psbt, !.input = slot.input]]
  BY Zenon DEF HostInitPsbt, Become
<1>2. PICK slot \in SlotsOf[psbt] :
          /\ SingleSlot(psbt, slot)
          /\ job' = [job EXCEPT ![p] = [Job("init_state", "init_psbt", d, out) EXCEPT
                            !.held = InitialState(session, slot),
                            !.psbt = psbt, !.input = slot.input]]
  BY <1>1, Zenon
<1> DEFINE j == [Job("init_state", "init_psbt", d, out) EXCEPT
                    !.held = InitialState(session, slot),
                    !.psbt = psbt, !.input = slot.input]
<1>3. /\ j.pc = "init_state" /\ j.clear = FALSE /\ j.psbt = psbt /\ j.input = slot.input
      /\ j.held.psbt = Absent /\ j.held.key = slot.key /\ j.held.hash = slot.hash
  BY DEF Job, InitialState
<1> HIDE DEF j
<1>4. SlotAt(j.input, j.held) = slot
  BY <1>3, WorkflowAssumption DEF SlotAt
<1>5. Rests(j, disk)
  BY <1>2, <1>3, <1>4 DEF Rests, Fits, SlotFits, AnsweredPcs, VerifiedPcs, ImportPcs
<1> QED
  BY <1>2, <1>5 DEF j

\* Binding goes on with the session that was just created.
LEMMA BindPsbtRests ==
    ASSUME SequentialInv, NEW p \in Proc, BindPsbt(p)
    PROVE  \E j : Rests(j, disk) /\ job' = [job EXCEPT ![p] = j]
<1> DEFINE j == job[p]
           s == disk[StateFile(j.dir)]
           t == [s EXCEPT !.rung = "C", !.psbt = j.psbt, !.input = j.input]
           k == [Resume(p, "bind_state") EXCEPT !.held = t]
<1>1. /\ j.pc = "bind" /\ j.command = "init_psbt"
      /\ DOMAIN j = JobFields /\ Fits(j) /\ InStep(j, disk)
  <2>1. j.pc = "bind"
    BY DEF BindPsbt
  <2>2. j.command = "init_psbt"
    BY <2>1 DEF SequentialInv, Inv, JobInv, GoodJob
  <2> QED
    BY <2>1, <2>2, JobKnown DEF CopyPcs
<1>2. StateFile(j.dir) \in DOMAIN disk /\ j.held = s
  BY <1>1 DEF InStep, SavePcs
<1>3. DOMAIN s = StateFields
  BY <1>1, <1>2, JobKnown DEF SequentialInv, Inv, JobInv, GoodJob, GoodState
<1>4. /\ t.session = s.session /\ t.key = s.key /\ t.hash = s.hash
      /\ t.commitment = s.commitment /\ t.psbt = j.psbt /\ t.input = j.input
      /\ t.phase = s.phase /\ t.signature = s.signature
  BY <1>3 DEF StateFields
<1>5. /\ k.pc = "bind_state" /\ k.dir = j.dir /\ k.held = t
  BY <1>1 DEF Resume, JobFields
<1>6. s.psbt = Absent /\ SingleSlot(j.psbt, SlotAt(j.input, s))
  BY <1>1, <1>2 DEF Fits, CreatePcs
<1> HIDE DEF t, k
<1>7. SlotFits(t) /\ Continues(s, t)
  BY <1>4, <1>6 DEF SlotFits, SlotAt, Continues
<1>8. Rests(k, disk)
  <2>1. Fits(k)
    BY <1>5, <1>7 DEF Fits, CreatePcs, AnsweredPcs, VerifiedPcs, ImportPcs
  <2>2. InStep(k, disk)
    BY <1>2, <1>5, <1>7 DEF InStep, SavePcs
  <2> QED
    BY <1>5, <2>1, <2>2 DEF Rests, ExactPcs, OutputPcs
<1> QED
  BY <1>8 DEF BindPsbt, Become, k, t

LEMMA LoadStateRests ==
    ASSUME SequentialInv, NEW p \in Proc, NEW d \in Dir,
           NEW command \in {"reveal", "verify", "verify_psbt"}, LoadState(p, d, command)
    PROVE  \E j : Rests(j, disk) /\ job' = [job EXCEPT ![p] = j]
<1>1. PICK out \in OutPath :
          job' = [job EXCEPT ![p] =
                     [Job(command, command, d, out) EXCEPT !.held = disk[StateFile(d)]]]
  BY DEF LoadState, Become
<1> DEFINE j == [Job(command, command, d, out) EXCEPT !.held = disk[StateFile(d)]]
<1>2. j.pc = command /\ j.dir = d /\ j.held = disk[StateFile(d)] /\ j.clear = FALSE
  BY DEF Job
<1>3. StateFile(d) \in DOMAIN disk /\ SlotFits(disk[StateFile(d)])
  BY DEF LoadState, Exists, SequentialInv, RestsInv
<1> HIDE DEF j
<1>4. Fits(j) /\ InStep(j, disk)
  BY <1>2, <1>3
     DEF Fits, CreatePcs, AnsweredPcs, VerifiedPcs, ImportPcs, InStep, SavePcs
<1>5. Rests(j, disk)
  BY <1>2, <1>4 DEF Rests
<1> QED
  BY <1>1, <1>5 DEF j

LEMMA PrepareMessage3Rests ==
    ASSUME NEW p \in Proc, PrepareMessage3(p)
    PROVE  \E j : Rests(j, disk) /\ job' = [job EXCEPT ![p] = j]
<1>1. PICK d \in Dir, out \in OutPath, m \in SignerAnswers :
          job' = [job EXCEPT ![p] =
                     [Job("prepare_message2", "prepare", d, out) EXCEPT !.message = m]]
  BY DEF PrepareMessage3, Become
<1> DEFINE j == [Job("prepare_message2", "prepare", d, out) EXCEPT !.message = m]
<1>2. j.pc = "prepare_message2" /\ j.clear = FALSE
  BY DEF Job
<1> HIDE DEF j
<1>3. Rests(j, disk)
  BY <1>2 DEF Rests, Fits, CopyPcs, CreatePcs, AnsweredPcs, VerifiedPcs, ImportPcs
<1> QED
  BY <1>1, <1>3 DEF j

\* host_reveal and host_verify, each called from the command around it.
LEMMA InnerLoadRests ==
    ASSUME SequentialInv, NEW p \in Proc, PrepareLoad(p) \/ VerifyLoad(p)
    PROVE  \E j : Rests(j, disk) /\ job' = [job EXCEPT ![p] = j]
<1> DEFINE j == job[p]
           pc == IF j.pc = "prepare_load" THEN "reveal" ELSE "verify"
           k == [Resume(p, pc) EXCEPT !.held = disk[StateFile(j.dir)]]
<1>1. /\ j.pc \in {"prepare_load", "verify_load"} /\ Exists(StateFile(j.dir))
      /\ job' = [job EXCEPT ![p] = k]
  BY DEF PrepareLoad, VerifyLoad, Become
<1>2. DOMAIN j = JobFields /\ j.dir \in Dir
  BY <1>1, JobKnown
<1>3. /\ k.pc \in {"reveal", "verify"} /\ k.dir = j.dir /\ k.held = disk[StateFile(j.dir)]
      /\ k.clear = FALSE
  BY <1>2 DEF Resume, JobFields
<1>4. SlotFits(disk[StateFile(j.dir)])
  BY <1>1, <1>2 DEF SequentialInv, RestsInv
<1> HIDE DEF k
<1>5. Fits(k) /\ InStep(k, disk)
  BY <1>1, <1>3, <1>4
     DEF Fits, CreatePcs, AnsweredPcs, VerifiedPcs, ImportPcs, InStep, SavePcs, Exists
<1>6. Rests(k, disk)
  BY <1>3, <1>5 DEF Rests
<1> QED
  BY <1>1, <1>6 DEF k

\* The first opening continues the state; a retry leaves it as it is.
LEMMA HostRevealRests ==
    ASSUME SequentialInv, NEW p \in Proc, HostReveal(p)
    PROVE  \E j : Rests(j, disk) /\ job' = [job EXCEPT ![p] = j]
<1> DEFINE j == job[p]
           s == j.held
           saved(m) == [s EXCEPT !.opening = m.opening, !.phase = "OPENINGS_ACCEPTED"]
           first(m) == [Resume(p, "reveal_state") EXCEPT !.message = m, !.held = saved(m)]
           again(m) == [Resume(p, "reveal_message3") EXCEPT !.message = m]
<1>1. j.pc = "reveal"
  BY DEF HostReveal
<1>2. DOMAIN j = JobFields /\ Fits(j) /\ InStep(j, disk) /\ DOMAIN s = StateFields
  <2>1. DOMAIN s = StateFields
    BY <1>1 DEF SequentialInv, Inv, JobInv, GoodJob, GoodState
  <2> QED
    BY <1>1, <2>1, JobKnown DEF CopyPcs
<1>3. StateFile(j.dir) \in DOMAIN disk /\ s = disk[StateFile(j.dir)] /\ SlotFits(s)
  BY <1>1, <1>2 DEF InStep, SavePcs, Fits, CopyPcs
<1>4. PICK m \in RevealInputs(j) :
          /\ OpeningAccepted(s, m)
          /\ IF s.phase = "COMMITMENTS_CREATED"
             THEN job' = [job EXCEPT ![p] = first(m)]
             ELSE job' = [job EXCEPT ![p] = again(m)]
  <2>1. \A m : first(m) = [Resume(p, "reveal_state") EXCEPT
                     !.message = m,
                     !.held = [@ EXCEPT !.opening = m.opening, !.phase = "OPENINGS_ACCEPTED"]]
    BY <1>2 DEF Resume, JobFields
  <2> HIDE DEF first
  <2> QED
    BY <2>1 DEF HostReveal, Become
<1>5. StateContext(s, m)
  BY <1>4 DEF OpeningAccepted
<1>6. CASE s.phase = "COMMITMENTS_CREATED"
  <2> DEFINE t == saved(m)
             k == first(m)
  <2>1. /\ t.session = s.session /\ t.key = s.key /\ t.hash = s.hash
        /\ t.commitment = s.commitment /\ t.psbt = s.psbt /\ t.input = s.input
    BY <1>2 DEF StateFields
  <2>2. k.pc = "reveal_state" /\ k.dir = j.dir /\ k.held = t /\ k.message = m
    BY <1>2 DEF Resume, JobFields
  <2> HIDE DEF saved, first
  <2>3. SlotFits(t) /\ Continues(s, t) /\ StateContext(t, m)
    BY <1>3, <1>5, <1>6, <2>1 DEF SlotFits, SlotAt, Continues, StateContext
  <2> HIDE DEF t, k
  <2>4. Fits(k) /\ InStep(k, disk)
    BY <1>3, <2>2, <2>3 DEF Fits, CreatePcs, VerifiedPcs, ImportPcs, InStep, SavePcs
  <2>5. Rests(k, disk)
    BY <2>2, <2>4 DEF Rests, ExactPcs, OutputPcs
  <2> QED
    BY <1>4, <1>6, <2>5 DEF k
<1>7. CASE s.phase # "COMMITMENTS_CREATED"
  <2> DEFINE k == again(m)
  <2>1. /\ k.pc = "reveal_message3" /\ k.dir = j.dir /\ k.held = s /\ k.message = m
        /\ k.clear = FALSE
    BY <1>2 DEF Resume, JobFields
  <2> HIDE DEF k, again
  <2>2. Fits(k) /\ InStep(k, disk)
    BY <1>3, <1>5, <2>1 DEF Fits, CreatePcs, VerifiedPcs, ImportPcs, InStep, SavePcs
  <2>3. Rests(k, disk)
    BY <2>1, <2>2 DEF Rests
  <2> QED
    BY <1>4, <1>7, <2>3 DEF k
<1> QED
  BY <1>6, <1>7

\* The original that goes into the package is the PSBT the state is bound to.
LEMMA PrepareOriginalRests ==
    ASSUME SequentialInv, NEW p \in Proc, PrepareOriginal(p)
    PROVE  \E j : Rests(j, disk) /\ job' = [job EXCEPT ![p] = j]
<1> DEFINE j == job[p]
           k == [Resume(p, "prepare_package") EXCEPT !.psbt = disk[OriginalFile(j.dir)]]
<1>1. /\ j.pc = "prepare_original" /\ job' = [job EXCEPT ![p] = k]
      /\ disk[StateFile(j.dir)].psbt # Absent
      /\ disk[OriginalFile(j.dir)] = disk[StateFile(j.dir)].psbt
  BY DEF PrepareOriginal, OriginalMatches, OriginalIs, Become
<1>2. DOMAIN j = JobFields /\ Fits(j) /\ InStep(j, disk)
  BY <1>1, JobKnown DEF CopyPcs
<1>3. /\ k.pc = "prepare_package" /\ k.dir = j.dir /\ k.held = j.held
      /\ k.message = j.message /\ k.psbt = disk[OriginalFile(j.dir)] /\ k.clear = FALSE
  BY <1>2 DEF Resume, JobFields
<1> HIDE DEF k
<1>4. /\ StateFile(j.dir) \in DOMAIN disk /\ j.held = disk[StateFile(j.dir)]
      /\ SlotFits(j.held) /\ StateContext(j.held, j.message)
  BY <1>1, <1>2 DEF InStep, SavePcs, Fits, CopyPcs, AnsweredPcs
<1>5. Fits(k) /\ InStep(k, disk)
  BY <1>1, <1>3, <1>4 DEF Fits, CreatePcs, VerifiedPcs, ImportPcs, InStep, SavePcs
<1>6. Rests(k, disk)
  BY <1>3, <1>5 DEF Rests
<1> QED
  BY <1>1, <1>6 DEF k

LEMMA HostVerifyPsbtRests ==
    ASSUME SequentialInv, NEW p \in Proc, HostVerifyPsbt(p)
    PROVE  \E j : Rests(j, disk) /\ job' = [job EXCEPT ![p] = j]
<1> DEFINE j == job[p]
           k(m) == [Resume(p, "verify_load") EXCEPT
                       !.read = SlotSignature(m), !.psbt = j.held.psbt, !.input = j.held.input]
<1>1. PICK m \in SignerAnswers : job' = [job EXCEPT ![p] = k(m)]
  BY DEF HostVerifyPsbt, Become
<1>2. j.pc = "verify_psbt"
  BY DEF HostVerifyPsbt
<1>3. DOMAIN j = JobFields /\ Fits(j) /\ InStep(j, disk)
  BY <1>2, JobKnown DEF CopyPcs
<1>4. k(m).pc = "verify_load" /\ k(m).dir = j.dir /\ k(m).held = j.held /\ k(m).clear = FALSE
  BY <1>3 DEF Resume, JobFields
<1> HIDE DEF k
<1>5. Fits(k(m)) /\ InStep(k(m), disk)
  BY <1>2, <1>3, <1>4
     DEF Fits, CopyPcs, CreatePcs, AnsweredPcs, VerifiedPcs, ImportPcs, InStep, SavePcs
<1>6. Rests(k(m), disk)
  BY <1>4, <1>5 DEF Rests
<1> QED
  BY <1>1, <1>6

\* Completion continues the state: a session that was complete keeps its signature.
LEMMA HostVerifyRests ==
    ASSUME SequentialInv, NEW p \in Proc, HostVerify(p)
    PROVE  \E j : Rests(j, disk) /\ job' = [job EXCEPT ![p] = j]
<1> DEFINE j == job[p]
           s == j.held
           saved(m) == [s EXCEPT !.phase = "COMPLETE", !.signature = m.signature]
           k(m) == [Resume(p, "verify_state") EXCEPT !.message = m, !.held = saved(m)]
<1>1. j.pc = "verify"
  BY DEF HostVerify
<1>2. DOMAIN j = JobFields /\ Fits(j) /\ InStep(j, disk) /\ DOMAIN s = StateFields
  <2>1. DOMAIN s = StateFields
    BY <1>1 DEF SequentialInv, Inv, JobInv, GoodJob, GoodState
  <2> QED
    BY <1>1, <2>1, JobKnown DEF CopyPcs
<1>3. StateFile(j.dir) \in DOMAIN disk /\ s = disk[StateFile(j.dir)] /\ SlotFits(s)
  BY <1>1, <1>2 DEF InStep, SavePcs, Fits, CopyPcs
<1>4. PICK m \in SignerAnswers : SignatureAccepted(s, m) /\ job' = [job EXCEPT ![p] = k(m)]
  <2>1. \A m : k(m) = [Resume(p, "verify_state") EXCEPT
                   !.message = m,
                   !.held = [@ EXCEPT !.phase = "COMPLETE", !.signature = m.signature]]
    BY <1>2 DEF Resume, JobFields
  <2> HIDE DEF k
  <2> QED
    BY <2>1 DEF HostVerify, Become
<1>5. StateContext(s, m) /\ (s.phase = "COMPLETE" => s.signature = m.signature)
  BY <1>4 DEF SignatureAccepted
<1> DEFINE t == saved(m)
<1>6. /\ t.session = s.session /\ t.key = s.key /\ t.hash = s.hash
      /\ t.commitment = s.commitment /\ t.psbt = s.psbt /\ t.input = s.input
      /\ t.phase = "COMPLETE" /\ t.signature = m.signature
  BY <1>2 DEF StateFields
<1>7. /\ k(m).pc = "verify_state" /\ k(m).dir = j.dir /\ k(m).held = t
      /\ k(m).message = m
  BY <1>2 DEF Resume, JobFields
<1> HIDE DEF saved, k, t
<1>8. SlotFits(t) /\ Continues(s, t) /\ StateContext(t, m)
  BY <1>3, <1>5, <1>6 DEF SlotFits, SlotAt, Continues, StateContext
<1>9. Fits(k(m)) /\ InStep(k(m), disk)
  BY <1>3, <1>6, <1>7, <1>8 DEF Fits, CreatePcs, InStep, SavePcs
<1>10. Rests(k(m), disk)
  BY <1>7, <1>9 DEF Rests, ExactPcs, OutputPcs, ImportPcs
<1> QED
  BY <1>4, <1>10

LEMMA ImportSignatureRests ==
    ASSUME SequentialInv, NEW p \in Proc, ImportSignature(p)
    PROVE  \E j : Rests(j, disk) /\ job' = [job EXCEPT ![p] = j]
<1> DEFINE j == job[p]
           k == Resume(p, "import_signed")
<1>1. j.pc = "import" /\ job' = [job EXCEPT ![p] = k]
  BY DEF ImportSignature, Become
<1>2. DOMAIN j = JobFields /\ Fits(j) /\ InStep(j, disk)
  BY <1>1, JobKnown DEF CopyPcs
<1>3. /\ k.pc = "import_signed" /\ k.dir = j.dir /\ k.held = j.held
      /\ k.message = j.message /\ k.clear = FALSE
  BY <1>2 DEF Resume, JobFields
<1> HIDE DEF k
<1>4. Fits(k) /\ InStep(k, disk)
  BY <1>1, <1>2, <1>3
     DEF Fits, CopyPcs, CreatePcs, AnsweredPcs, VerifiedPcs, ImportPcs, InStep, SavePcs
<1>5. Rests(k, disk)
  BY <1>3, <1>4 DEF Rests
<1> QED
  BY <1>1, <1>5 DEF k

-----------------------------------------------------------------------------
(***************************************************************************)
(* Sequential commands: durable operations.                                *)
(***************************************************************************)

\* A process whose durable operation is done rests on it for the next one.
LEMMA AdvanceRests ==
    ASSUME NEW j, NEW files, DOMAIN j = JobFields, j.out \in OutPath, Fits(j),
           j.pc \in ExactPcs \union SavePcs \union {"init_state"}, NextPc(j) # "done",
           j.pc # "prepare_message2" =>
               StateFile(j.dir) \in DOMAIN files /\ files[StateFile(j.dir)] = j.held,
           Target(j) \in DOMAIN files, files[Target(j)] = Data(j),
           j.pc = "import_raw" => Stored(SignedPsbt(j.psbt, j.input, j.read), files)
    PROVE  Rests([j EXCEPT !.pc = NextPc(j), !.clear = FALSE], files)
<1> DEFINE k == [j EXCEPT !.pc = NextPc(j), !.clear = FALSE]
<1>1. /\ k.pc = NextPc(j) /\ k.clear = FALSE
      /\ k.command = j.command /\ k.dir = j.dir /\ k.out = j.out /\ k.held = j.held
      /\ k.psbt = j.psbt /\ k.input = j.input /\ k.read = j.read /\ k.message = j.message
  BY DEF JobFields
<1> HIDE DEF k
<1>2. \/ j.pc = "init_state" /\ NextPc(j) = "init_message1"
      \/ j.pc = "init_message1" /\ j.command = "init_psbt" /\ NextPc(j) = "bind"
      \/ j.pc = "bind_state" /\ NextPc(j) = "bind_original"
      \/ j.pc = "prepare_message2" /\ NextPc(j) = "prepare_load"
      \/ j.pc = "reveal_state" /\ NextPc(j) = "reveal_message3"
      \/ j.pc = "reveal_message3" /\ NextPc(j) = "prepare_original"
      \/ j.pc = "verify_state" /\ NextPc(j) = "verify_receipt"
      \/ j.pc = "verify_receipt" /\ NextPc(j) = "import"
      \/ j.pc = "import_signed" /\ NextPc(j) = "import_raw"
      \/ j.pc = "import_raw" /\ NextPc(j) = "import_receipt"
  BY DEF NextPc
<1>3. k.pc \notin CopyPcs => SlotFits(k.held)
  BY <1>1, <1>2 DEF Fits, CopyPcs
<1>4. k.pc \in CreatePcs /\ k.command = "init_psbt" =>
          k.held.psbt = Absent /\ SingleSlot(k.psbt, SlotAt(k.input, k.held))
  BY <1>1, <1>2 DEF Fits, CreatePcs
<1>5. /\ k.pc \in AnsweredPcs => StateContext(k.held, k.message)
      /\ k.pc # "prepare_package"
      /\ k.pc \in VerifiedPcs =>
            k.held.phase = "COMPLETE" /\ k.held.signature = k.message.signature
  BY <1>1, <1>2 DEF Fits, AnsweredPcs, VerifiedPcs, ImportPcs
<1>6. Fits(k)
  BY <1>3, <1>4, <1>5 DEF Fits
<1>7. k.pc \notin CopyPcs \union {"init_state"} => InStep(k, files)
  BY <1>1, <1>2 DEF CopyPcs, InStep, SavePcs
<1>8. k.pc = "import_raw" => Stored(SignedPsbt(k.psbt, k.input, k.read), files)
  <2> SUFFICES ASSUME k.pc = "import_raw"
               PROVE  Stored(SignedPsbt(k.psbt, k.input, k.read), files)
    OBVIOUS
  <2>1. j.pc = "import_signed"
    BY <1>1, <1>2
  <2>2. /\ Target(j) = OutFile("signed.psbt", j.out)
        /\ Data(j) = SignedPsbt(j.psbt, j.input, j.read)
    BY <2>1 DEF Target, Data, SavePcs
  <2> QED
    BY <1>1, <2>2 DEF Stored, OutKinds
<1>9. k.pc = "import_receipt" =>
          /\ Stored(SignedPsbt(k.psbt, k.input, k.read), files)
          /\ Stored(RawTransaction(k.psbt, k.input, k.read), files)
  <2> SUFFICES ASSUME k.pc = "import_receipt"
               PROVE  /\ Stored(SignedPsbt(k.psbt, k.input, k.read), files)
                      /\ Stored(RawTransaction(k.psbt, k.input, k.read), files)
    OBVIOUS
  <2>1. j.pc = "import_raw"
    BY <1>1, <1>2
  <2>2. /\ Target(j) = OutFile("transaction.raw", j.out)
        /\ Data(j) = RawTransaction(j.psbt, j.input, j.read)
    BY <2>1 DEF Target, Data, SavePcs
  <2>3. Stored(RawTransaction(j.psbt, j.input, j.read), files)
    BY <2>2 DEF Stored, OutKinds
  <2> QED
    BY <1>1, <2>1, <2>3
<1>10. Rests(k, files)
  BY <1>1, <1>6, <1>7, <1>8, <1>9 DEF Rests
<1> QED
  BY <1>10 DEF k

\* The existence tests of write_exact and save_state.
LEMMA TestsRest ==
    ASSUME SequentialInv, NEW p \in Proc, FindAbsent(p) \/ FindSame(p) \/ FindConflict(p)
    PROVE  \E j : Rests(j, disk) /\ job' = [job EXCEPT ![p] = j]
<1> DEFINE j == job[p]
<1>1. Rests(j, disk)
  BY DEF SequentialInv, RestsInv
<1>2. j.pc \in ExactPcs \union {"init_state"} /\ j.pc # "idle"
  BY DEF FindAbsent, FindSame, FindConflict, ExactPcs, OutputPcs
<1>3. /\ DOMAIN j = JobFields /\ j.out \in OutPath /\ Fits(j)
      /\ j.pc \notin CopyPcs \union {"init_state"} => InStep(j, disk)
  BY <1>2, JobKnown
<1>4. CASE FindAbsent(p)
  <2> DEFINE k == [j EXCEPT !.clear = TRUE]
  <2>1. /\ k.pc = j.pc /\ k.command = j.command /\ k.dir = j.dir /\ k.out = j.out
        /\ k.held = j.held /\ k.psbt = j.psbt /\ k.input = j.input /\ k.read = j.read
        /\ k.message = j.message
    BY <1>3 DEF JobFields
  <2>2. ~Exists(Target(j)) /\ job' = [job EXCEPT ![p] = k]
    BY <1>4 DEF FindAbsent, Become
  <2> HIDE DEF k
  <2>3. Target(k) = Target(j)
    BY <2>1 DEF Target
  <2>4. Fits(k) /\ (InStep(j, disk) => InStep(k, disk))
    BY <1>3, <2>1 DEF Fits, InStep
  <2>5. Rests(k, disk)
    BY <1>1, <1>2, <2>1, <2>2, <2>3, <2>4 DEF Rests, Exists
  <2> QED
    BY <2>2, <2>5
<1>5. CASE FindSame(p)
  <2> DEFINE k == [j EXCEPT !.pc = NextPc(j), !.clear = FALSE]
  <2>1. CASE NextPc(j) = "done"
    BY <1>5, <2>1, IdleRests DEF FindSame, Advance, Exit, Become
  <2>2. CASE NextPc(j) # "done"
    <3>1. /\ j.pc \in ExactPcs /\ Target(j) \in DOMAIN disk /\ disk[Target(j)] = Data(j)
          /\ job' = [job EXCEPT ![p] = k]
      BY <1>5, <2>2 DEF FindSame, Exists, Advance, Become, Resume
    <3>2. j.pc # "prepare_message2" =>
              StateFile(j.dir) \in DOMAIN disk /\ disk[StateFile(j.dir)] = j.held
      BY <1>3, <3>1 DEF InStep, SavePcs, CopyPcs, ExactPcs, OutputPcs
    <3>3. j.pc = "import_raw" => Stored(SignedPsbt(j.psbt, j.input, j.read), disk)
      BY <1>1, <1>2 DEF Rests
    <3>4. Rests(k, disk)
      BY <1>3, <2>2, <3>1, <3>2, <3>3, AdvanceRests
    <3> QED
      BY <3>1, <3>4
  <2> QED
    BY <2>1, <2>2
<1>6. CASE FindConflict(p)
  BY <1>6, IdleRests DEF FindConflict, Exit, Become
<1> QED
  BY <1>4, <1>5, <1>6

\* Every step that writes nothing.
LEMMA QuietRests ==
    ASSUME SequentialInv, NEW p \in Proc,
           FindAbsent(p) \/ FindSame(p) \/ FindConflict(p) \/ Command(p) \/ Crash(p)
    PROVE  SequentialInv'
<1>1. Inv'
  BY InvStep DEF SequentialInv, Next, StorageStep
<1>2. UNCHANGED <<disk, shown>>
  <2>1. CASE FindAbsent(p) \/ FindSame(p) \/ FindConflict(p) \/ Crash(p)
    BY <2>1 DEF FindAbsent, FindSame, FindConflict, Crash
  <2>2. CASE Command(p)
    BY <2>2 DEF Command, HostInit, HostInitPsbt, BindPsbt, LoadState, HostReveal,
                PrepareMessage3, PrepareLoad, PrepareOriginal, HostVerifyPsbt, VerifyLoad,
                HostVerify, ImportSignature, RefuseInput
  <2> QED
    BY <2>1, <2>2
<1>3. \E j : Rests(j, disk) /\ job' = [job EXCEPT ![p] = j]
  <2>1. CASE FindAbsent(p) \/ FindSame(p) \/ FindConflict(p)
    BY <2>1, TestsRest
  <2>2. CASE Crash(p) \/ RefuseInput(p)
    BY <2>2, IdleRests DEF Crash, RefuseInput, Exit, Become
  <2>3. CASE \E d \in Dir, command \in Commands \intersect {"reveal", "verify", "verify_psbt"} :
                LoadState(p, d, command)
    BY <2>3, LoadStateRests
  <2>4. CASE HostInit(p) \/ HostInitPsbt(p) \/ BindPsbt(p)
    BY <2>4, HostInitRests, HostInitPsbtRests, BindPsbtRests
  <2>5. CASE HostReveal(p) \/ PrepareMessage3(p) \/ PrepareLoad(p) \/ PrepareOriginal(p)
    BY <2>5, HostRevealRests, PrepareMessage3Rests, InnerLoadRests, PrepareOriginalRests
  <2>6. CASE HostVerifyPsbt(p) \/ VerifyLoad(p) \/ HostVerify(p) \/ ImportSignature(p)
    BY <2>6, HostVerifyPsbtRests, InnerLoadRests, HostVerifyRests, ImportSignatureRests
  <2> QED
    BY <2>1, <2>2, <2>3, <2>4, <2>5, <2>6 DEF Command
<1> QED
  BY <1>1, <1>2, <1>3, SequentialQuiet

\* A write replaces no file but the state it continues, and leaves every state bound.
LEMMA WriteKeeps ==
    ASSUME SequentialInv, NEW p \in Proc, AtomicReplace(p)
    PROVE  /\ \A d \in Dir : StateFile(d) \in DOMAIN disk =>
                 /\ StateFile(d) \in DOMAIN disk'
                 /\ Continues(disk[StateFile(d)], disk'[StateFile(d)])
           /\ \A d \in Dir : StateFile(d) \in DOMAIN disk' => SlotFits(disk'[StateFile(d)])
           /\ \A o : Stored(o, disk) => Stored(o, disk')
<1> DEFINE j == job[p]
<1>1. /\ j.pc \in SavePcs \/ (j.pc \in ExactPcs \union {"init_state"} /\ j.clear)
      /\ disk' = [f \in DOMAIN disk \union {Target(j)} |->
                     IF f = Target(j) THEN Data(j) ELSE disk[f]]
  BY DEF AtomicReplace, Written
<1>2. /\ j.pc # "idle" /\ j.dir \in Dir /\ Fits(j)
      /\ j.pc \in SavePcs => InStep(j, disk)
      /\ j.pc \notin SavePcs => Target(j) \notin DOMAIN disk
  <2>1. j.pc # "idle"
    BY <1>1 DEF SavePcs, ExactPcs, OutputPcs
  <2>2. j.pc \in SavePcs => j.pc \notin CopyPcs \union {"init_state"}
    BY DEF SavePcs, CopyPcs
  <2> QED
    BY <1>1, <2>1, <2>2, JobKnown
<1>3. ASSUME NEW d \in Dir, Target(j) = StateFile(d)
      PROVE  d = j.dir /\ j.pc \in SavePcs \union {"init_state"} /\ Data(j) = j.held
  BY <1>1, <1>3, Writes
     DEF ExactPcs, StateFile, OriginalFile, InternalReceiptFile, OutFile, OutKinds
<1>4. ASSUME NEW d \in Dir, StateFile(d) \in DOMAIN disk
      PROVE  /\ StateFile(d) \in DOMAIN disk'
             /\ Continues(disk[StateFile(d)], disk'[StateFile(d)])
  <2>1. CASE Target(j) = StateFile(d)
    <3>1. j.pc \in SavePcs /\ d = j.dir /\ disk'[StateFile(d)] = j.held
      BY <1>1, <1>2, <1>3, <1>4, <2>1
    <3> QED
      BY <1>1, <1>2, <1>4, <3>1 DEF InStep
  <2>2. CASE Target(j) # StateFile(d)
    BY <1>1, <1>4, <2>2 DEF Continues
  <2> QED
    BY <2>1, <2>2
<1>5. ASSUME NEW d \in Dir, StateFile(d) \in DOMAIN disk'
      PROVE  SlotFits(disk'[StateFile(d)])
  <2>1. CASE Target(j) = StateFile(d)
    BY <1>1, <1>2, <1>3, <2>1 DEF Fits, CopyPcs, SavePcs
  <2>2. CASE Target(j) # StateFile(d)
    BY <1>1, <1>5, <2>2 DEF SequentialInv, RestsInv, Exists
  <2> QED
    BY <2>1, <2>2
<1>6. ASSUME NEW o, Stored(o, disk)
      PROVE  Stored(o, disk')
  <2>1. PICK kind \in OutKinds, out \in OutPath :
            OutFile(kind, out) \in DOMAIN disk /\ disk[OutFile(kind, out)] = o
    BY <1>6 DEF Stored
  <2>2. OutFile(kind, out) # Target(j)
    <3>1. OutFile(kind, out) # StateFile(j.dir)
      BY DEF OutFile, StateFile, OutKinds
    <3> QED
      BY <1>1, <1>2, <2>1, <3>1, Writes
  <2> QED
    BY <1>1, <2>1, <2>2 DEF Stored
<1> QED
  BY <1>4, <1>5, <1>6

\* The process goes on resting on what it wrote.
LEMMA WriterRests ==
    ASSUME SequentialInv, NEW p \in Proc, AtomicReplace(p)
    PROVE  Rests(job'[p], disk')
<1> DEFINE j == job[p]
           k == [j EXCEPT !.pc = NextPc(j), !.clear = FALSE]
<1>1. /\ j.pc \in ExactPcs \union SavePcs \union {"init_state"}
      /\ disk' = [f \in DOMAIN disk \union {Target(j)} |->
                     IF f = Target(j) THEN Data(j) ELSE disk[f]]
      /\ Advance(p)
  BY DEF AtomicReplace, Written
<1>2. DOMAIN job = Proc
  BY DEF SequentialInv, Inv, JobInv
<1>3. CASE NextPc(j) = "done"
  BY <1>1, <1>2, <1>3, IdleRests DEF Advance, Exit, Become
<1>4. CASE NextPc(j) # "done"
  <2>1. /\ DOMAIN j = JobFields /\ j.dir \in Dir /\ j.out \in OutPath /\ Fits(j)
        /\ j.pc \notin CopyPcs \union {"init_state"} => InStep(j, disk)
    BY <1>1, JobKnown DEF SavePcs, ExactPcs, OutputPcs
  <2>2. job'[p] = k
    BY <1>1, <1>2, <1>4 DEF Advance, Become, Resume
  <2>3. Target(j) \in DOMAIN disk' /\ disk'[Target(j)] = Data(j)
    BY <1>1
  <2>4. ASSUME j.pc # "prepare_message2"
        PROVE  StateFile(j.dir) \in DOMAIN disk' /\ disk'[StateFile(j.dir)] = j.held
    <3>1. CASE j.pc \in SavePcs \union {"init_state"}
      BY <2>3, <3>1, Writes
    <3>2. CASE j.pc \notin SavePcs \union {"init_state"}
      <4>1. StateFile(j.dir) \in DOMAIN disk /\ j.held = disk[StateFile(j.dir)]
        BY <1>1, <2>1, <2>4, <3>2 DEF CopyPcs, ExactPcs, OutputPcs, InStep
      <4>2. Target(j) # StateFile(j.dir)
        BY <1>1, <2>1, <3>2, Writes
           DEF ExactPcs, StateFile, OriginalFile, InternalReceiptFile, OutFile, OutKinds
      <4> QED
        BY <1>1, <4>1, <4>2
    <3> QED
      BY <3>1, <3>2
  <2>5. ASSUME j.pc = "import_raw"
        PROVE  Stored(SignedPsbt(j.psbt, j.input, j.read), disk')
    <3>1. Stored(SignedPsbt(j.psbt, j.input, j.read), disk)
      BY <2>5 DEF SequentialInv, RestsInv, Rests
    <3> QED
      BY <3>1, WriteKeeps
  <2>6. Rests(k, disk')
    BY <1>1, <1>4, <2>1, <2>3, <2>4, <2>5, AdvanceRests
  <2> QED
    BY <2>2, <2>6
<1> QED
  BY <1>3, <1>4

\* Neither a package nor a receipt comes from any other write than its own.
LEMMA WrittenOutcome ==
    ASSUME Inv, NEW p \in Proc, job[p].pc \in OutputPcs
    PROVE  /\ Data(job[p]).kind = "package" => job[p].pc = "prepare_package"
           /\ Data(job[p]).kind \in {"receipt", "psbt_receipt"} =>
                 job[p].pc \in {"verify_receipt", "import_receipt"}
BY WrittenKind DEF OutputPcs

\* What a written package or receipt rests on is on disk by then.
LEMMA WrittenRests ==
    ASSUME SequentialInv, NEW p \in Proc, job[p].pc \in OutputPcs
    PROVE  LET o == Data(job[p])
           IN  /\ o.kind = "package" => PackageRests(o, disk)
               /\ o.kind \in {"receipt", "psbt_receipt"} => ReceiptRests(o, disk)
<1> DEFINE j == job[p]
           o == Data(j)
<1>1. j.pc \notin SavePcs /\ j.pc \notin {"idle", "init_state"}
  BY DEF OutputPcs, SavePcs
<1>2. /\ j.dir \in Dir /\ Fits(j) /\ Rests(j, disk)
      /\ j.pc # "prepare_message2" =>
            StateFile(j.dir) \in DOMAIN disk /\ disk[StateFile(j.dir)] = j.held
  <2>1. j.pc # "prepare_message2" => j.pc \notin CopyPcs
    BY DEF OutputPcs, CopyPcs
  <2> QED
    BY <1>1, <2>1, JobKnown DEF InStep, SequentialInv, RestsInv
<1>3. ASSUME o.kind = "package"
      PROVE  PackageRests(o, disk)
  <2>1. j.pc = "prepare_package"
    BY <1>3, WrittenOutcome DEF SequentialInv
  <2>2. o = Package(RevealMessage(j.message, j.held.rho), j.psbt)
    BY <2>1 DEF Data, SavePcs
  <2>3. /\ StateContext(j.held, j.message) /\ j.psbt = j.held.psbt /\ j.psbt # Absent
        /\ Answering(j.message, shown)
    BY <1>2, <2>1 DEF Fits, AnsweredPcs, SequentialInv, Inv, JobInv, GoodJob, MessagePcs
  <2>4. StateContext(j.held, RevealMessage(j.message, j.held.rho))
    BY <2>3 DEF StateContext, RevealMessage, Answering, MessageFields
  <2>5. o.message = RevealMessage(j.message, j.held.rho) /\ o.psbt = j.psbt
    BY <2>2 DEF Package
  <2> HIDE DEF o
  <2> QED
    BY <1>2, <2>1, <2>3, <2>4, <2>5 DEF PackageRests
<1>4. ASSUME o.kind \in {"receipt", "psbt_receipt"}
      PROVE  ReceiptRests(o, disk)
  <2>1. j.pc \in {"verify_receipt", "import_receipt"}
    BY <1>4, WrittenOutcome DEF SequentialInv
  <2>2. /\ StateContext(j.held, j.message) /\ j.held.phase = "COMPLETE"
        /\ j.held.signature = j.message.signature
    BY <1>2, <2>1 DEF Fits, AnsweredPcs, VerifiedPcs, ImportPcs
  <2>3. CASE j.pc = "verify_receipt"
    <3>1. o.message = j.message /\ o.kind = "receipt"
      BY <2>3 DEF Data, SavePcs, Receipt
    <3> HIDE DEF o
    <3> QED
      BY <1>2, <2>2, <2>3, <3>1 DEF ReceiptRests, StateContext
  <2>4. CASE j.pc = "import_receipt"
    <3>1. o = PsbtReceipt(j.psbt, j.input, j.read, j.message)
      BY <2>4 DEF Data, SavePcs
    <3>2. /\ o.message = j.message /\ o.signed = SignedPsbt(j.psbt, j.input, j.read)
          /\ [o.signed EXCEPT !.kind = "raw"] = RawTransaction(j.psbt, j.input, j.read)
      BY <3>1 DEF PsbtReceipt, RawTransaction
    <3>3. /\ Stored(SignedPsbt(j.psbt, j.input, j.read), disk)
          /\ Stored(RawTransaction(j.psbt, j.input, j.read), disk)
      BY <1>1, <1>2, <2>4 DEF Rests
    <3> HIDE DEF o
    <3> QED
      BY <1>2, <2>2, <2>4, <3>2, <3>3 DEF ReceiptRests, StateContext
  <2> QED
    BY <2>1, <2>3, <2>4
<1> QED
  BY <1>3, <1>4

\* What rests on the disk goes on resting on it while states are continued and outputs
\* kept.
LEMMA RestsGrow ==
    ASSUME NEW files, NEW files2, NEW o,
           \A d \in Dir : StateFile(d) \in DOMAIN files =>
               /\ StateFile(d) \in DOMAIN files2
               /\ Continues(files[StateFile(d)], files2[StateFile(d)]),
           \A x : Stored(x, files) => Stored(x, files2)
    PROVE  /\ PackageRests(o, files) => PackageRests(o, files2)
           /\ ReceiptRests(o, files) => ReceiptRests(o, files2)
<1>1. ASSUME PackageRests(o, files)
      PROVE  PackageRests(o, files2)
  <2>1. PICK d \in Dir :
            /\ StateFile(d) \in DOMAIN files
            /\ StateContext(files[StateFile(d)], o.message)
            /\ files[StateFile(d)].psbt = o.psbt /\ o.psbt # Absent
    BY <1>1 DEF PackageRests
  <2>2. /\ StateFile(d) \in DOMAIN files2
        /\ StateContext(files2[StateFile(d)], o.message)
        /\ files2[StateFile(d)].psbt = o.psbt
    BY <2>1 DEF Continues, StateContext
  <2> QED
    BY <2>1, <2>2 DEF PackageRests
<1>2. ASSUME ReceiptRests(o, files)
      PROVE  ReceiptRests(o, files2)
  BY <1>2 DEF ReceiptRests, Continues
<1> QED
  BY <1>1, <1>2

LEMMA AtomicReplaceRests ==
    ASSUME Sequential, SequentialInv, NEW p \in Proc, AtomicReplace(p)
    PROVE  SequentialInv'
<1>1. Inv'
  BY InvStep DEF SequentialInv, Next, StorageStep
<1>2. RestsInv'
  <2>1. \A q \in Proc : q = p
    BY DEF Sequential
  <2>2. \A q \in Proc : Rests(job'[q], disk')
    BY <2>1, WriterRests
  <2> QED
    BY <2>2, WriteKeeps DEF RestsInv, Exists
<1>3. OutcomesRest'
  <2> SUFFICES ASSUME NEW o \in shown'
               PROVE  /\ o.kind = "package" => PackageRests(o, disk')
                      /\ o.kind \in {"receipt", "psbt_receipt"} => ReceiptRests(o, disk')
    BY DEF OutcomesRest
  <2>1. /\ o.kind = "package" => PackageRests(o, disk)
        /\ o.kind \in {"receipt", "psbt_receipt"} => ReceiptRests(o, disk)
    <3>1. CASE o \in shown
      BY <3>1 DEF SequentialInv, OutcomesRest
    <3>2. CASE o \notin shown
      <4>1. job[p].pc \in OutputPcs /\ o = Data(job[p])
        BY <3>2 DEF AtomicReplace
      <4> QED
        BY <4>1, WrittenRests
    <3> QED
      BY <3>1, <3>2
  <2> QED
    BY <2>1, WriteKeeps, RestsGrow
<1> QED
  BY <1>1, <1>2, <1>3 DEF SequentialInv

\* A stored original that is removed or replaced takes nothing with it.
LEMMA DamageRests ==
    ASSUME SequentialInv, NEW d \in Dir, DamageOriginal(d)
    PROVE  SequentialInv'
<1>1. Inv'
  BY InvStep DEF SequentialInv, Next
<1>2. /\ DOMAIN disk' \subseteq DOMAIN disk
      /\ \A f \in DOMAIN disk : f # OriginalFile(d) => f \in DOMAIN disk' /\ disk'[f] = disk[f]
      /\ UNCHANGED <<job, shown>>
  BY DEF DamageOriginal, Written, Exists
<1>3. \A e : StateFile(e) # OriginalFile(d)
  BY DEF StateFile, OriginalFile
<1>4. \A e \in Dir : StateFile(e) \in DOMAIN disk =>
          StateFile(e) \in DOMAIN disk' /\ disk'[StateFile(e)] = disk[StateFile(e)]
  BY <1>2, <1>3
<1>5. \A o : Stored(o, disk) => Stored(o, disk')
  <2>1. \A kind \in OutKinds, out \in OutPath : OutFile(kind, out) # OriginalFile(d)
    BY DEF OutFile, OriginalFile, OutKinds
  <2> QED
    BY <1>2, <2>1 DEF Stored
<1>6. RestsInv'
  <2>1. ASSUME NEW p \in Proc
        PROVE  Rests(job[p], disk')
    <3>1. CASE job[p].pc = "idle"
      BY <3>1 DEF Rests
    <3>2. CASE job[p].pc # "idle"
      <4>1. Rests(job[p], disk) /\ job[p].dir \in Dir
        BY <3>2, JobKnown DEF SequentialInv, RestsInv
      <4>2. InStep(job[p], disk) => InStep(job[p], disk')
        BY <1>4, <4>1 DEF InStep
      <4> QED
        BY <1>2, <1>5, <3>2, <4>1, <4>2 DEF Rests
    <3> QED
      BY <3>1, <3>2
  <2>2. \A e \in Dir : Exists(StateFile(e))' => SlotFits(disk'[StateFile(e)])
    BY <1>2, <1>4 DEF SequentialInv, RestsInv, Exists
  <2> QED
    BY <1>2, <2>1, <2>2 DEF RestsInv
<1>7. OutcomesRest'
  <2>1. \A s : Continues(s, s)
    BY DEF Continues
  <2>2. ASSUME NEW o
        PROVE  /\ PackageRests(o, disk) => PackageRests(o, disk')
               /\ ReceiptRests(o, disk) => ReceiptRests(o, disk')
    BY <1>4, <1>5, <2>1, RestsGrow
  <2> QED
    BY <1>2, <2>2 DEF SequentialInv, OutcomesRest
<1> QED
  BY <1>1, <1>6, <1>7 DEF SequentialInv

LEMMA SequentialHolds ==
    ASSUME Sequential
    PROVE  Spec => []SequentialInv
<1>1. Init => SequentialInv
  BY SequentialInit
<1>2. SequentialInv /\ [Next]_vars => SequentialInv'
  <2> SUFFICES ASSUME SequentialInv, [Next]_vars
               PROVE  SequentialInv'
    OBVIOUS
  <2>1. CASE UNCHANGED vars
    <3>1. Inv'
      BY <2>1, InvStep DEF SequentialInv
    <3> QED
      BY <2>1, <3>1 DEF vars, SequentialInv, RestsInv, OutcomesRest, Exists
  <2>2. ASSUME NEW p \in Proc, StorageStep(p) \/ Command(p) \/ Crash(p)
        PROVE  SequentialInv'
    BY <2>2, QuietRests, AtomicReplaceRests DEF StorageStep
  <2>3. ASSUME NEW d \in Dir, DamageOriginal(d)
        PROVE  SequentialInv'
    BY <2>3, DamageRests
  <2> QED
    BY <2>1, <2>2, <2>3 DEF Next
<1> QED
  BY <1>1, <1>2, PTL DEF Spec

\* PackageBound: with commands one at a time, whatever crashes, is retried or happens to
\* the stored original, the package carries the PSBT whose slot its message signs
\* (prepare_message_3's digest check, host_init_psbt's single slot).
THEOREM PackagesBound ==
    ASSUME Sequential
    PROVE  Spec => []PackageBound
<1>1. SequentialInv => PackageBound
  <2> SUFFICES ASSUME SequentialInv, NEW o \in shown, o.kind = "package"
               PROVE  \E s \in States :
                          /\ s.session = o.message.session
                          /\ s.psbt = o.psbt
                          /\ SingleSlot(o.psbt, [input |-> s.input, key |-> o.message.key,
                                                   hash |-> o.message.hash])
    BY DEF PackageBound
  <2>1. PICK d \in Dir :
            /\ StateFile(d) \in DOMAIN disk
            /\ StateContext(disk[StateFile(d)], o.message)
            /\ disk[StateFile(d)].psbt = o.psbt /\ o.psbt # Absent
    BY DEF SequentialInv, OutcomesRest, PackageRests
  <2> DEFINE s == disk[StateFile(d)]
  <2>2. s \in States /\ SlotFits(s)
    BY <2>1 DEF States, SequentialInv, RestsInv, Exists
  <2>3. /\ s.session = o.message.session /\ s.key = o.message.key
        /\ s.hash = o.message.hash
    BY <2>1 DEF StateContext
  <2>4. SingleSlot(o.psbt, SlotAt(s.input, s))
    BY <2>1, <2>2 DEF SlotFits
  <2> HIDE DEF s
  <2>5. SlotAt(s.input, s)
            = [input |-> s.input, key |-> o.message.key, hash |-> o.message.hash]
    BY <2>3 DEF SlotAt
  <2> QED
    BY <2>1, <2>2, <2>3, <2>4, <2>5 DEF s
<1> QED
  BY <1>1, SequentialHolds, PTL

\* ReceiptOrder: with commands one at a time, a receipt is that of a session complete on
\* disk with its signature, and a verified receipt is there only with the two outputs it
\* certifies (the order of host_verify's and host_verify_psbt's writes).
THEOREM ReceiptsInOrder ==
    ASSUME Sequential
    PROVE  Spec => []ReceiptOrder
<1>1. SequentialInv => ReceiptOrder
  <2> SUFFICES ASSUME SequentialInv
               PROVE  ReceiptOrder
    OBVIOUS
  <2>1. \A o : Stored(o, disk) => o \in Outputs
    <3>1. \A kind \in OutKinds, out \in OutPath : OutFile(kind, out) \in OutKinds \X OutPath
      BY DEF OutFile
    <3> QED
      BY <3>1 DEF Stored, Outputs
  <2>2. ASSUME NEW o \in shown, o.kind \in {"receipt", "psbt_receipt"}
        PROVE  \E s \in States :
                   /\ s.session = o.message.session
                   /\ s.phase = "COMPLETE"
                   /\ s.signature = o.message.signature
    BY <2>2 DEF SequentialInv, OutcomesRest, ReceiptRests, States
  <2>3. ASSUME NEW o \in shown, o.kind = "psbt_receipt"
        PROVE  {o.signed, [o.signed EXCEPT !.kind = "raw"]} \subseteq Outputs
    BY <2>1, <2>3 DEF SequentialInv, OutcomesRest, ReceiptRests
  <2> QED
    BY <2>2, <2>3 DEF ReceiptOrder
<1> QED
  BY <1>1, SequentialHolds, PTL

-----------------------------------------------------------------------------
(***************************************************************************)
(* Sequential commands implement AntiExfilCeremony: the links between      *)
(* messages, states and the process that the simulation needs.             *)
(***************************************************************************)

\* Some PSBT has a slot of this key and hash.
FromSlot(x) == \E q \in Psbt : \E slot \in SlotsOf[q] : slot.key = x.key /\ slot.hash = x.hash

RevealShown(session, outputs) ==
    \E r \in outputs : r.kind = "message" /\ r.stage = HOST_REVEAL /\ r.session = session

\* What a process is about to write goes with the state on disk and with what was shown.
Linked(j, files, outputs) ==
    LET s == files[StateFile(j.dir)]
    IN  /\ j.pc \in {"init_state", "init_message1"} => FromSlot(j.held)
        /\ j.pc = "init_state" =>
              /\ j.held.opening = Absent
              /\ \A d \in Dir : StateFile(d) \in DOMAIN files =>
                    files[StateFile(d)].session # j.held.session
        /\ j.pc = "prepare_message2" =>
              j.message.stage = SIGNER_OPENINGS /\ j.message.opening \in Openings
        /\ j.pc = "bind_state" => j.held.opening = s.opening /\ j.held.phase = s.phase
        /\ j.pc = "reveal_state" =>
              s.opening = Absent /\ j.held.opening \in Openings /\ j.held.phase # "COMPLETE"
        /\ j.pc \in {"reveal_state", "reveal_message3"} =>
              j.message.opening = j.held.opening /\ j.held.opening # Absent
        /\ j.pc = "verify_state" =>
              j.held.opening = s.opening /\ RevealShown(j.held.session, outputs)

OneDirectory(files) ==
    \A d, e \in Dir :
        /\ StateFile(d) \in DOMAIN files /\ StateFile(e) \in DOMAIN files
        /\ files[StateFile(d)].session = files[StateFile(e)].session
        => d = e

\* A shown commitment is that of a drawn session, a shown opening one a signer can give,
\* a shown reveal made of the opening its session is bound to.
MessageRests(m, files) ==
    /\ m.stage = HOST_COMMIT =>
          m.session \in Session /\ m.commitment = HostCommit(Rho(m.session)) /\ FromSlot(m)
    /\ m.stage = SIGNER_OPENINGS => m.opening \in Openings
    /\ m.stage = HOST_REVEAL =>
          /\ m.opening # Absent
          /\ \E d \in Dir :
                /\ StateFile(d) \in DOMAIN files
                /\ files[StateFile(d)].session = m.session
                /\ files[StateFile(d)].opening = m.opening

LinkInv ==
    /\ \A p \in Proc : Linked(job[p], disk, shown)
    /\ OneDirectory(disk)
    /\ \A o \in shown : o.kind = "message" => MessageRests(o, disk)

CeremonyInv == SequentialInv /\ LinkInv

\* Places in which nothing is linked.
LEMMA PlainLinked ==
    ASSUME NEW j, NEW files, NEW outputs,
           j.pc \notin {"init_state", "init_message1", "prepare_message2", "bind_state",
                        "reveal_state", "reveal_message3", "verify_state"}
    PROVE  Linked(j, files, outputs)
BY DEF Linked

LEMMA CeremonyInit == Init => CeremonyInv
<1> SUFFICES ASSUME Init
             PROVE  CeremonyInv
  OBVIOUS
<1>1. \A p \in Proc : Linked(job[p], disk, shown)
  <2> TAKE p \in Proc
  <2>1. job[p].pc = "idle"
    BY DEF Init, Idle
  <2> QED
    BY <2>1, PlainLinked
<1>2. OneDirectory(disk)
  BY DEF Init, OneDirectory
<1> QED
  BY <1>1, <1>2, SequentialInit DEF Init, CeremonyInv, LinkInv

\* A step that changes one process only.
LEMMA LinkQuiet ==
    ASSUME CeremonyInv, NEW p \in Proc, NEW j, Linked(j, disk, shown),
           job' = [job EXCEPT ![p] = j], UNCHANGED <<disk, shown>>, SequentialInv'
    PROVE  CeremonyInv'
<1>1. \A q \in Proc : Linked(job'[q], disk, shown)
  BY DEF CeremonyInv, LinkInv, SequentialInv, Inv, JobInv
<1> QED
  BY <1>1 DEF CeremonyInv, LinkInv

\* Every opening a signer answers with is one of a drawn session and a slot; a signer
\* that signs has been told a rho.
LEMMA AnswerLinks ==
    ASSUME CeremonyInv, NEW m \in SignerAnswers
    PROVE  /\ m.stage = SIGNER_OPENINGS => m.opening \in Openings
           /\ m.stage = SIGNER_SIGNATURES => RevealShown(m.session, shown)
<1>1. \A x \in shown : x.kind = "message" => DOMAIN x = MessageFields /\ MessageRests(x, disk)
  BY DEF CeremonyInv, LinkInv, SequentialInv, Inv, ShownInv, Answering
<1>2. CASE \E c \in Disclosed(HOST_COMMIT) : m \in OpeningsFrom(c)
  <2> PICK c \in Disclosed(HOST_COMMIT) : m \in OpeningsFrom(c)
    BY <1>2
  <2>1. PICK v \in Variant :
            m = [c EXCEPT !.stage = SIGNER_OPENINGS,
                          !.opening = NoncePoint(c.key, c.hash, c.commitment, v)]
    BY DEF OpeningsFrom
  <2>2. /\ DOMAIN c = MessageFields
        /\ c.session \in Session /\ c.commitment = HostCommit(Rho(c.session)) /\ FromSlot(c)
    BY <1>1 DEF Disclosed, MessageRests
  <2>3. /\ m.stage = SIGNER_OPENINGS
        /\ m.opening = NoncePoint(c.key, c.hash, c.commitment, v)
    BY <2>1, <2>2 DEF MessageFields
  <2>4. PICK slot \in UNION {SlotsOf[q] : q \in Psbt} : slot.key = c.key /\ slot.hash = c.hash
    BY <2>2 DEF FromSlot
  <2>5. NoncePoint(slot.key, slot.hash, HostCommit(Rho(c.session)), v) \in Openings
    BY <2>2 DEF Openings
  <2> QED
    BY <2>2, <2>3, <2>4, <2>5 DEF SIGNER_OPENINGS, SIGNER_SIGNATURES
<1>3. CASE \E r \in Disclosed(HOST_REVEAL) : m \in SignaturesFrom(r)
  <2> PICK r \in Disclosed(HOST_REVEAL) : m \in SignaturesFrom(r)
    BY <1>3
  <2> DEFINE Point(v) == NoncePoint(r.key, r.hash, r.commitment, v)
  <2>1. PICK choice \in SignerChoice :
            m = [r EXCEPT !.stage = SIGNER_SIGNATURES,
                          !.opening = Point(choice.echoed),
                          !.rho = choice.rho,
                          !.signature = AntiExfilSignature(r.key, r.hash,
                               IF choice.tweaked THEN choice.rho ELSE Absent,
                               Point(choice.signed))]
    BY DEF SignaturesFrom
  <2>2. DOMAIN r = MessageFields
    BY <1>1 DEF Disclosed
  <2>3. m.stage = SIGNER_SIGNATURES /\ m.session = r.session
    BY <2>1, <2>2 DEF MessageFields
  <2> QED
    BY <2>3 DEF RevealShown, Disclosed, SIGNER_OPENINGS, SIGNER_SIGNATURES
<1> QED
  BY <1>2, <1>3 DEF SignerAnswers

\* A session that is being created has a slot of its own PSBT and an identifier no state
\* has.
LEMMA CreateLinked ==
    ASSUME CeremonyInv, NEW session \in Session \ drawn, NEW slot, NEW q \in Psbt,
           slot \in SlotsOf[q], NEW j, j.pc = "init_state",
           j.held = InitialState(session, slot)
    PROVE  Linked(j, disk, shown)
<1>1. /\ j.held.session = session /\ j.held.key = slot.key /\ j.held.hash = slot.hash
      /\ j.held.opening = Absent
  BY DEF InitialState
<1>2. FromSlot(j.held)
  BY <1>1 DEF FromSlot
<1>3. \A d \in Dir : StateFile(d) \in DOMAIN disk => disk[StateFile(d)].session # session
  BY DEF CeremonyInv, SequentialInv, Inv, StoreInv, GoodState, Exists
<1> QED
  BY <1>1, <1>2, <1>3 DEF Linked

LEMMA CreateCommandsLinked ==
    ASSUME CeremonyInv, NEW p \in Proc, HostInit(p) \/ HostInitPsbt(p)
    PROVE  \E j : Linked(j, disk, shown) /\ job' = [job EXCEPT ![p] = j]
<1>1. CASE HostInit(p)
  <2>1. PICK d \in Dir, session \in Session \ drawn, out \in OutPath,
             slot \in UNION {SlotsOf[q] : q \in Psbt} :
            job' = [job EXCEPT ![p] = [Job("init_state", "init", d, out) EXCEPT
                              !.held = InitialState(session, slot)]]
    BY <1>1 DEF HostInit, Become
  <2> DEFINE j == [Job("init_state", "init", d, out) EXCEPT
                      !.held = InitialState(session, slot)]
  <2>2. j.pc = "init_state" /\ j.held = InitialState(session, slot)
    BY DEF Job
  <2> HIDE DEF j
  <2>3. PICK q \in Psbt : slot \in SlotsOf[q]
    OBVIOUS
  <2>4. Linked(j, disk, shown)
    BY <2>2, <2>3, CreateLinked
  <2> QED
    BY <2>1, <2>4 DEF j
<1>2. CASE HostInitPsbt(p)
  <2>1. PICK d \in Dir, session \in Session \ drawn, out \in OutPath, psbt \in Psbt :
            \E slot \in SlotsOf[psbt] :
                job' = [job EXCEPT ![p] = [Job("init_state", "init_psbt", d, out) EXCEPT
                                  !.held = InitialState(session, slot),
                                  !.psbt = psbt, !.input = slot.input]]
    BY <1>2 DEF HostInitPsbt, Become
  <2>2. PICK slot \in SlotsOf[psbt] :
            job' = [job EXCEPT ![p] = [Job("init_state", "init_psbt", d, out) EXCEPT
                              !.held = InitialState(session, slot),
                              !.psbt = psbt, !.input = slot.input]]
    BY <2>1
  <2> DEFINE j == [Job("init_state", "init_psbt", d, out) EXCEPT
                      !.held = InitialState(session, slot),
                      !.psbt = psbt, !.input = slot.input]
  <2>3. j.pc = "init_state" /\ j.held = InitialState(session, slot)
    BY DEF Job
  <2> HIDE DEF j
  <2>4. Linked(j, disk, shown)
    BY <2>3, CreateLinked
  <2> QED
    BY <2>2, <2>4 DEF j
<1> QED
  BY <1>1, <1>2

LEMMA BindLinked ==
    ASSUME CeremonyInv, NEW p \in Proc, BindPsbt(p)
    PROVE  \E j : Linked(j, disk, shown) /\ job' = [job EXCEPT ![p] = j]
<1> DEFINE j == job[p]
           s == disk[StateFile(j.dir)]
           t == [s EXCEPT !.rung = "C", !.psbt = j.psbt, !.input = j.input]
           k == [Resume(p, "bind_state") EXCEPT !.held = t]
<1>1. j.pc = "bind" /\ job' = [job EXCEPT ![p] = k] /\ Exists(StateFile(j.dir))
  BY DEF BindPsbt, Become
<1>2. DOMAIN j = JobFields /\ j.dir \in Dir
  BY <1>1, JobKnown DEF CeremonyInv
<1>3. DOMAIN s = StateFields
  BY <1>1, <1>2 DEF CeremonyInv, SequentialInv, Inv, StoreInv, GoodState
<1>4. t.opening = s.opening /\ t.phase = s.phase
  BY <1>3 DEF StateFields
<1>5. k.pc = "bind_state" /\ k.dir = j.dir /\ k.held = t
  BY <1>2 DEF Resume, JobFields
<1> HIDE DEF t, k
<1>6. Linked(k, disk, shown)
  BY <1>4, <1>5 DEF Linked
<1> QED
  BY <1>1, <1>6

\* Loading a state, the first reading of a response, the second round of a package and
\* an import link nothing new.
LEMMA PlainCommandsLinked ==
    ASSUME CeremonyInv, NEW p \in Proc,
           \/ \E d \in Dir, command \in {"reveal", "verify", "verify_psbt"} :
                  LoadState(p, d, command)
           \/ PrepareLoad(p) \/ PrepareOriginal(p) \/ HostVerifyPsbt(p) \/ VerifyLoad(p)
           \/ ImportSignature(p) \/ RefuseInput(p) \/ Crash(p)
    PROVE  \E j : Linked(j, disk, shown) /\ job' = [job EXCEPT ![p] = j]
<1>1. CASE \E d \in Dir, command \in {"reveal", "verify", "verify_psbt"} :
               LoadState(p, d, command)
  <2>1. PICK d \in Dir, command \in {"reveal", "verify", "verify_psbt"} :
            LoadState(p, d, command)
    BY <1>1
  <2>2. PICK out \in OutPath :
            job' = [job EXCEPT ![p] =
                       [Job(command, command, d, out) EXCEPT !.held = disk[StateFile(d)]]]
    BY <2>1 DEF LoadState, Become
  <2> DEFINE j == [Job(command, command, d, out) EXCEPT !.held = disk[StateFile(d)]]
  <2>3. j.pc = command /\ j.command = command
    BY DEF Job
  <2> HIDE DEF j
  <2>4. Linked(j, disk, shown)
    BY <2>3, PlainLinked
  <2> QED
    BY <2>2, <2>4 DEF j
<1>2. CASE \/ PrepareLoad(p) \/ PrepareOriginal(p) \/ HostVerifyPsbt(p) \/ VerifyLoad(p)
            \/ ImportSignature(p)
  <2>1. DOMAIN job[p] = JobFields
    BY <1>2, JobKnown
       DEF CeremonyInv, PrepareLoad, PrepareOriginal, HostVerifyPsbt, VerifyLoad, ImportSignature
  <2> DEFINE Places == {"reveal", "prepare_package", "verify_load", "verify", "import_signed"}
  <2>2. \E j : j.pc \in Places /\ job' = [job EXCEPT ![p] = j]
    <3> DEFINE loaded(pc) == [Resume(p, pc) EXCEPT !.held = disk[StateFile(job[p].dir)]]
               packaged == [Resume(p, "prepare_package") EXCEPT
                               !.psbt = disk[OriginalFile(job[p].dir)]]
               read(m)  == [Resume(p, "verify_load") EXCEPT
                               !.read = SlotSignature(m), !.psbt = job[p].held.psbt,
                               !.input = job[p].held.input]
               imported == Resume(p, "import_signed")
    <3>1. /\ loaded("reveal").pc = "reveal" /\ loaded("verify").pc = "verify"
          /\ packaged.pc = "prepare_package" /\ imported.pc = "import_signed"
          /\ \A m : read(m).pc = "verify_load"
      BY <2>1 DEF Resume, JobFields
    <3>2. \/ job' = [job EXCEPT ![p] = loaded("reveal")]
          \/ job' = [job EXCEPT ![p] = loaded("verify")]
          \/ job' = [job EXCEPT ![p] = packaged]
          \/ \E m \in SignerAnswers : job' = [job EXCEPT ![p] = read(m)]
          \/ job' = [job EXCEPT ![p] = imported]
      BY <1>2
         DEF PrepareLoad, PrepareOriginal, HostVerifyPsbt, VerifyLoad, ImportSignature, Become
    <3> HIDE DEF loaded, packaged, read, imported
    <3> QED
      BY <3>1, <3>2
  <2>3. PICK j : j.pc \in Places /\ job' = [job EXCEPT ![p] = j]
    BY <2>2
  <2>4. Linked(j, disk, shown)
    BY <2>3, PlainLinked
  <2> QED
    BY <2>3, <2>4
<1>3. CASE RefuseInput(p) \/ Crash(p)
  <2>1. Linked(Idle, disk, shown)
    BY PlainLinked DEF Idle
  <2> QED
    BY <1>3, <2>1 DEF RefuseInput, Crash, Exit, Become
<1> QED
  BY <1>1, <1>2, <1>3

\* The opening host_reveal takes is one a signer can give, and that of the state from
\* then on.
LEMMA RevealLinked ==
    ASSUME CeremonyInv, NEW p \in Proc, HostReveal(p)
    PROVE  \E j : Linked(j, disk, shown) /\ job' = [job EXCEPT ![p] = j]
<1> DEFINE j == job[p]
           s == j.held
           saved(m) == [s EXCEPT !.opening = m.opening, !.phase = "OPENINGS_ACCEPTED"]
           first(m) == [Resume(p, "reveal_state") EXCEPT !.message = m, !.held = saved(m)]
           again(m) == [Resume(p, "reveal_message3") EXCEPT !.message = m]
<1>1. j.pc = "reveal"
  BY DEF HostReveal
<1>2. /\ DOMAIN j = JobFields /\ j.out \in OutPath /\ InStep(j, disk)
      /\ DOMAIN s = StateFields /\ Transcript(s)
  <2>1. DOMAIN s = StateFields /\ Transcript(s)
    BY <1>1 DEF CeremonyInv, SequentialInv, Inv, JobInv, GoodJob, GoodState
  <2> QED
    BY <1>1, <2>1, JobKnown DEF CopyPcs, CeremonyInv
<1>3. s = disk[StateFile(j.dir)]
  BY <1>1, <1>2 DEF InStep, SavePcs
<1>4. PICK m \in RevealInputs(j) :
          /\ OpeningAccepted(s, m)
          /\ IF s.phase = "COMMITMENTS_CREATED"
             THEN job' = [job EXCEPT ![p] = first(m)]
             ELSE job' = [job EXCEPT ![p] = again(m)]
  <2>1. \A m : first(m) = [Resume(p, "reveal_state") EXCEPT
                     !.message = m,
                     !.held = [@ EXCEPT !.opening = m.opening, !.phase = "OPENINGS_ACCEPTED"]]
    BY <1>2 DEF Resume, JobFields
  <2> HIDE DEF first
  <2> QED
    BY <2>1 DEF HostReveal, Become
<1>5. m.stage = SIGNER_OPENINGS /\ m.opening # Absent
  BY <1>4 DEF OpeningAccepted, ValidMessage, SIGNER_OPENINGS
<1>6. m.opening \in Openings
  <2>1. CASE j.command = "prepare"
    <3> DEFINE f == OutFile("prepared/message-2", j.out)
    <3>1. m = disk[f] /\ f \in DOMAIN disk
      BY <1>1, <2>1 DEF RevealInputs, CeremonyInv, SequentialInv, Inv, JobInv, GoodJob
    <3>2. disk[f] \in shown /\ disk[f].kind = "message"
      BY <1>2, <3>1 DEF CeremonyInv, SequentialInv, Inv, StoreInv, OutKinds, Exists
    <3> QED
      BY <1>5, <3>1, <3>2 DEF CeremonyInv, LinkInv, MessageRests
  <2>2. CASE j.command # "prepare"
    BY <1>5, <2>2, AnswerLinks DEF RevealInputs
  <2> QED
    BY <2>1, <2>2
<1>7. CASE s.phase = "COMMITMENTS_CREATED"
  <2> DEFINE t == saved(m)
             k == first(m)
  <2>1. s.opening = Absent
    BY <1>2, <1>7 DEF Transcript
  <2>2. t.opening = m.opening /\ t.phase = "OPENINGS_ACCEPTED"
    BY <1>2 DEF StateFields
  <2>3. k.pc = "reveal_state" /\ k.dir = j.dir /\ k.held = t /\ k.message = m
    BY <1>2 DEF Resume, JobFields
  <2> HIDE DEF saved, first, t, k
  <2>4. Linked(k, disk, shown)
    BY <1>3, <1>5, <1>6, <2>1, <2>2, <2>3 DEF Linked
  <2> QED
    BY <1>4, <1>7, <2>4 DEF k
<1>8. CASE s.phase # "COMMITMENTS_CREATED"
  <2> DEFINE k == again(m)
  <2>1. k.pc = "reveal_message3" /\ k.dir = j.dir /\ k.held = s /\ k.message = m
    BY <1>2 DEF Resume, JobFields
  <2>2. m.opening = s.opening
    BY <1>4, <1>8 DEF OpeningAccepted
  <2> HIDE DEF again, k
  <2>3. Linked(k, disk, shown)
    BY <1>5, <2>1, <2>2 DEF Linked
  <2> QED
    BY <1>4, <1>8, <2>3 DEF k
<1> QED
  BY <1>7, <1>8

LEMMA PrepareLinked ==
    ASSUME CeremonyInv, NEW p \in Proc, PrepareMessage3(p)
    PROVE  \E j : Linked(j, disk, shown) /\ job' = [job EXCEPT ![p] = j]
<1>1. PICK d \in Dir, out \in OutPath, m \in SignerAnswers :
          /\ m.stage = SIGNER_OPENINGS
          /\ job' = [job EXCEPT ![p] =
                     [Job("prepare_message2", "prepare", d, out) EXCEPT !.message = m]]
  BY DEF PrepareMessage3, Become
<1> DEFINE j == [Job("prepare_message2", "prepare", d, out) EXCEPT !.message = m]
<1>2. j.pc = "prepare_message2" /\ j.message = m
  BY DEF Job
<1>3. m.opening \in Openings
  BY <1>1, AnswerLinks
<1> HIDE DEF j
<1>4. Linked(j, disk, shown)
  BY <1>1, <1>2, <1>3 DEF Linked
<1> QED
  BY <1>1, <1>4 DEF j

\* Signatures are accepted of a session whose reveal was shown.
LEMMA VerifyLinked ==
    ASSUME CeremonyInv, NEW p \in Proc, HostVerify(p)
    PROVE  \E j : Linked(j, disk, shown) /\ job' = [job EXCEPT ![p] = j]
<1> DEFINE j == job[p]
           s == j.held
           saved(m) == [s EXCEPT !.phase = "COMPLETE", !.signature = m.signature]
           k(m) == [Resume(p, "verify_state") EXCEPT !.message = m, !.held = saved(m)]
<1>1. j.pc = "verify"
  BY DEF HostVerify
<1>2. DOMAIN j = JobFields /\ DOMAIN s = StateFields /\ s = disk[StateFile(j.dir)]
  <2>1. DOMAIN s = StateFields
    BY <1>1 DEF CeremonyInv, SequentialInv, Inv, JobInv, GoodJob, GoodState
  <2>2. DOMAIN j = JobFields /\ InStep(j, disk)
    BY <1>1, JobKnown DEF CopyPcs, CeremonyInv
  <2> QED
    BY <1>1, <2>1, <2>2 DEF InStep, SavePcs
<1>3. PICK m \in SignerAnswers : SignatureAccepted(s, m) /\ job' = [job EXCEPT ![p] = k(m)]
  <2>1. \A m : k(m) = [Resume(p, "verify_state") EXCEPT
                   !.message = m,
                   !.held = [@ EXCEPT !.phase = "COMPLETE", !.signature = m.signature]]
    BY <1>2 DEF Resume, JobFields
  <2> HIDE DEF k
  <2> QED
    BY <2>1 DEF HostVerify, Become
<1>4. RevealShown(s.session, shown)
  BY <1>3, AnswerLinks DEF SignatureAccepted, StateContext
<1> DEFINE t == saved(m)
<1>5. t.opening = s.opening /\ t.session = s.session
  BY <1>2 DEF StateFields
<1>6. k(m).pc = "verify_state" /\ k(m).dir = j.dir /\ k(m).held = t
  BY <1>2 DEF Resume, JobFields
<1> HIDE DEF saved, t, k
<1>7. Linked(k(m), disk, shown)
  BY <1>2, <1>4, <1>5, <1>6 DEF Linked
<1> QED
  BY <1>3, <1>7

\* What is linked stays linked when the process is past a test or a write, on files that
\* hold what it has written.
LEMMA AdvanceLinked ==
    ASSUME NEW j, NEW files, NEW outputs, NEW outputs2, Linked(j, files, outputs),
           DOMAIN j = JobFields, NEW files2,
           j.pc \in ExactPcs \union SavePcs \union {"init_state"}, NextPc(j) # "done"
    PROVE  Linked([j EXCEPT !.pc = NextPc(j), !.clear = FALSE], files2, outputs2)
<1> DEFINE k == [j EXCEPT !.pc = NextPc(j), !.clear = FALSE]
<1>1. k.pc = NextPc(j) /\ k.held = j.held /\ k.message = j.message
  BY DEF JobFields
<1>2. \/ j.pc = "init_state" /\ NextPc(j) = "init_message1"
      \/ j.pc = "reveal_state" /\ NextPc(j) = "reveal_message3"
      \/ NextPc(j) \in {"bind", "bind_original", "prepare_load", "prepare_original",
                        "verify_receipt", "import", "import_raw", "import_receipt"}
  BY DEF NextPc
<1> HIDE DEF k
<1>3. ASSUME j.pc = "init_state", NextPc(j) = "init_message1"
      PROVE  Linked(k, files2, outputs2)
  BY <1>1, <1>3 DEF Linked
<1>4. ASSUME j.pc = "reveal_state", NextPc(j) = "reveal_message3"
      PROVE  Linked(k, files2, outputs2)
  BY <1>1, <1>4 DEF Linked
<1>5. ASSUME NextPc(j) \in {"bind", "bind_original", "prepare_load", "prepare_original",
                             "verify_receipt", "import", "import_raw", "import_receipt"}
      PROVE  Linked(k, files2, outputs2)
  BY <1>1, <1>5, PlainLinked
<1>6. Linked(k, files2, outputs2)
  BY <1>2, <1>3, <1>4, <1>5
<1> QED
  BY <1>6 DEF k

LEMMA TestsLinked ==
    ASSUME CeremonyInv, NEW p \in Proc, FindAbsent(p) \/ FindSame(p) \/ FindConflict(p)
    PROVE  \E j : Linked(j, disk, shown) /\ job' = [job EXCEPT ![p] = j]
<1> DEFINE j == job[p]
<1>1. /\ j.pc \in ExactPcs \union {"init_state"} /\ DOMAIN j = JobFields
      /\ Linked(j, disk, shown)
  <2>1. j.pc \in ExactPcs \union {"init_state"} /\ j.pc # "idle"
    BY DEF FindAbsent, FindSame, FindConflict, ExactPcs, OutputPcs
  <2> QED
    BY <2>1, JobKnown DEF CeremonyInv, LinkInv
<1>2. CASE FindAbsent(p)
  <2> DEFINE k == [j EXCEPT !.clear = TRUE]
  <2>1. /\ k.pc = j.pc /\ k.command = j.command /\ k.dir = j.dir
        /\ k.held = j.held /\ k.message = j.message
    BY <1>1 DEF JobFields
  <2>2. job' = [job EXCEPT ![p] = k]
    BY <1>2 DEF FindAbsent, Become
  <2> HIDE DEF k
  <2>3. Linked(k, disk, shown)
    BY <1>1, <2>1 DEF Linked
  <2> QED
    BY <2>2, <2>3
<1>3. CASE Exit(p)
  BY <1>3, PlainLinked DEF Exit, Become, Idle
<1>4. CASE FindSame(p) /\ NextPc(j) # "done"
  <2>1. job' = [job EXCEPT ![p] = [j EXCEPT !.pc = NextPc(j), !.clear = FALSE]]
    BY <1>4 DEF FindSame, Advance, Become, Resume
  <2> QED
    BY <1>1, <1>4, <2>1, AdvanceLinked
<1> QED
  BY <1>2, <1>3, <1>4 DEF FindSame, FindConflict, Advance

LEMMA QuietLinked ==
    ASSUME CeremonyInv, NEW p \in Proc,
           FindAbsent(p) \/ FindSame(p) \/ FindConflict(p) \/ Command(p) \/ Crash(p)
    PROVE  CeremonyInv' /\ UNCHANGED <<disk, shown>>
<1>1. SequentialInv'
  BY QuietRests DEF CeremonyInv
<1>2. UNCHANGED <<disk, shown>>
  <2>1. CASE FindAbsent(p) \/ FindSame(p) \/ FindConflict(p) \/ Crash(p)
    BY <2>1 DEF FindAbsent, FindSame, FindConflict, Crash
  <2>2. CASE Command(p)
    BY <2>2 DEF Command, HostInit, HostInitPsbt, BindPsbt, LoadState, HostReveal,
                PrepareMessage3, PrepareLoad, PrepareOriginal, HostVerifyPsbt, VerifyLoad,
                HostVerify, ImportSignature, RefuseInput
  <2> QED
    BY <2>1, <2>2
<1>3. \E j : Linked(j, disk, shown) /\ job' = [job EXCEPT ![p] = j]
  <2>1. CASE FindAbsent(p) \/ FindSame(p) \/ FindConflict(p)
    BY <2>1, TestsLinked
  <2>2. CASE HostInit(p) \/ HostInitPsbt(p) \/ BindPsbt(p)
    BY <2>2, CreateCommandsLinked, BindLinked
  <2>3. CASE HostReveal(p) \/ PrepareMessage3(p)
    BY <2>3, RevealLinked, PrepareLinked
  <2>4. CASE HostVerify(p)
    BY <2>4, VerifyLinked
  <2>5. CASE \/ \E d \in Dir, command \in Commands \intersect {"reveal", "verify", "verify_psbt"} :
                    LoadState(p, d, command)
             \/ PrepareLoad(p) \/ PrepareOriginal(p) \/ HostVerifyPsbt(p) \/ VerifyLoad(p)
             \/ ImportSignature(p) \/ RefuseInput(p) \/ Crash(p)
    BY <2>5, PlainCommandsLinked
  <2> QED
    BY <2>1, <2>2, <2>3, <2>4, <2>5 DEF Command
<1> QED
  BY <1>1, <1>2, <1>3, LinkQuiet

\* Every state but that of one directory is as it was.
OthersKept(d, files, files2) ==
    \A e \in Dir \ {d} :
        /\ StateFile(e) \in DOMAIN files <=> StateFile(e) \in DOMAIN files2
        /\ StateFile(e) \in DOMAIN files => files2[StateFile(e)] = files[StateFile(e)]

StatesKept(files, files2) ==
    \A e \in Dir :
        /\ StateFile(e) \in DOMAIN files <=> StateFile(e) \in DOMAIN files2
        /\ StateFile(e) \in DOMAIN files => files2[StateFile(e)] = files[StateFile(e)]

\* A write of a state: the held one takes the place of the state it continues.
SavesState(j) ==
    /\ j.pc \in SavePcs \union {"init_state"}
    /\ OthersKept(j.dir, disk, disk')
    /\ StateFile(j.dir) \in DOMAIN disk' /\ disk'[StateFile(j.dir)] = j.held
    /\ IF j.pc = "init_state"
       THEN StateFile(j.dir) \notin DOMAIN disk
       ELSE StateFile(j.dir) \in DOMAIN disk /\ Continues(disk[StateFile(j.dir)], j.held)
    /\ shown' = shown

\* Any other write: states stay, and an output is shown.
WritesOutput(j) ==
    /\ j.pc \in ExactPcs
    /\ StatesKept(disk, disk')
    /\ j.pc # "prepare_message2" =>
          StateFile(j.dir) \in DOMAIN disk /\ disk[StateFile(j.dir)] = j.held
    /\ shown' = IF j.pc \in OutputPcs THEN shown \union {Data(j)} ELSE shown

LEMMA WriteCases ==
    ASSUME SequentialInv, NEW p \in Proc, AtomicReplace(p)
    PROVE  SavesState(job[p]) \/ WritesOutput(job[p])
<1> DEFINE j == job[p]
<1>1. /\ j.pc \in SavePcs \/ (j.pc \in ExactPcs \union {"init_state"} /\ j.clear)
      /\ disk' = [f \in DOMAIN disk \union {Target(j)} |->
                     IF f = Target(j) THEN Data(j) ELSE disk[f]]
      /\ shown' = IF j.pc \in OutputPcs THEN shown \union {Data(j)} ELSE shown
  BY DEF AtomicReplace, Written
<1>2. /\ j.dir \in Dir
      /\ j.pc \notin CopyPcs \union {"init_state"} => InStep(j, disk)
      /\ j.pc \notin SavePcs => Target(j) \notin DOMAIN disk
  BY <1>1, JobKnown DEF SavePcs, ExactPcs, OutputPcs
<1>3. CASE j.pc \in SavePcs \union {"init_state"}
  <2>1. Target(j) = StateFile(j.dir) /\ Data(j) = j.held /\ j.pc \notin OutputPcs
    BY <1>3, Writes DEF SavePcs, OutputPcs
  <2>2. \A e \in Dir \ {j.dir} : StateFile(e) # StateFile(j.dir)
    BY DEF StateFile
  <2>3. OthersKept(j.dir, disk, disk')
    BY <1>1, <2>1, <2>2 DEF OthersKept
  <2>4. j.pc # "init_state" =>
            StateFile(j.dir) \in DOMAIN disk /\ Continues(disk[StateFile(j.dir)], j.held)
    BY <1>2, <1>3 DEF SavePcs, CopyPcs, InStep
  <2>5. j.pc = "init_state" => StateFile(j.dir) \notin DOMAIN disk
    BY <1>2, <2>1 DEF SavePcs
  <2> QED
    BY <1>1, <1>3, <2>1, <2>3, <2>4, <2>5 DEF SavesState
<1>4. CASE j.pc \notin SavePcs \union {"init_state"}
  <2>1. j.pc \in ExactPcs
    BY <1>1, <1>4
  <2>2. \A e \in Dir : StateFile(e) # Target(j)
    BY <1>4, <2>1, Writes
       DEF ExactPcs, StateFile, OriginalFile, InternalReceiptFile, OutFile, OutKinds
  <2>3. StatesKept(disk, disk')
    BY <1>1, <2>2 DEF StatesKept
  <2>4. j.pc # "prepare_message2" =>
            StateFile(j.dir) \in DOMAIN disk /\ disk[StateFile(j.dir)] = j.held
    BY <1>2, <1>4, <2>1 DEF CopyPcs, ExactPcs, OutputPcs, InStep
  <2> QED
    BY <1>1, <2>1, <2>3, <2>4 DEF WritesOutput
<1> QED
  BY <1>3, <1>4

\* A message that is written rests on the disk.
LEMMA WrittenMessageRests ==
    ASSUME CeremonyInv, NEW p \in Proc, WritesOutput(job[p]), job[p].pc \in OutputPcs,
           Data(job[p]).kind = "message"
    PROVE  MessageRests(Data(job[p]), disk)
<1> DEFINE j == job[p]
           o == Data(j)
<1>1. /\ GoodJob(j, drawn, shown, DOMAIN disk) /\ Linked(j, disk, shown)
      /\ j.dir \in Dir /\ Fits(j)
  BY JobKnown DEF CeremonyInv, LinkInv, SequentialInv, Inv, JobInv, OutputPcs
<1>2. CASE j.pc = "init_message1"
  <2>1. /\ o.stage = HOST_COMMIT /\ o.session = j.held.session /\ o.key = j.held.key
        /\ o.hash = j.held.hash /\ o.commitment = j.held.commitment
    BY <1>2 DEF Data, SavePcs, CommitMessage
  <2>2. /\ j.held.session \in Session
        /\ j.held.commitment = HostCommit(Rho(j.held.session))
    BY <1>1, <1>2 DEF GoodJob, GoodState, Transcript, CeremonyInv, SequentialInv, Inv, StoreInv
  <2>3. FromSlot(o)
    BY <1>1, <1>2, <2>1 DEF Linked, FromSlot
  <2> HIDE DEF o
  <2>4. MessageRests(o, disk)
    BY <2>1, <2>2, <2>3 DEF MessageRests, HOST_COMMIT, SIGNER_OPENINGS, HOST_REVEAL
  <2> QED
    BY <2>4 DEF o
<1>3. CASE j.pc = "prepare_message2"
  <2>1. o = j.message
    BY <1>3 DEF Data, SavePcs
  <2> QED
    BY <1>1, <1>3, <2>1
       DEF Linked, MessageRests, HOST_COMMIT, SIGNER_OPENINGS, HOST_REVEAL
<1>4. CASE j.pc = "reveal_message3"
  <2>1. o = RevealMessage(j.message, j.held.rho) /\ Answering(j.message, shown)
    BY <1>1, <1>4 DEF Data, SavePcs, GoodJob, MessagePcs
  <2>2. /\ o.stage = HOST_REVEAL /\ o.session = j.message.session
        /\ o.opening = j.message.opening
    BY <2>1 DEF RevealMessage, Answering, MessageFields
  <2>3. /\ j.message.session = j.held.session
        /\ j.message.opening = j.held.opening /\ j.held.opening # Absent
    BY <1>1, <1>4 DEF Fits, AnsweredPcs, StateContext, Linked
  <2>4. StateFile(j.dir) \in DOMAIN disk /\ disk[StateFile(j.dir)] = j.held
    BY <1>4 DEF WritesOutput
  <2> HIDE DEF o
  <2>5. MessageRests(o, disk)
    BY <1>1, <2>2, <2>3, <2>4
       DEF MessageRests, HOST_COMMIT, SIGNER_OPENINGS, HOST_REVEAL
  <2> QED
    BY <2>5 DEF o
<1>5. CASE j.pc \in {"prepare_package", "verify_receipt", "import_signed", "import_receipt"}
  BY <1>5 DEF Data, SavePcs, Package, Receipt, SignedPsbt, PsbtReceipt
<1>6. CASE j.pc = "import_raw"
  <2>1. RawTransaction(j.psbt, j.input, j.read).kind = "raw"
    BY DEF RawTransaction, SignedPsbt
  <2> QED
    BY <1>6, <2>1 DEF Data, SavePcs
<1> QED
  BY <1>2, <1>3, <1>4, <1>5, <1>6 DEF OutputPcs

LEMMA StatesKeptLinks ==
    ASSUME NEW files, NEW files2, StatesKept(files, files2), NEW m, MessageRests(m, files)
    PROVE  MessageRests(m, files2)
BY DEF StatesKept, MessageRests

\* No write takes an accepted opening back.
LEMMA SavedOpening ==
    ASSUME CeremonyInv, NEW p \in Proc, SavesState(job[p]), job[p].pc # "init_state",
           disk[StateFile(job[p].dir)].opening # Absent
    PROVE  job[p].held.opening = disk[StateFile(job[p].dir)].opening
BY DEF SavesState, SavePcs, CeremonyInv, LinkInv, Linked

LEMMA AtomicReplaceLinked ==
    ASSUME Sequential, CeremonyInv, NEW p \in Proc, AtomicReplace(p)
    PROVE  CeremonyInv'
<1> DEFINE j == job[p]
<1>1. SequentialInv'
  BY AtomicReplaceRests DEF CeremonyInv
<1>2. SavesState(j) \/ WritesOutput(j)
  BY WriteCases DEF CeremonyInv
<1>3. /\ DOMAIN job = Proc /\ Linked(j, disk, shown) /\ OneDirectory(disk)
      /\ \A o \in shown : o.kind = "message" => MessageRests(o, disk)
  BY DEF CeremonyInv, LinkInv, SequentialInv, Inv, JobInv
<1>4. /\ j.pc \in ExactPcs \union SavePcs \union {"init_state"} /\ DOMAIN j = JobFields
      /\ j.dir \in Dir
  <2>1. j.pc \in ExactPcs \union SavePcs \union {"init_state"} /\ j.pc # "idle"
    BY DEF AtomicReplace, SavePcs, ExactPcs, OutputPcs
  <2> QED
    BY <2>1, JobKnown DEF CeremonyInv
<1>5. \A q \in Proc : Linked(job'[q], disk', shown')
  <2>1. \A q \in Proc : q = p
    BY DEF Sequential
  <2>2. CASE NextPc(j) = "done"
    <3>1. job'[p] = Idle
      BY <1>3, <2>2 DEF AtomicReplace, Advance, Exit, Become
    <3>2. Linked(Idle, disk', shown')
      BY PlainLinked DEF Idle
    <3> QED
      BY <2>1, <3>1, <3>2
  <2>3. CASE NextPc(j) # "done"
    <3>1. job'[p] = [j EXCEPT !.pc = NextPc(j), !.clear = FALSE]
      BY <1>3, <2>3 DEF AtomicReplace, Advance, Become, Resume
    <3>2. Linked([j EXCEPT !.pc = NextPc(j), !.clear = FALSE], disk', shown')
      BY <1>3, <1>4, <2>3, AdvanceLinked
    <3> QED
      BY <2>1, <3>1, <3>2
  <2> QED
    BY <2>2, <2>3
<1>6. CASE SavesState(j)
  <2>1. j.pc = "init_state" => \A d \in Dir : StateFile(d) \in DOMAIN disk =>
            disk[StateFile(d)].session # j.held.session
    BY <1>3 DEF Linked
  <2>2. OneDirectory(disk')
    <3> SUFFICES ASSUME NEW d \in Dir, NEW e \in Dir,
                        StateFile(d) \in DOMAIN disk', StateFile(e) \in DOMAIN disk',
                        disk'[StateFile(d)].session = disk'[StateFile(e)].session
                 PROVE  d = e
      BY DEF OneDirectory
    <3>1. ASSUME NEW x \in Dir, StateFile(x) \in DOMAIN disk', j.pc # "init_state"
          PROVE  /\ StateFile(x) \in DOMAIN disk
                 /\ disk'[StateFile(x)].session = disk[StateFile(x)].session
      BY <1>6, <3>1 DEF SavesState, OthersKept, Continues
    <3>2. CASE j.pc # "init_state"
      BY <1>3, <3>1, <3>2 DEF OneDirectory
    <3>3. CASE j.pc = "init_state"
      <4>1. ASSUME NEW x \in Dir, x # j.dir, StateFile(x) \in DOMAIN disk'
            PROVE  /\ StateFile(x) \in DOMAIN disk
                   /\ disk'[StateFile(x)] = disk[StateFile(x)]
                   /\ disk'[StateFile(x)].session # disk'[StateFile(j.dir)].session
        BY <1>6, <2>1, <3>3, <4>1 DEF SavesState, OthersKept
      <4> QED
        BY <1>3, <4>1 DEF OneDirectory
    <3> QED
      BY <3>2, <3>3
  <2>3. ASSUME NEW o \in shown', o.kind = "message"
        PROVE  MessageRests(o, disk')
    <3>1. o \in shown /\ MessageRests(o, disk)
      BY <1>3, <1>6, <2>3 DEF SavesState
    <3>2. ASSUME NEW d \in Dir, StateFile(d) \in DOMAIN disk,
                 disk[StateFile(d)].opening # Absent
          PROVE  /\ StateFile(d) \in DOMAIN disk'
                 /\ disk'[StateFile(d)].session = disk[StateFile(d)].session
                 /\ disk'[StateFile(d)].opening = disk[StateFile(d)].opening
      <4>1. CASE d = j.dir
        <5>1. j.pc # "init_state"
          BY <1>6, <3>2, <4>1 DEF SavesState
        <5>2. j.held.opening = disk[StateFile(d)].opening
          BY <1>6, <3>2, <4>1, <5>1, SavedOpening
        <5> QED
          BY <1>6, <4>1, <5>1, <5>2 DEF SavesState, Continues
      <4>2. CASE d # j.dir
        BY <1>6, <3>2, <4>2 DEF SavesState, OthersKept
      <4> QED
        BY <4>1, <4>2
    <3> QED
      BY <3>1, <3>2 DEF MessageRests
  <2> QED
    BY <1>1, <1>5, <2>2, <2>3 DEF CeremonyInv, LinkInv
<1>7. CASE WritesOutput(j)
  <2>1. OneDirectory(disk')
    BY <1>3, <1>7 DEF WritesOutput, StatesKept, OneDirectory
  <2>2. ASSUME NEW o \in shown', o.kind = "message"
        PROVE  MessageRests(o, disk')
    <3>1. MessageRests(o, disk)
      <4>1. CASE o \in shown
        BY <1>3, <2>2, <4>1
      <4>2. CASE o \notin shown
        <5>1. j.pc \in OutputPcs /\ o = Data(j)
          BY <1>7, <4>2 DEF WritesOutput
        <5> QED
          BY <1>7, <2>2, <5>1, WrittenMessageRests
      <4> QED
        BY <4>1, <4>2
    <3> QED
      BY <1>7, <3>1, StatesKeptLinks DEF WritesOutput
  <2> QED
    BY <1>1, <1>5, <2>1, <2>2 DEF CeremonyInv, LinkInv
<1> QED
  BY <1>2, <1>6, <1>7

LEMMA DamageLinked ==
    ASSUME CeremonyInv, NEW d \in Dir, DamageOriginal(d)
    PROVE  CeremonyInv' /\ StatesKept(disk, disk') /\ shown' = shown
<1>1. SequentialInv'
  BY DamageRests DEF CeremonyInv
<1>2. StatesKept(disk, disk') /\ UNCHANGED <<job, shown>>
  <2>1. /\ DOMAIN disk' \subseteq DOMAIN disk
        /\ \A f \in DOMAIN disk : f # OriginalFile(d) =>
              f \in DOMAIN disk' /\ disk'[f] = disk[f]
        /\ UNCHANGED <<job, shown>>
    BY DEF DamageOriginal, Written, Exists
  <2>2. \A e \in Dir : StateFile(e) # OriginalFile(d)
    BY DEF StateFile, OriginalFile
  <2> QED
    BY <2>1, <2>2 DEF StatesKept
<1>3. ASSUME NEW p \in Proc
      PROVE  Linked(job[p], disk', shown)
  <2>1. Linked(job[p], disk, shown)
    BY DEF CeremonyInv, LinkInv
  <2>2. \A e \in Dir : StateFile(e) \in DOMAIN disk' =>
            StateFile(e) \in DOMAIN disk /\ disk'[StateFile(e)] = disk[StateFile(e)]
    BY <1>2 DEF StatesKept
  <2>3. job[p].pc \in SavePcs => disk'[StateFile(job[p].dir)] = disk[StateFile(job[p].dir)]
    <3>1. job[p].pc \in SavePcs => job[p].pc \notin CopyPcs \union {"init_state", "idle"}
      BY DEF SavePcs, CopyPcs
    <3>2. job[p].pc \in SavePcs => job[p].dir \in Dir /\ StateFile(job[p].dir) \in DOMAIN disk
      BY <3>1, JobKnown DEF InStep, CeremonyInv
    <3> QED
      BY <1>2, <3>2 DEF StatesKept
  <2> QED
    BY <2>1, <2>2, <2>3 DEF Linked, SavePcs
<1>4. OneDirectory(disk')
  BY <1>2 DEF StatesKept, OneDirectory, CeremonyInv, LinkInv
<1>5. \A o \in shown : o.kind = "message" => MessageRests(o, disk')
  BY <1>2, StatesKeptLinks DEF CeremonyInv, LinkInv
<1> QED
  BY <1>1, <1>2, <1>3, <1>4, <1>5 DEF CeremonyInv, LinkInv

LEMMA CeremonyHolds ==
    ASSUME Sequential
    PROVE  Spec => []CeremonyInv
<1>1. CeremonyInv /\ [Next]_vars => CeremonyInv'
  <2> SUFFICES ASSUME CeremonyInv, [Next]_vars
               PROVE  CeremonyInv'
    OBVIOUS
  <2>1. CASE UNCHANGED vars
    <3>1. Inv'
      BY <2>1, InvStep DEF CeremonyInv, SequentialInv
    <3>2. SequentialInv'
      BY <2>1, <3>1 DEF vars, CeremonyInv, SequentialInv, RestsInv, OutcomesRest, Exists
    <3> QED
      BY <2>1, <3>2 DEF vars, CeremonyInv, LinkInv
  <2>2. ASSUME NEW p \in Proc, StorageStep(p) \/ Command(p) \/ Crash(p)
        PROVE  CeremonyInv'
    BY <2>2, QuietLinked, AtomicReplaceLinked DEF StorageStep
  <2>3. ASSUME NEW d \in Dir, DamageOriginal(d)
        PROVE  CeremonyInv'
    BY <2>3, DamageLinked
  <2> QED
    BY <2>1, <2>2, <2>3 DEF Next
<1> QED
  BY <1>1, CeremonyInit, PTL DEF Spec

-----------------------------------------------------------------------------
(***************************************************************************)
(* The simulation: what each write is a step of.                           *)
(***************************************************************************)

\* What the ceremony's variables say of one session, from a set of states.
OfSession(S, session) == {s \in S : s.session = session}

OpeningIn(S) ==
    LET bound == {s \in S : s.opening # Absent}
    IN  IF bound = {} THEN Absent ELSE (CHOOSE s \in bound : TRUE).opening

CompletedIn(S) == {s.opening : s \in {t \in S : t.phase = "COMPLETE"}}

AcceptedOf(S, session) == OpeningIn(OfSession(S, session))

ImportedOf(S, session) == CompletedIn(OfSession(S, session))

LEMMA OneStateOf ==
    ASSUME NEW S, NEW session, NEW s, OfSession(S, session) = {s}
    PROVE  /\ AcceptedOf(S, session) = s.opening
           /\ ImportedOf(S, session) = IF s.phase = "COMPLETE" THEN {s.opening} ELSE {}
<1> DEFINE bound == {x \in OfSession(S, session) : x.opening # Absent}
<1>1. AcceptedOf(S, session) = IF bound = {} THEN Absent ELSE (CHOOSE x \in bound : TRUE).opening
  BY DEF AcceptedOf, OpeningIn
<1>2. CASE s.opening = Absent
  <2>1. bound = {}
    BY <1>2
  <2> HIDE DEF bound
  <2> QED
    BY <1>1, <1>2, <2>1 DEF ImportedOf, CompletedIn
<1>3. CASE s.opening # Absent
  <2>1. bound = {s}
    BY <1>3
  <2>2. (CHOOSE x \in bound : TRUE) = s
    BY <2>1
  <2> HIDE DEF bound
  <2> QED
    BY <1>1, <2>1, <2>2 DEF ImportedOf, CompletedIn
<1> QED
  BY <1>2, <1>3

LEMMA NoStateOf ==
    ASSUME NEW S, NEW session, OfSession(S, session) = {}
    PROVE  AcceptedOf(S, session) = Absent /\ ImportedOf(S, session) = {}
BY DEF AcceptedOf, ImportedOf, OpeningIn, CompletedIn

\* The ceremony's variables by session, before and after a step.
LEMMA ByStates ==
    /\ Accepted = [session \in Session |-> AcceptedOf(States, session)]
    /\ Imported = [session \in Session |-> ImportedOf(States, session)]
    /\ Accepted' = [session \in Session |-> AcceptedOf(States', session)]
    /\ Imported' = [session \in Session |-> ImportedOf(States', session)]
BY DEF Accepted, Imported, AcceptedOf, ImportedOf, OpeningIn, CompletedIn, StatesOf, OfSession

StatesIn(files) == {files[f] : f \in {StateFile(d) : d \in Dir} \intersect DOMAIN files}

LEMMA InFiles ==
    ASSUME NEW files, NEW s
    PROVE  s \in StatesIn(files) <=>
               \E d \in Dir : StateFile(d) \in DOMAIN files /\ files[StateFile(d)] = s
BY DEF StatesIn

\* With one directory per session a session has the one state of its directory.
LEMMA StateOfDirectory ==
    ASSUME NEW files, OneDirectory(files), NEW d \in Dir, StateFile(d) \in DOMAIN files
    PROVE  OfSession(StatesIn(files), files[StateFile(d)].session) = {files[StateFile(d)]}
<1> DEFINE s == files[StateFile(d)]
<1>1. s \in StatesIn(files)
  BY InFiles
<1>2. ASSUME NEW x \in StatesIn(files), x.session = s.session
      PROVE  x = s
  <2>1. PICK e \in Dir : StateFile(e) \in DOMAIN files /\ files[StateFile(e)] = x
    BY InFiles
  <2> QED
    BY <1>2, <2>1 DEF OneDirectory
<1> HIDE DEF s
<1>3. OfSession(StatesIn(files), s.session) = {s}
  BY <1>1, <1>2 DEF OfSession
<1> QED
  BY <1>3 DEF s

LEMMA KeptStates ==
    ASSUME NEW files, NEW files2, StatesKept(files, files2)
    PROVE  StatesIn(files2) = StatesIn(files)
<1>1. \A s : s \in StatesIn(files2) <=> s \in StatesIn(files)
  BY InFiles DEF StatesKept
<1> QED
  BY <1>1

\* A step that shows nothing and keeps the states is a stutter.
LEMMA Stutter ==
    ASSUME StatesKept(disk, disk'), shown' = shown
    PROVE  UNCHANGED Ceremony!vars
<1>1. States' = States
  BY KeptStates DEF States, StatesIn
<1>2. Accepted' = Accepted /\ Imported' = Imported
  BY <1>1, ByStates
<1>3. Committed' = Committed /\ Revealed' = Revealed /\ Receipted' = Receipted
  BY DEF Committed, Revealed, Receipted, Disclosed
<1> QED
  BY <1>2, <1>3 DEF Ceremony!vars

\* Where there is no write nothing leaves the host.
LEMMA NothingWritten ==
    ASSUME UNCHANGED <<disk, shown>>
    PROVE  UNCHANGED Ceremony!vars
BY Stutter DEF StatesKept

\* A save replaces the state of one session.
LEMMA SavedStates ==
    ASSUME CeremonyInv, CeremonyInv', NEW p \in Proc, SavesState(job[p]), job[p].dir \in Dir
    PROVE  LET j == job[p]
           IN  /\ OfSession(States', j.held.session) = {j.held}
               /\ \A x : x # j.held.session => OfSession(States', x) = OfSession(States, x)
               /\ OfSession(States, j.held.session) =
                     IF j.pc = "init_state" THEN {} ELSE {disk[StateFile(j.dir)]}
<1> DEFINE j == job[p]
           d == j.dir
<1>1. /\ OthersKept(d, disk, disk')
      /\ StateFile(d) \in DOMAIN disk' /\ disk'[StateFile(d)] = j.held
      /\ j.pc # "init_state" =>
            StateFile(d) \in DOMAIN disk /\ disk[StateFile(d)].session = j.held.session
      /\ j.pc = "init_state" => StateFile(d) \notin DOMAIN disk
  BY DEF SavesState, Continues
<1>2. States = StatesIn(disk) /\ States' = StatesIn(disk')
  BY DEF States, StatesIn
<1>3. OneDirectory(disk) /\ OneDirectory(disk') /\ Linked(j, disk, shown) /\ d \in Dir
  BY DEF CeremonyInv, LinkInv
<1>4. OfSession(States', j.held.session) = {j.held}
  BY <1>1, <1>2, <1>3, StateOfDirectory
<1>5. ASSUME NEW x, x # j.held.session
      PROVE  OfSession(States', x) = OfSession(States, x)
  <2>1. ASSUME NEW e \in Dir, NEW s, s.session = x
        PROVE  (StateFile(e) \in DOMAIN disk' /\ disk'[StateFile(e)] = s)
                  <=> (StateFile(e) \in DOMAIN disk /\ disk[StateFile(e)] = s)
    <3>1. CASE e = d
      BY <1>1, <1>5, <2>1, <3>1
    <3>2. CASE e # d
      BY <1>1, <3>2 DEF OthersKept
    <3> QED
      BY <3>1, <3>2
  <2>2. \A s : s.session = x => (s \in StatesIn(disk') <=> s \in StatesIn(disk))
    BY <2>1, InFiles
  <2> QED
    BY <1>2, <2>2 DEF OfSession
<1>6. CASE j.pc = "init_state"
  <2>1. \A e \in Dir : StateFile(e) \in DOMAIN disk =>
            disk[StateFile(e)].session # j.held.session
    BY <1>3, <1>6 DEF Linked
  <2>2. \A s \in StatesIn(disk) : s.session # j.held.session
    BY <2>1, InFiles
  <2>3. OfSession(States, j.held.session) = {}
    BY <1>2, <2>2 DEF OfSession
  <2> QED
    BY <1>4, <1>5, <1>6, <2>3
<1>7. CASE j.pc # "init_state"
  <2>1. OfSession(States, j.held.session) = {disk[StateFile(d)]}
    BY <1>1, <1>2, <1>3, <1>7, StateOfDirectory
  <2> QED
    BY <1>4, <1>5, <1>7, <2>1
<1> QED
  BY <1>6, <1>7

\* Every reveal shown for a session carries the opening of its state.
LEMMA RevealedIs ==
    ASSUME CeremonyInv, NEW d \in Dir, StateFile(d) \in DOMAIN disk,
           disk[StateFile(d)].session \in Session
    PROVE  /\ Revealed[disk[StateFile(d)].session] \subseteq {disk[StateFile(d)].opening}
           /\ RevealShown(disk[StateFile(d)].session, shown) =>
                 Revealed[disk[StateFile(d)].session] = {disk[StateFile(d)].opening}
<1> DEFINE s == disk[StateFile(d)]
<1>1. Revealed[s.session] =
          {m.opening : m \in {n \in Disclosed(HOST_REVEAL) : n.session = s.session}}
  BY DEF Revealed
<1>2. ASSUME NEW m \in Disclosed(HOST_REVEAL), m.session = s.session
      PROVE  m.opening = s.opening
  <2>1. MessageRests(m, disk) /\ m.stage = HOST_REVEAL
    BY DEF Disclosed, CeremonyInv, LinkInv
  <2>2. PICK e \in Dir : /\ StateFile(e) \in DOMAIN disk
                         /\ disk[StateFile(e)].session = m.session
                         /\ disk[StateFile(e)].opening = m.opening
    BY <2>1 DEF MessageRests
  <2>3. e = d
    BY <1>2, <2>2 DEF CeremonyInv, LinkInv, OneDirectory
  <2> QED
    BY <2>2, <2>3
<1>3. RevealShown(s.session, shown) =>
          \E m \in Disclosed(HOST_REVEAL) : m.session = s.session
  BY DEF RevealShown, Disclosed
<1> HIDE DEF s
<1>4. /\ Revealed[s.session] \subseteq {s.opening}
      /\ RevealShown(s.session, shown) => Revealed[s.session] = {s.opening}
  BY <1>1, <1>2, <1>3
<1> QED
  BY <1>4 DEF s

LEMMA SaveSimulates ==
    ASSUME CeremonyInv, CeremonyInv', NEW p \in Proc, SavesState(job[p])
    PROVE  [Ceremony!Next]_(Ceremony!vars)
<1> DEFINE j == job[p]
           old == disk[StateFile(j.dir)]
           x == j.held.session
<1>1. /\ j.pc \in SavePcs \union {"init_state"} /\ shown' = shown
      /\ j.pc # "init_state" => StateFile(j.dir) \in DOMAIN disk /\ old.session = x
  BY DEF SavesState, Continues
<1>2. /\ GoodJob(j, drawn, shown, DOMAIN disk) /\ Linked(j, disk, shown)
      /\ j.dir \in Dir /\ Fits(j)
  <2>1. j.pc # "idle"
    BY <1>1 DEF SavePcs
  <2> QED
    BY <2>1, JobKnown DEF CeremonyInv, LinkInv, SequentialInv, Inv, JobInv
<1>3. /\ x \in Session /\ Transcript(j.held)
      /\ j.pc # "init_state" => Transcript(old)
  <2>1. drawn \subseteq Session /\ \A d \in Dir : Exists(StateFile(d)) =>
            GoodState(disk[StateFile(d)], drawn)
    BY DEF CeremonyInv, SequentialInv, Inv, StoreInv
  <2>2. GoodState(j.held, drawn)
    BY <1>1, <1>2 DEF GoodJob, SavePcs
  <2> QED
    BY <1>1, <1>2, <2>1, <2>2 DEF GoodState, Exists
<1>4. Committed' = Committed /\ Revealed' = Revealed /\ Receipted' = Receipted
  BY <1>1 DEF Committed, Revealed, Receipted, Disclosed
<1>5. /\ OfSession(States', x) = {j.held}
      /\ \A y : y # x => OfSession(States', y) = OfSession(States, y)
      /\ OfSession(States, x) = IF j.pc = "init_state" THEN {} ELSE {old}
  BY <1>2, SavedStates
<1>6. /\ AcceptedOf(States', x) = j.held.opening
      /\ ImportedOf(States', x) = IF j.held.phase = "COMPLETE" THEN {j.held.opening} ELSE {}
  BY <1>5, OneStateOf
<1>7. \A y \in Session : y # x =>
          /\ AcceptedOf(States', y) = AcceptedOf(States, y)
          /\ ImportedOf(States', y) = ImportedOf(States, y)
  BY <1>5 DEF AcceptedOf, ImportedOf
<1>8. /\ j.pc = "init_state" =>
            AcceptedOf(States, x) = Absent /\ ImportedOf(States, x) = {}
      /\ j.pc # "init_state" =>
            /\ AcceptedOf(States, x) = old.opening
            /\ ImportedOf(States, x) = IF old.phase = "COMPLETE" THEN {old.opening} ELSE {}
  <2>1. ASSUME j.pc = "init_state"
        PROVE  AcceptedOf(States, x) = Absent /\ ImportedOf(States, x) = {}
    BY <1>5, <2>1, NoStateOf
  <2>2. ASSUME j.pc # "init_state"
        PROVE  /\ AcceptedOf(States, x) = old.opening
               /\ ImportedOf(States, x) = IF old.phase = "COMPLETE" THEN {old.opening} ELSE {}
    BY <1>5, <2>2, OneStateOf
  <2> QED
    BY <2>1, <2>2
<1>9. /\ Accepted = [y \in Session |-> AcceptedOf(States, y)]
      /\ Imported = [y \in Session |-> ImportedOf(States, y)]
      /\ Accepted' = [y \in Session |-> AcceptedOf(States', y)]
      /\ Imported' = [y \in Session |-> ImportedOf(States', y)]
  BY ByStates
<1>10. ASSUME AcceptedOf(States', x) = AcceptedOf(States, x)
       PROVE  Accepted' = Accepted
  BY <1>7, <1>9, <1>10
<1>11. ASSUME ImportedOf(States', x) = ImportedOf(States, x)
       PROVE  Imported' = Imported
  BY <1>7, <1>9, <1>11
<1>12. ASSUME j.pc \in {"init_state", "bind_state"}
       PROVE  UNCHANGED Ceremony!vars
  <2>1. /\ AcceptedOf(States', x) = AcceptedOf(States, x)
        /\ ImportedOf(States', x) = ImportedOf(States, x)
    <3>1. CASE j.pc = "init_state"
      <4>1. j.held.opening = Absent /\ j.held.phase # "COMPLETE"
        BY <1>2, <1>3, <3>1 DEF Linked, Transcript
      <4> QED
        BY <1>6, <1>8, <3>1, <4>1
    <3>2. CASE j.pc = "bind_state"
      <4>1. j.held.opening = old.opening /\ j.held.phase = old.phase
        BY <1>2, <3>2 DEF Linked
      <4> QED
        BY <1>6, <1>8, <3>2, <4>1
    <3> QED
      BY <1>12, <3>1, <3>2
  <2> QED
    BY <1>4, <1>10, <1>11, <2>1 DEF Ceremony!vars
<1>13. ASSUME j.pc = "reveal_state"
       PROVE  \E openings \in Openings : Ceremony!Accept(x, openings)
  <2>1. /\ old.opening = Absent /\ j.held.opening \in Openings
        /\ j.held.phase # "COMPLETE"
    BY <1>2, <1>13 DEF Linked
  <2>2. old.phase # "COMPLETE"
    BY <1>3, <1>13, <2>1 DEF Transcript
  <2>3. Imported' = Imported
    BY <1>6, <1>8, <1>11, <1>13, <2>1, <2>2
  <2>4. Accepted[x] = Absent
    BY <1>3, <1>8, <1>9, <1>13, <2>1
  <2>5. Accepted' = [Accepted EXCEPT ![x] = j.held.opening]
    BY <1>3, <1>6, <1>7, <1>9
  <2>6. x \in Committed
    <3>1. Answering(j.message, shown) /\ j.message.session = x
      BY <1>2, <1>13 DEF GoodJob, MessagePcs, Fits, AnsweredPcs, StateContext
    <3>2. PICK c \in shown : c.kind = "message" /\ c.stage = HOST_COMMIT /\ c.session = x
      BY <3>1 DEF Answering, Context
    <3> QED
      BY <3>2 DEF Committed, Disclosed
  <2> QED
    BY <1>4, <2>1, <2>3, <2>4, <2>5, <2>6 DEF Ceremony!Accept
<1>14. ASSUME j.pc = "verify_state"
       PROVE  Ceremony!Import(x)
  <2>1. j.held.opening = old.opening /\ RevealShown(x, shown)
    BY <1>2, <1>14 DEF Linked
  <2>2. j.held.phase = "COMPLETE"
    BY <1>2, <1>14 DEF Fits, VerifiedPcs
  <2>3. Revealed[x] = {j.held.opening}
    BY <1>1, <1>2, <1>3, <1>14, <2>1, RevealedIs
  <2>4. Accepted' = Accepted
    BY <1>6, <1>8, <1>10, <1>14, <2>1
  <2>5. Imported' = [Imported EXCEPT ![x] = Revealed[x]]
    BY <1>3, <1>6, <1>7, <1>9, <2>2, <2>3
  <2> QED
    BY <1>4, <2>3, <2>4, <2>5 DEF Ceremony!Import
<1> QED
  BY <1>1, <1>3, <1>12, <1>13, <1>14 DEF SavePcs, Ceremony!Next

\* What one more output adds.
LEMMA ShownGrows ==
    ASSUME NEW o, shown' = shown \union {o}
    PROVE  /\ Committed' = IF o.kind = "message" /\ o.stage = HOST_COMMIT
                           THEN Committed \union {o.session} ELSE Committed
           /\ \A y \in Session :
                 Revealed'[y] = IF o.kind = "message" /\ o.stage = HOST_REVEAL /\ o.session = y
                                THEN Revealed[y] \union {o.opening} ELSE Revealed[y]
           /\ Receipted' = IF o.kind \in {"receipt", "psbt_receipt"}
                           THEN Receipted \union {o.message.session} ELSE Receipted
<1>1. Committed' = IF o.kind = "message" /\ o.stage = HOST_COMMIT
                   THEN Committed \union {o.session} ELSE Committed
  BY DEF Committed, Disclosed
<1>2. ASSUME NEW y \in Session
      PROVE  Revealed'[y] = IF o.kind = "message" /\ o.stage = HOST_REVEAL /\ o.session = y
                            THEN Revealed[y] \union {o.opening} ELSE Revealed[y]
  BY DEF Revealed, Disclosed
<1>3. Receipted' = IF o.kind \in {"receipt", "psbt_receipt"}
                   THEN Receipted \union {o.message.session} ELSE Receipted
  BY DEF Receipted
<1> QED
  BY <1>1, <1>2, <1>3

LEMMA OutputSimulates ==
    ASSUME CeremonyInv, NEW p \in Proc, AtomicReplace(p), WritesOutput(job[p])
    PROVE  [Ceremony!Next]_(Ceremony!vars)
<1> DEFINE j == job[p]
           o == Data(j)
           s == disk[StateFile(j.dir)]
           x == j.held.session
<1>1. /\ j.pc \in ExactPcs /\ StatesKept(disk, disk')
      /\ j.pc # "prepare_message2" => StateFile(j.dir) \in DOMAIN disk /\ s = j.held
      /\ shown' = IF j.pc \in OutputPcs THEN shown \union {o} ELSE shown
  BY DEF WritesOutput
<1>2. /\ GoodJob(j, drawn, shown, DOMAIN disk) /\ Linked(j, disk, shown)
      /\ j.dir \in Dir /\ Fits(j)
  <2>1. j.pc # "idle"
    BY <1>1 DEF ExactPcs, OutputPcs
  <2> QED
    BY <2>1, JobKnown DEF CeremonyInv, LinkInv, SequentialInv, Inv, JobInv
<1>3. j.pc # "prepare_message2" => x \in Session
  <2>1. drawn \subseteq Session
    BY DEF CeremonyInv, SequentialInv, Inv, StoreInv
  <2>2. j.pc # "prepare_message2" => GoodState(j.held, drawn)
    BY <1>1, <1>2 DEF GoodJob, ExactPcs, OutputPcs
  <2> QED
    BY <2>1, <2>2 DEF GoodState
<1>4. Accepted' = Accepted /\ Imported' = Imported
  <2>1. States' = States
    BY <1>1, KeptStates DEF States, StatesIn
  <2> QED
    BY <2>1, ByStates
<1>5. Revealed = [y \in Session |-> Revealed[y]] /\ Revealed' = [y \in Session |-> Revealed'[y]]
  BY DEF Revealed
<1>6. ASSUME j.pc = "bind_original"
      PROVE  UNCHANGED Ceremony!vars
  BY <1>1, <1>6, Stutter DEF OutputPcs
<1>7. ASSUME j.pc \in OutputPcs
      PROVE  /\ Committed' = IF o.kind = "message" /\ o.stage = HOST_COMMIT
                             THEN Committed \union {o.session} ELSE Committed
             /\ \A y \in Session :
                   Revealed'[y] =
                       IF o.kind = "message" /\ o.stage = HOST_REVEAL /\ o.session = y
                       THEN Revealed[y] \union {o.opening} ELSE Revealed[y]
             /\ Receipted' = IF o.kind \in {"receipt", "psbt_receipt"}
                             THEN Receipted \union {o.message.session} ELSE Receipted
  BY <1>1, <1>7, ShownGrows
<1>8. ASSUME \/ o.kind \in {"package", "signed", "raw"}
             \/ o.kind = "message" /\ o.stage = SIGNER_OPENINGS,
             j.pc \in OutputPcs
      PROVE  UNCHANGED Ceremony!vars
  <2> HIDE DEF o
  <2>1. /\ ~(o.kind = "message" /\ o.stage = HOST_COMMIT)
        /\ ~(o.kind = "message" /\ o.stage = HOST_REVEAL)
        /\ o.kind \notin {"receipt", "psbt_receipt"}
    BY <1>8 DEF HOST_COMMIT, HOST_REVEAL, SIGNER_OPENINGS
  <2>2. Committed' = Committed /\ Receipted' = Receipted
    BY <1>7, <1>8, <2>1
  <2>3. \A y \in Session : Revealed'[y] = Revealed[y]
    BY <1>7, <1>8, <2>1
  <2>4. Revealed' = Revealed
    BY <1>5, <2>3
  <2> QED
    BY <1>4, <2>2, <2>4 DEF Ceremony!vars
<1>9. ASSUME j.pc = "init_message1"
      PROVE  Ceremony!Commit(x) \/ UNCHANGED Ceremony!vars
  <2>1. o.kind = "message" /\ o.stage = HOST_COMMIT /\ o.session = x
    BY <1>9 DEF Data, SavePcs, CommitMessage
  <2> HIDE DEF o
  <2>2. Committed' = Committed \union {x} /\ Receipted' = Receipted
    BY <1>7, <1>9, <2>1 DEF OutputPcs
  <2>3. Revealed' = Revealed
    BY <1>5, <1>7, <1>9, <2>1 DEF OutputPcs, HOST_COMMIT, HOST_REVEAL
  <2>4. CASE x \in Committed
    BY <1>4, <2>2, <2>3, <2>4 DEF Ceremony!vars
  <2>5. CASE x \notin Committed
    BY <1>4, <2>2, <2>3, <2>5 DEF Ceremony!Commit
  <2> QED
    BY <2>4, <2>5
<1>10. ASSUME j.pc = "reveal_message3"
       PROVE  Ceremony!Reveal(x)
  <2>1. o = RevealMessage(j.message, j.held.rho) /\ Answering(j.message, shown)
    BY <1>2, <1>10 DEF Data, SavePcs, GoodJob, MessagePcs
  <2>2. /\ j.message.session = x
        /\ j.message.opening = j.held.opening /\ j.held.opening # Absent
    BY <1>2, <1>10 DEF Fits, AnsweredPcs, StateContext, Linked
  <2>3. /\ o.kind = "message" /\ o.stage = HOST_REVEAL
        /\ o.session = x /\ o.opening = j.held.opening
    BY <2>1, <2>2 DEF RevealMessage, Answering, MessageFields
  <2> HIDE DEF o
  <2>4. Committed' = Committed /\ Receipted' = Receipted
    BY <1>7, <1>10, <2>3 DEF OutputPcs, HOST_COMMIT, HOST_REVEAL
  <2>5. OfSession(States, x) = {j.held}
    BY <1>1, <1>2, <1>10, StateOfDirectory DEF CeremonyInv, LinkInv, States, StatesIn
  <2>6. Accepted[x] = j.held.opening
    BY <1>3, <1>10, <2>5, ByStates, OneStateOf
  <2>7. Revealed[x] \subseteq {j.held.opening}
    BY <1>1, <1>2, <1>3, <1>10, RevealedIs
  <2>8. Revealed'[x] = {Accepted[x]}
    <3>1. Revealed'[x] = Revealed[x] \union {o.opening}
      BY <1>3, <1>7, <1>10, <2>3 DEF OutputPcs
    <3> QED
      BY <2>3, <2>6, <2>7, <3>1
  <2>9. \A y \in Session : y # x => Revealed'[y] = Revealed[y]
    BY <1>7, <1>10, <2>3 DEF OutputPcs
  <2>10. Revealed' = [Revealed EXCEPT ![x] = {Accepted[x]}]
    BY <1>3, <1>5, <1>10, <2>8, <2>9
  <2> QED
    BY <1>4, <2>2, <2>4, <2>6, <2>10 DEF Ceremony!Reveal
<1>11. ASSUME j.pc \in {"verify_receipt", "import_receipt"}
       PROVE  Ceremony!Certify(x)
  <2>1. o.kind \in {"receipt", "psbt_receipt"} /\ o.message = j.message
    BY <1>11 DEF Data, SavePcs, Receipt, PsbtReceipt
  <2>2. j.message.session = x /\ j.held.phase = "COMPLETE"
    BY <1>2, <1>11 DEF Fits, AnsweredPcs, VerifiedPcs, ImportPcs, StateContext
  <2> HIDE DEF o
  <2>3. Committed' = Committed /\ Receipted' = Receipted \union {x}
    BY <1>7, <1>11, <2>1, <2>2 DEF OutputPcs
  <2>4. Revealed' = Revealed
    BY <1>5, <1>7, <1>11, <2>1 DEF OutputPcs
  <2>5. OfSession(States, x) = {j.held}
    BY <1>1, <1>2, <1>11, StateOfDirectory DEF CeremonyInv, LinkInv, States, StatesIn
  <2>6. Imported[x] # {}
    BY <1>3, <1>11, <2>2, <2>5, ByStates, OneStateOf
  <2> QED
    BY <1>4, <2>3, <2>4, <2>6 DEF Ceremony!Certify
<1>12. ASSUME j.pc = "prepare_message2"
       PROVE  o.kind = "message" /\ o.stage = SIGNER_OPENINGS
  <2>1. o = j.message /\ Answering(j.message, shown) /\ j.message.stage = SIGNER_OPENINGS
    BY <1>2, <1>12 DEF Data, SavePcs, GoodJob, MessagePcs, Linked
  <2> QED
    BY <2>1 DEF Answering
<1>13. ASSUME j.pc \in {"prepare_package", "import_signed", "import_raw"}
       PROVE  o.kind \in {"package", "signed", "raw"}
  <2>1. RawTransaction(j.psbt, j.input, j.read).kind = "raw"
    BY DEF RawTransaction, SignedPsbt
  <2> QED
    BY <1>13, <2>1 DEF Data, SavePcs, Package, SignedPsbt
<1>14. CASE j.pc \in {"prepare_message2", "prepare_package", "import_signed", "import_raw"}
  <2>1. /\ j.pc \in OutputPcs
        /\ \/ o.kind \in {"package", "signed", "raw"}
           \/ o.kind = "message" /\ o.stage = SIGNER_OPENINGS
    BY <1>12, <1>13, <1>14 DEF OutputPcs
  <2>2. UNCHANGED Ceremony!vars
    BY <1>8, <2>1
  <2> QED
    BY <2>2
<1>15. CASE j.pc \in {"init_message1", "reveal_message3", "verify_receipt", "import_receipt"}
  <2>1. x \in Session
    BY <1>3, <1>15
  <2> QED
    BY <1>9, <1>10, <1>11, <1>15, <2>1 DEF Ceremony!Next
<1> QED
  BY <1>1, <1>6, <1>14, <1>15 DEF ExactPcs, OutputPcs

\* Sequential commands implement the abstract ceremony, crashes, retries and damage to
\* stored originals included, for any sessions, directories and PSBTs: the module's
\* refinement (workflow.py, psbt_workflow.py).
THEOREM WorkflowImplements ==
    ASSUME Sequential
    PROVE  Spec => ImplementsCeremony
<1>1. Init => Ceremony!Init
  <2> SUFFICES ASSUME Init
               PROVE  Ceremony!Init
    OBVIOUS
  <2>1. shown = {} /\ States = {}
    BY DEF Init, States
  <2>2. Accepted = [s \in Session |-> Absent] /\ Imported = [s \in Session |-> {}]
    <3>1. \A s \in Session : OfSession(States, s) = {}
      BY <2>1 DEF OfSession
    <3>2. \A s \in Session : AcceptedOf(States, s) = Absent /\ ImportedOf(States, s) = {}
      BY <3>1, NoStateOf
    <3> QED
      BY <3>2, ByStates
  <2>3. Committed = {} /\ Receipted = {} /\ Revealed = [s \in Session |-> {}]
    BY <2>1 DEF Committed, Receipted, Revealed, Disclosed
  <2> QED
    BY <2>2, <2>3 DEF Ceremony!Init
<1>2. CeremonyInv /\ CeremonyInv' /\ [Next]_vars => [Ceremony!Next]_(Ceremony!vars)
  <2> SUFFICES ASSUME CeremonyInv, CeremonyInv', [Next]_vars
               PROVE  [Ceremony!Next]_(Ceremony!vars)
    OBVIOUS
  <2>1. CASE UNCHANGED vars
    BY <2>1, NothingWritten DEF vars
  <2>2. ASSUME NEW p \in Proc, StorageStep(p) \/ Command(p) \/ Crash(p)
        PROVE  [Ceremony!Next]_(Ceremony!vars)
    <3>1. CASE AtomicReplace(p)
      BY <3>1, WriteCases, SaveSimulates, OutputSimulates DEF CeremonyInv
    <3>2. CASE ~AtomicReplace(p)
      BY <2>2, <3>2, QuietLinked, NothingWritten DEF StorageStep
    <3> QED
      BY <3>1, <3>2
  <2>3. ASSUME NEW d \in Dir, DamageOriginal(d)
        PROVE  [Ceremony!Next]_(Ceremony!vars)
    BY <2>3, DamageLinked, Stutter
  <2> QED
    BY <2>1, <2>2, <2>3 DEF Next
<1> QED
  BY <1>1, <1>2, CeremonyHolds, PTL DEF Spec, ImplementsCeremony, Ceremony!Spec
=============================================================================
