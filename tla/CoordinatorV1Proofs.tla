------------------------- MODULE CoordinatorV1Proofs -------------------------
(***************************************************************************)
(* Proofs about CoordinatorV1 for every set of processes, directories,     *)
(* PSBTs, paths and signers.                                               *)
(*                                                                         *)
(* The first half holds under every interleaving and crash.  The second,   *)
(* from "One command at a time" on, is what the outputs rest on when       *)
(* commands run one at a time: CommitmentDurable, SignedFromReveal and     *)
(* CompletionOrder, and that the coordinator implements AntiExfilCeremony  *)
(* (CoordinatorImplements).                                                *)
(***************************************************************************)
EXTENDS CoordinatorV1, CoordinatorCeremony, FiniteSetTheorems, TLAPS

-----------------------------------------------------------------------------
(***************************************************************************)
(* States and transcripts.                                                 *)
(***************************************************************************)

\* The state host_init_v1 creates is a transcript of its own.
LEMMA InitialTranscript ==
    ASSUME NEW network, NEW session \in Session, NEW psbt \in Psbt
    PROVE  /\ Transcript(InitialState(network, session, psbt))
           /\ InitialState(network, session, psbt).phase = "COMMITMENTS_CREATED"
           /\ InitialState(network, session, psbt).session = session
BY DEF Transcript, InitialState, StateFields, Phases

\* Accepting openings keeps a transcript one, and never changes a reveal it held.
LEMMA AcceptTranscript ==
    ASSUME NEW s, NEW m, Transcript(s), OpeningsAccepted(s, m),
           NEW t, t = [s EXCEPT
                        !.phase = IF @ = "COMMITMENTS_CREATED" THEN "OPENINGS_ACCEPTED" ELSE @,
                        !.message_2 = m,
                        !.message_3 = RevealFor(s, m)]
    PROVE  /\ Transcript(t)
           /\ KeepsReveal(s, t)
           /\ t.phase # "COMMITMENTS_CREATED"
<1>1. /\ DOMAIN t = StateFields
      /\ t.network = s.network /\ t.session = s.session /\ t.psbt = s.psbt
      /\ t.rhos = s.rhos /\ t.message_1 = s.message_1 /\ t.message_4 = s.message_4
      /\ t.message_2 = m /\ t.message_3 = RevealFor(s, m)
      /\ t.phase = IF s.phase = "COMMITMENTS_CREATED" THEN "OPENINGS_ACCEPTED" ELSE s.phase
  BY DEF Transcript, StateFields
<1>2. RevealFor(t, m) = RevealFor(s, m)
  BY <1>1 DEF RevealFor
<1>3. s.phase # "COMMITMENTS_CREATED" => t.message_3 = s.message_3
  BY <1>1 DEF Transcript, OpeningsAccepted
<1>4. /\ ValidMessage(m) /\ ValidTransition(s.message_1, m)
      /\ ValidTransition(m, RevealFor(s, m))
  BY DEF OpeningsAccepted
<1>5. CASE s.phase = "COMPLETE"
  <2>1. t.phase = "COMPLETE" /\ t.message_3 = s.message_3
    BY <1>1, <1>3, <1>5
  <2>2. ValidTransition(s.message_3, s.message_4) /\ VerifiedSlots(s.message_4, s.rhos)
    BY <1>5 DEF Transcript
  <2> QED
    BY <1>1, <1>2, <1>4, <2>1, <2>2, <1>5 DEF Transcript, KeepsReveal, Phases
<1>6. CASE s.phase # "COMPLETE"
  <2>1. t.phase = "OPENINGS_ACCEPTED" /\ t.message_4 = Absent
    BY <1>1, <1>6 DEF Transcript, Phases
  <2> QED
    BY <1>1, <1>2, <1>3, <1>4, <2>1, <1>6 DEF Transcript, KeepsReveal, Phases
<1> QED
  BY <1>5, <1>6

\* Accepting signatures completes a transcript and keeps its reveal.
LEMMA CompleteTranscript ==
    ASSUME NEW s, NEW m, NEW d, Transcript(s), SignaturesAccepted(s, d, m),
           NEW t, t = [s EXCEPT !.phase = "COMPLETE", !.message_4 = m]
    PROVE  /\ Transcript(t)
           /\ KeepsReveal(s, t)
           /\ t.phase # "COMMITMENTS_CREATED"
<1>1. /\ DOMAIN t = StateFields
      /\ t.network = s.network /\ t.session = s.session /\ t.psbt = s.psbt
      /\ t.rhos = s.rhos /\ t.message_1 = s.message_1 /\ t.message_2 = s.message_2
      /\ t.message_3 = s.message_3 /\ t.message_4 = m
      /\ t.phase = "COMPLETE"
  BY DEF Transcript, StateFields
<1>2. RevealFor(t, t.message_2) = RevealFor(s, s.message_2)
  BY <1>1 DEF RevealFor
<1>3. s.phase # "COMMITMENTS_CREATED"
  BY DEF SignaturesAccepted
<1>4. ValidTransition(s.message_3, m) /\ VerifiedSlots(m, s.rhos)
  BY DEF SignaturesAccepted
<1> QED
  BY <1>1, <1>2, <1>3, <1>4 DEF Transcript, KeepsReveal, Phases

\* The reveal of a transcript is a message 3 of the transcript's session.
LEMMA RevealOfTranscript ==
    ASSUME NEW s, Transcript(s), s.phase # "COMMITMENTS_CREATED"
    PROVE  s.message_3.stage = HOST_REVEAL /\ s.message_3.session = s.session
<1>1. s.message_1.session = s.session /\ s.message_1.stage = HOST_COMMIT
  BY DEF Transcript, CommitMessage
<1>2. s.message_2.session = s.session /\ s.message_2.stage = s.message_1.stage + 1
  BY <1>1 DEF Transcript, ValidTransition
<1>3. s.message_3.session = s.session /\ s.message_3.stage = s.message_2.stage + 1
  BY <1>2 DEF Transcript, ValidTransition
<1> QED
  BY <1>1, <1>2, <1>3 DEF HOST_COMMIT, HOST_REVEAL

-----------------------------------------------------------------------------
(***************************************************************************)
(* Inv holds in every reachable state, for any number of processes.        *)
(***************************************************************************)

LEMMA InitInv == Init => Inv
BY CoordinatorAssumption DEF Init, Inv, StoreInv, JobInv, GoodJob, Idle, Pcs, Exists

\* A step that touches only one process, and leaves it with a good job, keeps Inv.
LEMMA OneJobStep ==
    ASSUME Inv, NEW p \in Proc, NEW j, GoodJob(j, drawn'), job' = [job EXCEPT ![p] = j],
           drawn \subseteq drawn', drawn' \subseteq Session, UNCHANGED <<disk, shown, damage>>
    PROVE  Inv'
<1>1. JobInv'
  <2>1. DOMAIN job' = Proc
    BY DEF Inv, JobInv
  <2>2. ASSUME NEW q \in Proc PROVE GoodJob(job'[q], drawn')
    <3>1. CASE q = p
      BY <3>1 DEF Inv, JobInv
    <3>2. CASE q # p
      BY <3>2 DEF Inv, JobInv, GoodJob
    <3> QED
      BY <3>1, <3>2
  <2> QED
    BY <2>1, <2>2 DEF JobInv
<1>2. StoreInv'
  BY DEF Inv, StoreInv, Exists
<1> QED
  BY <1>1, <1>2 DEF Inv

\* The job a process has after Exit or Advance is good.
LEMMA NextJob ==
    ASSUME Inv, NEW p \in Proc, job[p].pc \in Pcs \ {"idle", "accept", "complete"}
    PROVE  /\ GoodJob(Idle, drawn)
           /\ NextPc(job[p].pc) # "done" =>
                 GoodJob(Resume(p, NextPc(job[p].pc), job[p].held), drawn)
<1>1. GoodJob(job[p], drawn) /\ job[p].pc # "idle"
  BY DEF Inv, JobInv
<1>2. GoodJob(Idle, drawn)
  BY DEF GoodJob, Idle, Pcs
<1>3. ASSUME NextPc(job[p].pc) # "done"
      PROVE  /\ NextPc(job[p].pc) \in Pcs
             /\ NextPc(job[p].pc) \in RevealPcs \union CompletePcs
                  => job[p].pc \in RevealPcs \union CompletePcs
  BY <1>3 DEF NextPc, Pcs, ExactPcs, SavePcs, RevealPcs, CompletePcs
<1>4. ASSUME NextPc(job[p].pc) # "done"
      PROVE  GoodJob(Resume(p, NextPc(job[p].pc), job[p].held), drawn)
  BY <1>1, <1>3, <1>4 DEF GoodJob, Resume, Job
<1> QED
  BY <1>2, <1>4

\* Advance and Exit, with the disk unchanged.
LEMMA AdvanceStep ==
    ASSUME Inv, NEW p \in Proc, job[p].pc \in Pcs \ {"idle", "accept", "complete"},
           Advance(p) \/ Exit(p), UNCHANGED <<disk, shown, drawn, damage>>
    PROVE  Inv'
<1>1. PICK j : GoodJob(j, drawn) /\ job' = [job EXCEPT ![p] = j]
  BY NextJob DEF Advance, Exit
<1>2. drawn \subseteq Session
  BY DEF Inv, StoreInv
<1> QED
  BY <1>1, <1>2, OneJobStep

\* The tests of write_exact and save_state, and _load_original.
LEMMA TestSteps ==
    ASSUME Inv, NEW p \in Proc,
           FindAbsent(p) \/ FindSame(p) \/ FindConflict(p) \/ LoadOriginal(p)
    PROVE  Inv'
<1>1. drawn \subseteq Session /\ GoodJob(job[p], drawn)
  BY DEF Inv, StoreInv, JobInv
<1>2. CASE FindAbsent(p)
  <2> DEFINE j == [Resume(p, job[p].pc, job[p].held) EXCEPT !.clear = TRUE]
  <2>1. GoodJob(j, drawn)
    BY <1>1, <1>2 DEF FindAbsent, GoodJob, Resume, Job, ExactPcs
  <2>2. job' = [job EXCEPT ![p] = j] /\ UNCHANGED <<disk, shown, drawn, damage>>
    BY <1>2 DEF FindAbsent
  <2> QED
    BY <1>1, <2>1, <2>2, OneJobStep
<1>3. CASE FindSame(p)
  BY <1>3, AdvanceStep DEF FindSame, ExactPcs, Pcs
<1>4. CASE FindConflict(p)
  BY <1>4, AdvanceStep DEF FindConflict, ExactPcs, Pcs
<1>5. CASE LoadOriginal(p)
  BY <1>5, AdvanceStep DEF LoadOriginal, Pcs
<1> QED
  BY <1>2, <1>3, <1>4, <1>5

\* A process that is killed, or that refuses its input.
LEMMA StopSteps ==
    ASSUME Inv, NEW p \in Proc, RefuseInput(p) \/ Crash(p)
    PROVE  Inv'
<1>1. job' = [job EXCEPT ![p] = Idle] /\ UNCHANGED <<disk, shown, drawn, damage>>
  BY DEF RefuseInput, Crash, Exit
<1>2. GoodJob(Idle, drawn)
  BY DEF GoodJob, Idle, Pcs
<1>3. drawn \subseteq Session
  BY DEF Inv, StoreInv
<1> QED
  BY <1>1, <1>2, <1>3, OneJobStep

LEMMA HostInitStep ==
    ASSUME Inv, NEW p \in Proc, HostInitV1(p)
    PROVE  Inv'
<1>1. PICK d \in Dir, network \in Network, session \in Session \ drawn, psbt \in Psbt,
           path \in OutPath["package1"] :
          /\ job' = [job EXCEPT ![p] =
                        Job("init_state", d, InitialState(network, session, psbt), path, path)]
          /\ drawn' = drawn \union {session}
  BY DEF HostInitV1
<1> DEFINE j == Job("init_state", d, InitialState(network, session, psbt), path, path)
<1>2. path \in Paths
  BY DEF Paths, Kinds
<1>3. GoodJob(j, drawn')
  BY <1>1, <1>2, InitialTranscript DEF GoodJob, Job, Pcs, RevealPcs, CompletePcs
<1>4. drawn \subseteq drawn' /\ drawn' \subseteq Session
  BY <1>1 DEF Inv, StoreInv
<1>5. UNCHANGED <<disk, shown, damage>>
  BY DEF HostInitV1
<1> QED
  BY <1>1, <1>3, <1>4, <1>5, OneJobStep

LEMMA LoadStateStep ==
    ASSUME Inv, NEW p \in Proc, NEW d \in Dir, NEW command \in {"accept", "complete"},
           LoadState(p, d, command)
    PROVE  Inv'
<1>1. PICK path \in OutPath[IF command = "accept" THEN "package3" ELSE "signed"],
           receipt \in OutPath["receipt"] :
          job' = [job EXCEPT ![p] = Job(command, d, disk[StateFile(d)], path,
                                        IF command = "accept" THEN path ELSE receipt)]
  BY DEF LoadState
<1> DEFINE j == Job(command, d, disk[StateFile(d)], path,
                    IF command = "accept" THEN path ELSE receipt)
<1>2. path \in Paths /\ receipt \in Paths
  BY DEF Paths, Kinds
<1>3. Transcript(disk[StateFile(d)]) /\ disk[StateFile(d)].session \in drawn
  BY DEF LoadState, Inv, StoreInv
<1>4. GoodJob(j, drawn)
  BY <1>2, <1>3 DEF GoodJob, Job, Pcs, RevealPcs, CompletePcs
<1>5. UNCHANGED <<disk, shown, drawn, damage>> /\ drawn \subseteq Session
  BY DEF LoadState, Inv, StoreInv
<1> QED
  BY <1>1, <1>4, <1>5, OneJobStep

LEMMA HostAcceptStep ==
    ASSUME Inv, NEW p \in Proc, HostAcceptOpeningsV1(p)
    PROVE  Inv'
<1> DEFINE held == job[p].held
           next(m) == [held EXCEPT
                        !.phase = IF @ = "COMMITMENTS_CREATED" THEN "OPENINGS_ACCEPTED" ELSE @,
                        !.message_2 = m,
                        !.message_3 = RevealFor(held, m)]
<1>1. PICK m \in SignerAnswers :
          /\ OpeningsAccepted(held, m)
          /\ job' = [job EXCEPT ![p] = Resume(p, "accept_state", next(m))]
  BY DEF HostAcceptOpeningsV1
<1>2. GoodJob(job[p], drawn) /\ job[p].pc # "idle"
  BY DEF Inv, JobInv, HostAcceptOpeningsV1
<1>3. /\ Transcript(next(m)) /\ KeepsReveal(held, next(m))
      /\ next(m).phase # "COMMITMENTS_CREATED"
  BY <1>1, <1>2, AcceptTranscript DEF GoodJob
<1>4. next(m).session \in drawn
  BY <1>2, <1>3 DEF GoodJob, KeepsReveal
<1> HIDE DEF next
<1>5. GoodJob(Resume(p, "accept_state", next(m)), drawn)
  BY <1>2, <1>3, <1>4 DEF GoodJob, Resume, Job, Pcs, SavePcs
<1>6. UNCHANGED <<disk, shown, drawn, damage>> /\ drawn \subseteq Session
  BY DEF HostAcceptOpeningsV1, Inv, StoreInv
<1> QED
  BY <1>1, <1>5, <1>6, OneJobStep

LEMMA HostCompleteStep ==
    ASSUME Inv, NEW p \in Proc, HostCompleteV1(p)
    PROVE  Inv'
<1> DEFINE held == job[p].held
           next(m) == [held EXCEPT !.phase = "COMPLETE", !.message_4 = m]
<1>1. PICK m \in SignerAnswers :
          /\ SignaturesAccepted(held, job[p].dir, m)
          /\ job' = [job EXCEPT ![p] = Resume(p, "complete_signed", next(m))]
  BY DEF HostCompleteV1
<1>2. GoodJob(job[p], drawn) /\ job[p].pc # "idle"
  BY DEF Inv, JobInv, HostCompleteV1
<1>3. /\ Transcript(next(m)) /\ KeepsReveal(held, next(m))
      /\ next(m).phase # "COMMITMENTS_CREATED"
  BY <1>1, <1>2, CompleteTranscript DEF GoodJob
<1>4. next(m).session \in drawn
  BY <1>2, <1>3 DEF GoodJob, KeepsReveal
<1> HIDE DEF next
<1>5. GoodJob(Resume(p, "complete_signed", next(m)), drawn)
  BY <1>2, <1>3, <1>4 DEF GoodJob, Resume, Job, Pcs, ExactPcs
<1>6. UNCHANGED <<disk, shown, drawn, damage>> /\ drawn \subseteq Session
  BY DEF HostCompleteV1, Inv, StoreInv
<1> QED
  BY <1>1, <1>5, <1>6, OneJobStep
\* A durable write: the state file gets the held transcript, the others their
\* content, and outputs are shown as they are written.
LEMMA AtomicReplaceStep ==
    ASSUME Inv, NEW p \in Proc, AtomicReplace(p)
    PROVE  Inv'
<1> DEFINE j == job[p]
<1>1. /\ GoodJob(j, drawn) /\ j.pc \in Pcs \ {"idle", "accept", "complete"}
      /\ j.dir \in Dir /\ j.path \in Paths /\ j.receipt \in Paths
      /\ Transcript(j.held) /\ j.held.session \in drawn
  BY DEF AtomicReplace, Inv, JobInv, GoodJob, Pcs, ExactPcs, SavePcs
<1>2. /\ disk' = [f \in DOMAIN disk \union {Target(j)} |->
                     IF f = Target(j) THEN Data(j) ELSE disk[f]]
      /\ shown' = IF j.pc \in OutputPcs THEN shown \union {Data(j)} ELSE shown
      /\ UNCHANGED <<drawn, damage>>
      /\ Advance(p)
      /\ j.pc \in SavePcs \union ExactPcs \union {"init_state"}
  BY DEF AtomicReplace, Written
<1>3. JobInv'
  <2>1. PICK k : GoodJob(k, drawn) /\ job' = [job EXCEPT ![p] = k]
    BY <1>1, <1>2, NextJob DEF Advance, Exit
  <2>2. DOMAIN job' = Proc
    BY <2>1 DEF Inv, JobInv
  <2>3. ASSUME NEW q \in Proc PROVE GoodJob(job'[q], drawn)
    BY <2>1 DEF Inv, JobInv
  <2> QED
    BY <1>2, <2>2, <2>3 DEF JobInv
<1>4. ASSUME NEW d \in Dir, Exists(StateFile(d))'
      PROVE  Transcript(disk'[StateFile(d)]) /\ disk'[StateFile(d)].session \in drawn
  <2>1. CASE Target(j) = StateFile(d)
    <3>1. Data(j) = j.held
      BY <2>1, <1>2 DEF Target, Data, StateFile, OriginalFile, Message1File, OutFile,
                        ExactPcs, SavePcs
    <3> QED
      BY <1>1, <1>2, <2>1, <3>1
  <2>2. CASE Target(j) # StateFile(d)
    <3>1. Exists(StateFile(d)) /\ disk'[StateFile(d)] = disk[StateFile(d)]
      BY <1>2, <1>4, <2>2 DEF Exists
    <3> QED
      BY <3>1 DEF Inv, StoreInv
  <2> QED
    BY <2>1, <2>2
<1>5. ASSUME NEW d \in Dir, Exists(OriginalFile(d))'
      PROVE  disk'[OriginalFile(d)] \in Psbt
  <2>1. CASE Target(j) = OriginalFile(d)
    <3>1. Data(j) = j.held.psbt
      BY <2>1, <1>2 DEF Target, Data, StateFile, OriginalFile, Message1File, OutFile,
                        ExactPcs, SavePcs
    <3> QED
      BY <1>1, <1>2, <2>1, <3>1 DEF Transcript
  <2>2. CASE Target(j) # OriginalFile(d)
    <3>1. Exists(OriginalFile(d)) /\ disk'[OriginalFile(d)] = disk[OriginalFile(d)]
      BY <1>2, <1>5, <2>2 DEF Exists
    <3> QED
      BY <3>1 DEF Inv, StoreInv
  <2> QED
    BY <2>1, <2>2
<1>6. ASSUME NEW path \in Paths, Exists(OutFile(path))'
      PROVE  disk'[OutFile(path)] \in shown'
  <2>1. CASE Target(j) = OutFile(path)
    <3>1. j.pc \in OutputPcs
      BY <2>1, <1>2 DEF Target, StateFile, OriginalFile, Message1File, OutFile,
                        ExactPcs, SavePcs, OutputPcs
    <3> QED
      BY <1>2, <2>1, <3>1
  <2>2. CASE Target(j) # OutFile(path)
    <3>1. Exists(OutFile(path)) /\ disk'[OutFile(path)] = disk[OutFile(path)]
      BY <1>2, <1>6, <2>2 DEF Exists
    <3> QED
      BY <1>2, <3>1 DEF Inv, StoreInv
  <2> QED
    BY <2>1, <2>2
<1>7. ASSUME NEW o \in shown'
      PROVE  o.kind \in {"package", "signed", "receipt"}
  <2>1. CASE o \in shown
    BY <2>1 DEF Inv, StoreInv
  <2>2. CASE j.pc \in OutputPcs /\ o = Data(j)
    <3> DEFINE q == j.held.psbt
               m == j.held.message_4
    <3>1. Package(j.held.message_1, q).kind = "package"
      BY DEF Package
    <3>2. Package(j.held.message_3, q).kind = "package"
      BY DEF Package
    <3>3. SignedPsbt(q, m).kind = "signed"
      BY DEF SignedPsbt
    <3>4. Receipt(j.held).kind = "receipt"
      BY DEF Receipt
    <3> QED
      BY <2>2, <3>1, <3>2, <3>3, <3>4 DEF OutputPcs, Data
  <2> QED
    BY <1>2, <1>7, <2>1, <2>2
<1>8. Target(j) \in File
  BY <1>1 DEF Target, File, StateFile, OriginalFile, Message1File, OutFile
<1>9. DOMAIN disk' \subseteq File /\ drawn' \subseteq Session /\ damage' \in 0..MaxDamage
  BY <1>2, <1>8 DEF Inv, StoreInv
<1> QED
  BY <1>2, <1>3, <1>4, <1>5, <1>6, <1>7, <1>9 DEF Inv, StoreInv

\* A stored original is removed or replaced by another PSBT.
LEMMA DamageStep ==
    ASSUME Inv, NEW d \in Dir, DamageOriginal(d)
    PROVE  Inv'
<1>1. /\ \A f \in DOMAIN disk' : f \in DOMAIN disk
      /\ \A f \in DOMAIN disk' \ {OriginalFile(d)} : disk'[f] = disk[f]
      /\ OriginalFile(d) \in DOMAIN disk' => disk'[OriginalFile(d)] \in Psbt
      /\ UNCHANGED <<job, shown, drawn>>
  BY DEF DamageOriginal, Written, Exists
<1>2. damage' \in 0..MaxDamage
  BY CoordinatorAssumption DEF DamageOriginal, Inv, StoreInv
<1>3. \A e \in Dir : StateFile(e) # OriginalFile(d)
  BY DEF StateFile, OriginalFile
<1>4. \A path \in Paths : OutFile(path) # OriginalFile(d)
  BY DEF OutFile, OriginalFile
<1>5. \A e \in Dir : Exists(OriginalFile(e))' => disk'[OriginalFile(e)] \in Psbt
  <2> SUFFICES ASSUME NEW e \in Dir, OriginalFile(e) \in DOMAIN disk'
               PROVE  disk'[OriginalFile(e)] \in Psbt
    BY DEF Exists
  <2>1. CASE OriginalFile(e) = OriginalFile(d)
    BY <1>1, <2>1
  <2>2. CASE OriginalFile(e) # OriginalFile(d)
    BY <1>1, <2>2 DEF Inv, StoreInv, Exists
  <2> QED
    BY <2>1, <2>2
<1>6. StoreInv'
  BY <1>1, <1>2, <1>3, <1>4, <1>5 DEF Inv, StoreInv, Exists
<1> QED
  BY <1>1, <1>6 DEF Inv, JobInv

LEMMA InvStep == Inv /\ [Next]_vars => Inv'
<1> SUFFICES ASSUME Inv, [Next]_vars
             PROVE  Inv'
  OBVIOUS
<1>1. CASE UNCHANGED vars
  BY <1>1 DEF vars, Inv, StoreInv, JobInv, Exists
<1>2. ASSUME NEW p \in Proc, StorageStep(p)
      PROVE  Inv'
  BY <1>2, TestSteps, AtomicReplaceStep DEF StorageStep
<1>3. ASSUME NEW p \in Proc, Command(p)
      PROVE  Inv'
  BY <1>3, HostInitStep, LoadStateStep, HostAcceptStep, TestSteps, HostCompleteStep, StopSteps
     DEF Command
<1>4. ASSUME NEW p \in Proc, Crash(p)
      PROVE  Inv'
  BY <1>4, StopSteps
<1>5. ASSUME NEW d \in Dir, DamageOriginal(d)
      PROVE  Inv'
  BY <1>5, DamageStep
<1> QED
  BY <1>1, <1>2, <1>3, <1>4, <1>5 DEF Next

\* Inv is an invariant of the coordinator, races, crashes and damage included.
THEOREM InvHolds == Spec => []Inv
<1>1. Init => Inv
  BY InitInv
<1>2. Inv /\ [Next]_vars => Inv'
  BY InvStep
<1> QED
  BY <1>1, <1>2, PTL DEF Spec

\* TypeOK: every file, output and process is what the code takes it for.
THEOREM TypeCorrect == Spec => []TypeOK
<1>1. Inv => TypeOK
  <2> SUFFICES ASSUME Inv
               PROVE  TypeOK
    OBVIOUS
  <2>1. Outputs \subseteq shown
    BY DEF Inv, StoreInv, Outputs, Exists
  <2>2. \A p \in Proc :
          /\ job[p].pc \in Pcs
          /\ job[p].pc # "idle" =>
                /\ job[p].dir \in Dir
                /\ job[p].clear \in BOOLEAN
                /\ DOMAIN job[p].held = StateFields
    BY DEF Inv, JobInv, GoodJob, Transcript
  <2>3. \A d \in Dir : Exists(StateFile(d)) => DOMAIN disk[StateFile(d)] = StateFields
    BY DEF Inv, StoreInv, Transcript
  <2> QED
    BY <2>1, <2>2, <2>3 DEF Inv, StoreInv, JobInv, TypeOK
<1> QED
  BY <1>1, InvHolds, PTL

\* TranscriptInv: no interleaving, crash or retry leaves a session directory holding
\* a mixture of two transcripts (the checks of host_accept_openings_v1 and
\* host_complete_v1 against the state they loaded).
THEOREM TranscriptSafety == Spec => []TranscriptInv
<1>1. Inv => TranscriptInv
  BY DEF Inv, StoreInv, TranscriptInv, States, Exists
<1> QED
  BY <1>1, InvHolds, PTL

-----------------------------------------------------------------------------
(***************************************************************************)
(* One process at a time.                                                  *)
(***************************************************************************)

\* HeldInv, of one process and a state file.
Holds(j) ==
    /\ j.pc = "init_state" =>
          /\ j.clear => ~Exists(StateFile(j.dir))
          /\ \A d \in Dir : Exists(StateFile(d)) =>
                disk[StateFile(d)].session # j.held.session
    /\ j.pc \notin {"idle", "init_state"} =>
          /\ Exists(StateFile(j.dir))
          /\ KeepsReveal(disk[StateFile(j.dir)], j.held)
    /\ j.pc \in {"accept_original", "accept_package"} =>
          KeepsReveal(j.held, disk[StateFile(j.dir)])

\* The step of a process that writes nothing keeps SequentialInv if its new job
\* still holds the session.
LEMMA QuietStep ==
    ASSUME SequentialInv, Sequential, NEW p \in Proc, NEW j, Holds(j),
           job' = [job EXCEPT ![p] = j], UNCHANGED <<disk, shown>>, Inv'
    PROVE  SequentialInv'
<1>1. DOMAIN job = Proc
  BY DEF SequentialInv, Inv, JobInv
<1>2. HeldInv'
  BY <1>1 DEF HeldInv, Holds, Sequential, Exists
<1>3. OneDirectory' /\ RevealOnDisk'
  BY DEF SequentialInv, OneDirectory, RevealOnDisk, Disclosed, Exists
<1> QED
  BY <1>2, <1>3 DEF SequentialInv

LEMMA SequentialInit == Init => SequentialInv
BY InitInv DEF Init, SequentialInv, HeldInv, OneDirectory, RevealOnDisk, Disclosed, Exists, Idle

LEMMA HoldsTests ==
    ASSUME SequentialInv, NEW p \in Proc,
           FindAbsent(p) \/ FindSame(p) \/ FindConflict(p) \/ LoadOriginal(p)
             \/ RefuseInput(p) \/ Crash(p)
    PROVE  \E j : Holds(j) /\ job' = [job EXCEPT ![p] = j]
<1>1. Holds(job[p]) /\ Holds(Idle)
  BY DEF SequentialInv, HeldInv, Holds, Idle
<1>2. GoodJob(job[p], drawn)
  BY DEF SequentialInv, Inv, JobInv
<1>3. CASE FindAbsent(p)
  <2> DEFINE r == Resume(p, job[p].pc, job[p].held)
             j == [r EXCEPT !.clear = TRUE]
  <2>1. /\ j.pc = job[p].pc /\ j.dir = job[p].dir /\ j.held = job[p].held
    BY DEF Resume, Job
  <2>2. job[p].pc = "init_state" => ~Exists(StateFile(job[p].dir))
    BY <1>3 DEF FindAbsent, Target
  <2>3. Holds(j)
    <3> HIDE DEF j
    <3> QED
      BY <1>1, <2>1, <2>2 DEF Holds
  <2>4. job' = [job EXCEPT ![p] = j]
    BY <1>3 DEF FindAbsent
  <2> QED
    BY <2>3, <2>4
<1>4. CASE Exit(p)
  BY <1>1, <1>4 DEF Exit
<1>5. CASE /\ Advance(p)
           /\ job[p].pc \in ExactPcs \union {"accept_original"}
  <2> DEFINE r == Resume(p, NextPc(job[p].pc), job[p].held)
  <2>1. r.pc = NextPc(job[p].pc) /\ r.dir = job[p].dir /\ r.held = job[p].held
    BY DEF Resume, Job
  <2>2. /\ NextPc(job[p].pc) \notin {"idle", "init_state"}
        /\ NextPc(job[p].pc) \in {"accept_original", "accept_package"}
             => job[p].pc \in {"accept_original", "accept_package"}
        /\ job[p].pc \notin {"idle", "init_state"}
    BY <1>5 DEF NextPc, ExactPcs
  <2>3. Holds(r)
    <3> HIDE DEF r
    <3> QED
      BY <1>1, <2>1, <2>2 DEF Holds
  <2> QED
    BY <1>1, <1>5, <2>3 DEF Advance, Exit
<1> QED
  BY <1>3, <1>4, <1>5 DEF FindSame, FindConflict, LoadOriginal, RefuseInput, Crash

LEMMA HoldsInit ==
    ASSUME SequentialInv, NEW p \in Proc, HostInitV1(p)
    PROVE  \E j : Holds(j) /\ job' = [job EXCEPT ![p] = j]
<1>1. PICK d \in Dir, network \in Network, session \in Session \ drawn, psbt \in Psbt,
           path \in OutPath["package1"] :
          job' = [job EXCEPT ![p] =
                     Job("init_state", d, InitialState(network, session, psbt), path, path)]
  BY DEF HostInitV1
<1> DEFINE j == Job("init_state", d, InitialState(network, session, psbt), path, path)
<1>2. j.pc = "init_state" /\ j.clear = FALSE /\ j.held.session = session
  BY DEF Job, InitialState
<1>3. \A e \in Dir : Exists(StateFile(e)) => disk[StateFile(e)].session \in drawn
  BY DEF SequentialInv, Inv, StoreInv
<1>4. Holds(j)
  <2> HIDE DEF j
  <2> QED
    BY <1>2, <1>3 DEF Holds
<1> QED
  BY <1>1, <1>4

LEMMA HoldsLoad ==
    ASSUME SequentialInv, NEW p \in Proc, NEW d \in Dir, NEW command \in {"accept", "complete"},
           LoadState(p, d, command)
    PROVE  \E j : Holds(j) /\ job' = [job EXCEPT ![p] = j]
<1>1. PICK path \in OutPath[IF command = "accept" THEN "package3" ELSE "signed"],
           receipt \in OutPath["receipt"] :
          job' = [job EXCEPT ![p] = Job(command, d, disk[StateFile(d)], path,
                                        IF command = "accept" THEN path ELSE receipt)]
  BY DEF LoadState
<1> DEFINE j == Job(command, d, disk[StateFile(d)], path,
                    IF command = "accept" THEN path ELSE receipt)
<1>2. j.pc = command /\ j.dir = d /\ j.held = disk[StateFile(d)]
  BY DEF Job
<1>3. Exists(StateFile(d))
  BY DEF LoadState
<1>4. Holds(j)
  <2> HIDE DEF j
  <2> QED
    BY <1>2, <1>3 DEF Holds, KeepsReveal
<1> QED
  BY <1>1, <1>4

LEMMA HoldsAccept ==
    ASSUME SequentialInv, NEW p \in Proc, HostAcceptOpeningsV1(p)
    PROVE  \E j : Holds(j) /\ job' = [job EXCEPT ![p] = j]
<1> DEFINE held == job[p].held
           next(m) == [held EXCEPT
                        !.phase = IF @ = "COMMITMENTS_CREATED" THEN "OPENINGS_ACCEPTED" ELSE @,
                        !.message_2 = m,
                        !.message_3 = RevealFor(held, m)]
<1>1. PICK m \in SignerAnswers :
          /\ OpeningsAccepted(held, m)
          /\ job' = [job EXCEPT ![p] = Resume(p, "accept_state", next(m))]
  BY DEF HostAcceptOpeningsV1
<1>2. Holds(job[p]) /\ GoodJob(job[p], drawn) /\ job[p].pc = "accept"
  BY DEF SequentialInv, Inv, JobInv, HeldInv, Holds, HostAcceptOpeningsV1
<1>3. KeepsReveal(held, next(m))
  BY <1>1, <1>2, AcceptTranscript DEF GoodJob
<1> HIDE DEF next
<1> DEFINE j == Resume(p, "accept_state", next(m))
<1>4. j.pc = "accept_state" /\ j.dir = job[p].dir /\ j.held = next(m)
  BY DEF Resume, Job
<1>5. Holds(j)
  <2> HIDE DEF j
  <2> QED
    BY <1>2, <1>3, <1>4 DEF Holds, KeepsReveal
<1> QED
  BY <1>1, <1>5

LEMMA HoldsComplete ==
    ASSUME SequentialInv, NEW p \in Proc, HostCompleteV1(p)
    PROVE  \E j : Holds(j) /\ job' = [job EXCEPT ![p] = j]
<1> DEFINE held == job[p].held
           next(m) == [held EXCEPT !.phase = "COMPLETE", !.message_4 = m]
<1>1. PICK m \in SignerAnswers :
          /\ SignaturesAccepted(held, job[p].dir, m)
          /\ job' = [job EXCEPT ![p] = Resume(p, "complete_signed", next(m))]
  BY DEF HostCompleteV1
<1>2. Holds(job[p]) /\ GoodJob(job[p], drawn) /\ job[p].pc = "complete"
  BY DEF SequentialInv, Inv, JobInv, HeldInv, Holds, HostCompleteV1
<1>3. KeepsReveal(held, next(m))
  BY <1>1, <1>2, CompleteTranscript DEF GoodJob
<1> HIDE DEF next
<1> DEFINE j == Resume(p, "complete_signed", next(m))
<1>4. j.pc = "complete_signed" /\ j.dir = job[p].dir /\ j.held = next(m)
  BY DEF Resume, Job
<1>5. Holds(j)
  <2> HIDE DEF j
  <2> QED
    BY <1>2, <1>3, <1>4 DEF Holds, KeepsReveal
<1> QED
  BY <1>1, <1>5

\* A stored original is not part of any session state.
LEMMA SequentialDamage ==
    ASSUME SequentialInv, NEW d \in Dir, DamageOriginal(d), Inv'
    PROVE  SequentialInv'
<1>1. /\ \A e \in Dir : Exists(StateFile(e))' <=> Exists(StateFile(e))
      /\ \A e \in Dir : Exists(StateFile(e)) => disk'[StateFile(e)] = disk[StateFile(e)]
      /\ UNCHANGED <<job, shown>>
  BY DEF DamageOriginal, Written, Exists, StateFile, OriginalFile
<1>2. \A p \in Proc : job[p].pc # "idle" => job[p].dir \in Dir
  BY DEF SequentialInv, Inv, JobInv, GoodJob
<1>3. HeldInv'
  BY <1>1, <1>2 DEF SequentialInv, HeldInv
<1>4. OneDirectory'
  BY <1>1 DEF SequentialInv, OneDirectory
<1>5. RevealOnDisk'
  BY <1>1 DEF SequentialInv, RevealOnDisk, Disclosed
<1> QED
  BY <1>3, <1>4, <1>5 DEF SequentialInv

\* A durable write extends the one state file of its session, and discloses no
\* reveal but the one that file holds.
LEMMA SequentialReplace ==
    ASSUME SequentialInv, Sequential, NEW p \in Proc, AtomicReplace(p), Inv'
    PROVE  SequentialInv'
<1> DEFINE j == job[p]
<1>1. /\ GoodJob(j, drawn) /\ j.pc # "idle" /\ j.dir \in Dir /\ DOMAIN job = Proc
      /\ Holds(j)
  BY DEF AtomicReplace, SequentialInv, Inv, JobInv, GoodJob, HeldInv, Holds, ExactPcs, SavePcs
<1>2. /\ disk' = [f \in DOMAIN disk \union {Target(j)} |->
                     IF f = Target(j) THEN Data(j) ELSE disk[f]]
      /\ shown' = IF j.pc \in OutputPcs THEN shown \union {Data(j)} ELSE shown
      /\ Advance(p)
      /\ j.pc \in SavePcs \union ExactPcs \union {"init_state"}
      /\ j.pc = "init_state" => j.clear
  BY DEF AtomicReplace, Written, SavePcs
<1>3. \A q \in Proc : q = p
  BY DEF Sequential
<1> DEFINE Saves == j.pc \in SavePcs \union {"init_state"}
<1>4. /\ Saves => Target(j) = StateFile(j.dir) /\ Data(j) = j.held
      /\ ~Saves => \A d \in Dir : Target(j) # StateFile(d)
  BY <1>2 DEF SavePcs, ExactPcs, Target, Data, StateFile, OriginalFile, Message1File, OutFile
\* What the step does to state files.
<1>5. \A d \in Dir : Exists(StateFile(d))' <=> (Exists(StateFile(d)) \/ (Saves /\ d = j.dir))
  BY <1>1, <1>2, <1>4 DEF Exists, StateFile
<1>6. \A d \in Dir : Exists(StateFile(d))' =>
          disk'[StateFile(d)] = IF Saves /\ d = j.dir THEN j.held ELSE disk[StateFile(d)]
  BY <1>1, <1>2, <1>4 DEF Exists, StateFile
<1>7. \A d \in Dir : Exists(StateFile(d)) =>
          Exists(StateFile(d))' /\ KeepsReveal(disk[StateFile(d)], disk'[StateFile(d)])
  BY <1>1, <1>2, <1>5, <1>6 DEF Holds, KeepsReveal, SavePcs
<1>8. /\ StateFile(j.dir) \in DOMAIN disk'
      /\ KeepsReveal(disk'[StateFile(j.dir)], j.held)
  <2>1. CASE Saves
    BY <1>2, <1>4, <2>1 DEF KeepsReveal
  <2>2. CASE ~Saves
    <3>1. j.pc \notin {"idle", "init_state"}
      BY <1>2, <2>2 DEF ExactPcs
    <3>2. Exists(StateFile(j.dir)) /\ KeepsReveal(disk[StateFile(j.dir)], j.held)
      BY <1>1, <3>1 DEF Holds
    <3>3. Target(j) # StateFile(j.dir)
      BY <1>1, <1>4, <2>2
    <3> QED
      BY <1>2, <3>2, <3>3 DEF Exists
  <2> QED
    BY <2>1, <2>2
<1>9. j.pc \in {"accept_state", "accept_package"} =>
          KeepsReveal(j.held, disk'[StateFile(j.dir)])
  BY <1>1, <1>2, <1>5, <1>6 DEF Holds, KeepsReveal, SavePcs
<1>10. HeldInv'
  <2> DEFINE k == Resume(p, NextPc(j.pc), j.held)
  <2>1. CASE job' = [job EXCEPT ![p] = Idle]
    BY <1>1, <1>3, <2>1 DEF HeldInv, Idle
  <2>2. CASE job' = [job EXCEPT ![p] = k] /\ NextPc(j.pc) # "done"
    <3>1. job'[p] = k /\ k.pc = NextPc(j.pc) /\ k.dir = j.dir /\ k.held = j.held
      BY <1>1, <2>2 DEF Resume, Job
    <3>2. /\ NextPc(j.pc) \notin {"idle", "init_state"}
          /\ NextPc(j.pc) \in {"accept_original", "accept_package"} =>
                j.pc = "accept_state"
      BY <1>2, <2>2 DEF NextPc, SavePcs, ExactPcs
    <3> QED
      BY <1>3, <1>8, <1>9, <3>1, <3>2 DEF HeldInv, Exists
  <2> QED
    BY <1>2, <2>1, <2>2 DEF Advance, Exit
<1>11. OneDirectory'
  <2> SUFFICES ASSUME NEW d \in Dir, NEW e \in Dir,
                      Exists(StateFile(d))', Exists(StateFile(e))',
                      disk'[StateFile(d)].session = disk'[StateFile(e)].session,
                      d # e
               PROVE  FALSE
    BY DEF OneDirectory
  <2>1. CASE j.pc = "init_state"
    BY <1>1, <1>5, <1>6, <2>1 DEF Holds, SequentialInv, OneDirectory
  <2>2. CASE j.pc # "init_state"
    <3>1. \A x \in Dir : Exists(StateFile(x))' =>
              Exists(StateFile(x)) /\ disk'[StateFile(x)].session = disk[StateFile(x)].session
      BY <1>1, <1>2, <1>5, <1>6, <2>2 DEF Holds, KeepsReveal, SavePcs
    <3> QED
      BY <3>1 DEF SequentialInv, OneDirectory
  <2> QED
    BY <2>1, <2>2
<1>12. RevealOnDisk'
  <2> SUFFICES ASSUME NEW o \in shown', o.kind = "package", o.message.stage = HOST_REVEAL
               PROVE  \E d \in Dir :
                          /\ Exists(StateFile(d))'
                          /\ disk'[StateFile(d)].phase # "COMMITMENTS_CREATED"
                          /\ disk'[StateFile(d)].message_3 = o.message
    BY DEF RevealOnDisk, Disclosed
  <2>1. CASE o \in shown
    <3>1. PICK d \in Dir : /\ Exists(StateFile(d))
                           /\ disk[StateFile(d)].phase # "COMMITMENTS_CREATED"
                           /\ disk[StateFile(d)].message_3 = o.message
      BY <2>1 DEF SequentialInv, RevealOnDisk, Disclosed
    <3> QED
      BY <1>7, <3>1 DEF KeepsReveal
  <2>2. CASE j.pc \in OutputPcs /\ o = Data(j)
    <3>1. CASE j.pc = "init_package"
      <4>1. o.message = j.held.message_1
        BY <2>2, <3>1 DEF Data, Package
      <4>2. j.held.message_1.stage = HOST_COMMIT
        BY <1>1 DEF GoodJob, Transcript, CommitMessage
      <4> QED
        BY <4>1, <4>2 DEF HOST_COMMIT, HOST_REVEAL
    <3>2. CASE j.pc = "accept_package"
      <4>1. o.message = j.held.message_3
        BY <2>2, <3>2 DEF Data, Package
      <4>2. j.held.phase # "COMMITMENTS_CREATED"
        BY <1>1, <3>2 DEF GoodJob, RevealPcs
      <4>3. KeepsReveal(j.held, disk'[StateFile(j.dir)])
        BY <1>9, <3>2
      <4> QED
        BY <1>1, <1>8, <4>1, <4>2, <4>3 DEF KeepsReveal, Exists
    <3>3. CASE j.pc = "complete_signed"
      BY <2>2, <3>3 DEF Data, SignedPsbt
    <3>4. CASE j.pc = "complete_receipt"
      BY <2>2, <3>4 DEF Data, Receipt
    <3> QED
      BY <2>2, <3>1, <3>2, <3>3, <3>4 DEF OutputPcs
  <2> QED
    BY <1>2, <2>1, <2>2
<1> QED
  BY <1>10, <1>11, <1>12 DEF SequentialInv

LEMMA SequentialStep == Sequential /\ SequentialInv /\ [Next]_vars => SequentialInv'
<1> SUFFICES ASSUME Sequential, SequentialInv, [Next]_vars
             PROVE  SequentialInv'
  OBVIOUS
<1>1. Inv'
  BY InvStep DEF SequentialInv
<1>2. CASE UNCHANGED vars
  BY <1>1, <1>2 DEF vars, SequentialInv, HeldInv, OneDirectory, RevealOnDisk, Disclosed, Exists
<1>3. ASSUME NEW p \in Proc, StorageStep(p)
      PROVE  SequentialInv'
  BY <1>1, <1>3, SequentialReplace, HoldsTests, QuietStep
     DEF StorageStep, FindAbsent, FindSame, FindConflict
<1>4. ASSUME NEW p \in Proc, Command(p) \/ Crash(p)
      PROVE  SequentialInv'
  <2>1. UNCHANGED <<disk, shown>>
    BY <1>4 DEF Command, Crash, HostInitV1, LoadState, HostAcceptOpeningsV1, LoadOriginal,
                HostCompleteV1, RefuseInput
  <2>2. \E j : Holds(j) /\ job' = [job EXCEPT ![p] = j]
    BY <1>4, HoldsInit, HoldsLoad, HoldsAccept, HoldsComplete, HoldsTests DEF Command
  <2> QED
    BY <1>1, <2>1, <2>2, QuietStep
<1>5. ASSUME NEW d \in Dir, DamageOriginal(d)
      PROVE  SequentialInv'
  BY <1>1, <1>5, SequentialDamage
<1> QED
  BY <1>2, <1>3, <1>4, <1>5 DEF Next

LEMMA SequentialHolds ==
    ASSUME Sequential
    PROVE  Spec => []SequentialInv
<1>1. Init => SequentialInv
  BY SequentialInit
<1>2. SequentialInv /\ [Next]_vars => SequentialInv'
  BY SequentialStep
<1> QED
  BY <1>1, <1>2, PTL DEF Spec

\* OneReveal: when the commands run one at a time, crashes and retries included, a
\* session's rhos are revealed for one opening set only (the RETRY_CONFLICT checks of
\* host_accept_openings_v1).
THEOREM RevealedOnce ==
    ASSUME Sequential
    PROVE  Spec => []OneReveal
<1>1. ASSUME SequentialInv
      PROVE  OneReveal
  <2> SUFFICES ASSUME NEW m \in Disclosed(HOST_REVEAL), NEW n \in Disclosed(HOST_REVEAL),
                      m.session = n.session
               PROVE  m = n
    BY DEF OneReveal
  <2>1. PICK d \in Dir : /\ Exists(StateFile(d))
                         /\ disk[StateFile(d)].phase # "COMMITMENTS_CREATED"
                         /\ disk[StateFile(d)].message_3 = m
    BY <1>1 DEF SequentialInv, RevealOnDisk
  <2>2. PICK e \in Dir : /\ Exists(StateFile(e))
                         /\ disk[StateFile(e)].phase # "COMMITMENTS_CREATED"
                         /\ disk[StateFile(e)].message_3 = n
    BY <1>1 DEF SequentialInv, RevealOnDisk
  <2>3. Transcript(disk[StateFile(d)]) /\ Transcript(disk[StateFile(e)])
    BY <1>1, <2>1, <2>2 DEF SequentialInv, Inv, StoreInv
  <2>4. disk[StateFile(d)].session = disk[StateFile(e)].session
    BY <2>1, <2>2, <2>3, RevealOfTranscript
  <2>5. d = e
    BY <1>1, <2>1, <2>2, <2>4 DEF SequentialInv, OneDirectory
  <2> QED
    BY <2>1, <2>2, <2>5
<1> QED
  BY <1>1, SequentialHolds, PTL

\* PersistBeforeReveal: what was revealed is in the session's state file (save_state
\* before write_exact in host_accept_openings_v1).
THEOREM RevealedFromDisk ==
    ASSUME Sequential
    PROVE  Spec => []PersistBeforeReveal
<1>1. SequentialInv => PersistBeforeReveal
  BY DEF SequentialInv, RevealOnDisk, PersistBeforeReveal, States, Exists
<1> QED
  BY <1>1, SequentialHolds, PTL

-----------------------------------------------------------------------------
(***************************************************************************)
(* What is signed.  For any number of processes.                           *)
(***************************************************************************)

\* CommitInv, of one process.
Commits(j) ==
    j.pc # "idle" =>
        /\ j.held.phase # "COMMITMENTS_CREATED" => j.held.message_1 \in Disclosed(HOST_COMMIT)
        /\ j.pc \in CompletePcs => j.held.phase = "COMPLETE"

\* The step of a process that writes nothing keeps SignedInv if its new job commits.
LEMMA SignedQuietStep ==
    ASSUME SignedInv, NEW p \in Proc, NEW j, Commits(j),
           job' = [job EXCEPT ![p] = j], UNCHANGED <<disk, shown>>, Inv'
    PROVE  SignedInv'
<1>1. DOMAIN job = Proc /\ Disclosed(HOST_COMMIT)' = Disclosed(HOST_COMMIT)
  BY DEF SignedInv, Inv, JobInv, Disclosed
<1>2. ASSUME NEW q \in Proc PROVE Commits(job[q]) /\ job'[q] = IF q = p THEN j ELSE job[q]
  BY <1>1 DEF SignedInv, CommitInv, Commits
<1>3. CommitInv'
  BY <1>1, <1>2 DEF SignedInv, CommitInv, Commits, Exists
<1>4. SignedTweaked'
  BY <1>1 DEF SignedInv, SignedTweaked, Signed
<1> QED
  BY <1>3, <1>4 DEF SignedInv

LEMMA SignedInit == Init => SignedInv
BY InitInv DEF Init, SignedInv, CommitInv, SignedTweaked, Signed, Disclosed, Exists, Idle

\* Any step that leaves disk and shown alone.
LEMMA CommitsTests ==
    ASSUME SignedInv, NEW p \in Proc,
           FindAbsent(p) \/ FindSame(p) \/ FindConflict(p) \/ LoadOriginal(p)
             \/ RefuseInput(p) \/ Crash(p)
    PROVE  \E j : Commits(j) /\ job' = [job EXCEPT ![p] = j]
<1>1. Commits(job[p]) /\ Commits(Idle)
  BY DEF SignedInv, CommitInv, Commits, Idle
<1>2. CASE FindAbsent(p)
  <2> DEFINE r == Resume(p, job[p].pc, job[p].held)
             j == [r EXCEPT !.clear = TRUE]
  <2>1. j.pc = job[p].pc /\ j.held = job[p].held
    BY DEF Resume, Job
  <2>2. Commits(j)
    <3> HIDE DEF j
    <3> QED
      BY <1>1, <2>1 DEF Commits
  <2>3. job' = [job EXCEPT ![p] = j]
    BY <1>2 DEF FindAbsent
  <2> QED
    BY <2>2, <2>3
<1>3. CASE Exit(p)
  BY <1>1, <1>3 DEF Exit
<1>4. CASE /\ Advance(p)
           /\ job[p].pc \in ExactPcs \union {"accept_original"}
  <2> DEFINE r == Resume(p, NextPc(job[p].pc), job[p].held)
  <2>1. r.pc = NextPc(job[p].pc) /\ r.held = job[p].held
    BY DEF Resume, Job
  <2>2. /\ NextPc(job[p].pc) \in CompletePcs => job[p].pc \in CompletePcs
        /\ job[p].pc # "idle"
    BY <1>4 DEF NextPc, ExactPcs, CompletePcs
  <2>3. Commits(r)
    <3> HIDE DEF r
    <3> QED
      BY <1>1, <2>1, <2>2 DEF Commits
  <2> QED
    BY <1>1, <1>4, <2>3 DEF Advance, Exit
<1> QED
  BY <1>2, <1>3, <1>4 DEF FindSame, FindConflict, LoadOriginal, RefuseInput, Crash

LEMMA CommitsInit ==
    ASSUME SignedInv, NEW p \in Proc, HostInitV1(p)
    PROVE  \E j : Commits(j) /\ job' = [job EXCEPT ![p] = j]
<1>1. PICK d \in Dir, network \in Network, session \in Session \ drawn, psbt \in Psbt,
           path \in OutPath["package1"] :
          job' = [job EXCEPT ![p] =
                     Job("init_state", d, InitialState(network, session, psbt), path, path)]
  BY DEF HostInitV1
<1> DEFINE j == Job("init_state", d, InitialState(network, session, psbt), path, path)
<1>2. j.pc = "init_state" /\ j.held.phase = "COMMITMENTS_CREATED"
  BY DEF Job, InitialState
<1>3. Commits(j)
  <2> HIDE DEF j
  <2> QED
    BY <1>2 DEF Commits, CompletePcs
<1> QED
  BY <1>1, <1>3

LEMMA CommitsLoad ==
    ASSUME SignedInv, NEW p \in Proc, NEW d \in Dir, NEW command \in {"accept", "complete"},
           LoadState(p, d, command)
    PROVE  \E j : Commits(j) /\ job' = [job EXCEPT ![p] = j]
<1>1. PICK path \in OutPath[IF command = "accept" THEN "package3" ELSE "signed"],
           receipt \in OutPath["receipt"] :
          job' = [job EXCEPT ![p] = Job(command, d, disk[StateFile(d)], path,
                                        IF command = "accept" THEN path ELSE receipt)]
  BY DEF LoadState
<1> DEFINE j == Job(command, d, disk[StateFile(d)], path,
                    IF command = "accept" THEN path ELSE receipt)
<1>2. j.pc = command /\ j.held = disk[StateFile(d)]
  BY DEF Job
<1>3. Exists(StateFile(d))
  BY DEF LoadState
<1>4. Commits(j)
  <2> HIDE DEF j
  <2> QED
    BY <1>2, <1>3 DEF Commits, SignedInv, CommitInv, CompletePcs
<1> QED
  BY <1>1, <1>4

\* Openings that a session accepts answer a message 1 that was shown, and that
\* message is the session's own.
LEMMA AcceptedCommitShown ==
    ASSUME SignedInv, NEW s, Transcript(s), NEW m \in SignerAnswers, OpeningsAccepted(s, m)
    PROVE  s.message_1 \in Disclosed(HOST_COMMIT)
<1>1. m.stage = SIGNER_OPENINGS /\ ValidTransition(s.message_1, m) /\ StateContext(s, m)
  BY DEF OpeningsAccepted
<1>2. CASE \E r \in Disclosed(HOST_REVEAL) : m \in SignaturesFrom(r)
  <2>1. PICK r \in Disclosed(HOST_REVEAL) : m \in SignaturesFrom(r)
    BY <1>2
  <2>2. PICK v : m = SignaturesMessage(r, v)
    BY <2>1 DEF SignaturesFrom
  <2>3. m.stage = r.stage \/ m.stage = SIGNER_SIGNATURES
    BY <2>2 DEF SignaturesMessage
  <2>4. r.stage = HOST_REVEAL
    BY DEF Disclosed
  <2> QED
    BY <1>1, <2>3, <2>4 DEF SIGNER_OPENINGS, HOST_REVEAL, SIGNER_SIGNATURES
<1>3. CASE \E c \in Disclosed(HOST_COMMIT) : m \in OpeningsFrom(c)
  <2>1. PICK c \in Disclosed(HOST_COMMIT) : m \in OpeningsFrom(c)
    BY <1>3
  <2>2. PICK v : m = OpeningsMessage(c, v)
    BY <2>1 DEF OpeningsFrom
  <2>3. c = CommitMessage(c.network, c.session, c.psbt, Rhos(c.session, c.psbt))
    BY <2>1 DEF SignedInv, CommitInv
  <2>4. m.network = c.network /\ m.session = c.session /\ m.psbt = c.psbt
    <3> DEFINE M == CommitMessage(c.network, c.session, c.psbt, Rhos(c.session, c.psbt))
    <3>1. /\ OpeningsMessage(M, v).network = M.network
          /\ OpeningsMessage(M, v).session = M.session
          /\ OpeningsMessage(M, v).psbt = M.psbt
      BY DEF OpeningsMessage, CommitMessage
    <3> HIDE DEF M
    <3> QED
      BY <2>2, <2>3, <3>1 DEF M
  <2>5. c.network = s.network /\ c.session = s.session /\ c.psbt = s.psbt
    BY <1>1, <2>4 DEF StateContext
  <2> QED
    BY <2>1, <2>3, <2>5 DEF Transcript
<1> QED
  BY <1>2, <1>3 DEF SignerAnswers

LEMMA CommitsAccept ==
    ASSUME SignedInv, NEW p \in Proc, HostAcceptOpeningsV1(p)
    PROVE  \E j : Commits(j) /\ job' = [job EXCEPT ![p] = j]
<1> DEFINE held == job[p].held
           next(m) == [held EXCEPT
                        !.phase = IF @ = "COMMITMENTS_CREATED" THEN "OPENINGS_ACCEPTED" ELSE @,
                        !.message_2 = m,
                        !.message_3 = RevealFor(held, m)]
<1>1. PICK m \in SignerAnswers :
          /\ OpeningsAccepted(held, m)
          /\ job' = [job EXCEPT ![p] = Resume(p, "accept_state", next(m))]
  BY DEF HostAcceptOpeningsV1
<1>2. Transcript(held)
  BY DEF SignedInv, Inv, JobInv, GoodJob, HostAcceptOpeningsV1
<1>3. held.message_1 \in Disclosed(HOST_COMMIT)
  BY <1>1, <1>2, AcceptedCommitShown
<1>4. next(m).message_1 = held.message_1
  BY <1>2 DEF Transcript, StateFields
<1> HIDE DEF next
<1> DEFINE j == Resume(p, "accept_state", next(m))
<1>5. j.pc = "accept_state" /\ j.held = next(m)
  BY DEF Resume, Job
<1>6. Commits(j)
  <2> HIDE DEF j
  <2> QED
    BY <1>3, <1>4, <1>5 DEF Commits, CompletePcs
<1> QED
  BY <1>1, <1>6

LEMMA CommitsComplete ==
    ASSUME SignedInv, NEW p \in Proc, HostCompleteV1(p)
    PROVE  \E j : Commits(j) /\ job' = [job EXCEPT ![p] = j]
<1> DEFINE held == job[p].held
           next(m) == [held EXCEPT !.phase = "COMPLETE", !.message_4 = m]
<1>1. PICK m \in SignerAnswers :
          /\ SignaturesAccepted(held, job[p].dir, m)
          /\ job' = [job EXCEPT ![p] = Resume(p, "complete_signed", next(m))]
  BY DEF HostCompleteV1
<1>2. Transcript(held) /\ Commits(job[p]) /\ job[p].pc # "idle"
  BY DEF SignedInv, Inv, JobInv, GoodJob, CommitInv, Commits, HostCompleteV1
<1>3. held.phase # "COMMITMENTS_CREATED"
  BY <1>1 DEF SignaturesAccepted
<1>4. next(m).message_1 = held.message_1 /\ next(m).phase = "COMPLETE"
  BY <1>2 DEF Transcript, StateFields
<1> HIDE DEF next
<1> DEFINE j == Resume(p, "complete_signed", next(m))
<1>5. j.held = next(m)
  BY DEF Resume, Job
<1>6. Commits(j)
  <2> HIDE DEF j
  <2> QED
    BY <1>2, <1>3, <1>4, <1>5 DEF Commits
<1> QED
  BY <1>1, <1>6

LEMMA SignedDamage ==
    ASSUME SignedInv, NEW d \in Dir, DamageOriginal(d), Inv'
    PROVE  SignedInv'
<1>1. /\ \A e \in Dir : Exists(StateFile(e))' <=> Exists(StateFile(e))
      /\ \A e \in Dir : Exists(StateFile(e)) => disk'[StateFile(e)] = disk[StateFile(e)]
      /\ UNCHANGED <<job, shown>>
  BY DEF DamageOriginal, Written, Exists, StateFile, OriginalFile
<1>2. CommitInv'
  BY <1>1 DEF SignedInv, CommitInv, Disclosed
<1>3. SignedTweaked'
  BY <1>1 DEF SignedInv, SignedTweaked, Signed, Disclosed
<1> QED
  BY <1>2, <1>3 DEF SignedInv

\* Output o signs message 1 c, slot by slot (the matrix of SignedTweaked).
SignsFor(o, c) ==
    /\ o.psbt = c.psbt
    /\ DOMAIN o.partial_sigs = DOMAIN c.slots
    /\ \A i \in DOMAIN c.slots :
          /\ o.partial_sigs[i].key = KeyOf(i)
          /\ o.partial_sigs[i].hash = c.slots[i].hash
          /\ HostCommit(o.partial_sigs[i].rho) = c.slots[i].commitment

\* A complete transcript whose message 1 was shown is signed as promised.
LEMMA SignedTranscript ==
    ASSUME NEW s, Transcript(s), s.phase = "COMPLETE",
           NEW o, o = SignedPsbt(s.psbt, s.message_4)
    PROVE  SignsFor(o, s.message_1)
<1> DEFINE c == s.message_1
           ids == DOMAIN s.rhos
<1>1. /\ c.psbt = s.psbt /\ DOMAIN c.slots = ids
      /\ \A i \in ids : c.slots[i].commitment = HostCommit(s.rhos[i])
  <2>1. c = CommitMessage(s.network, s.session, s.psbt, s.rhos)
    BY DEF Transcript
  <2> HIDE DEF c
  <2>2. c.psbt = s.psbt /\ DOMAIN c.slots = ids
    BY <2>1 DEF CommitMessage
  <2>3. ASSUME NEW i \in ids
        PROVE  c.slots[i].commitment = HostCommit(s.rhos[i])
    BY <2>1 DEF CommitMessage
  <2> QED
    BY <2>2, <2>3
<1>2. /\ DOMAIN s.message_2.slots = ids
      /\ \A i \in ids : s.message_2.slots[i].hash = c.slots[i].hash
  BY <1>1 DEF Transcript, ValidTransition, SlotTransition
<1>3. /\ DOMAIN s.message_3.slots = ids
      /\ \A i \in ids : s.message_3.slots[i].hash = c.slots[i].hash
  BY <1>2 DEF Transcript, ValidTransition, SlotTransition
<1>4. /\ DOMAIN s.message_4.slots = ids
      /\ \A i \in ids : s.message_4.slots[i].hash = c.slots[i].hash
  BY <1>3 DEF Transcript, ValidTransition, SlotTransition
<1>5. o.psbt = s.psbt /\ o.partial_sigs = [i \in ids |-> s.message_4.slots[i].signature]
  BY <1>4 DEF SignedPsbt
<1>6. ASSUME NEW i \in ids
      PROVE  o.partial_sigs[i] = AntiExfilSignature(KeyOf(i), c.slots[i].hash, s.rhos[i],
                                                    s.message_4.slots[i].opening)
  <2> DEFINE m == s.message_4
  <2>1. m.slots[i].signature = AntiExfilSignature(KeyOf(i), m.slots[i].hash, s.rhos[i],
                                                  m.slots[i].opening)
    BY <1>4 DEF Transcript, VerifiedSlots, VerifyAntiExfil
  <2>2. m.slots[i].hash = c.slots[i].hash
    BY <1>4
  <2>3. o.partial_sigs[i] = m.slots[i].signature
    BY <1>5
  <2> QED
    BY <2>1, <2>2, <2>3
<1>7. \A i \in ids : /\ o.partial_sigs[i].key = KeyOf(i)
                     /\ o.partial_sigs[i].hash = c.slots[i].hash
                     /\ o.partial_sigs[i].rho = s.rhos[i]
  <2> SUFFICES ASSUME NEW i \in ids
               PROVE  /\ o.partial_sigs[i].key = KeyOf(i)
                      /\ o.partial_sigs[i].hash = c.slots[i].hash
                      /\ o.partial_sigs[i].rho = s.rhos[i]
    OBVIOUS
  <2> DEFINE g == AntiExfilSignature(KeyOf(i), c.slots[i].hash, s.rhos[i],
                                     s.message_4.slots[i].opening)
  <2>1. g.key = KeyOf(i) /\ g.hash = c.slots[i].hash /\ g.rho = s.rhos[i]
    BY DEF AntiExfilSignature
  <2>2. o.partial_sigs[i] = g
    BY <1>6
  <2> HIDE DEF g
  <2> QED
    BY <2>1, <2>2
<1>8. o.psbt = c.psbt /\ DOMAIN o.partial_sigs = DOMAIN c.slots
  BY <1>1, <1>5
<1>9. ASSUME NEW i \in DOMAIN c.slots
      PROVE  /\ o.partial_sigs[i].key = KeyOf(i)
             /\ o.partial_sigs[i].hash = c.slots[i].hash
             /\ HostCommit(o.partial_sigs[i].rho) = c.slots[i].commitment
  BY <1>1, <1>7, <1>9
<1> QED
  BY <1>8, <1>9 DEF SignsFor

\* A durable write shows message 1 of its own session, or a signed PSBT whose session
\* showed its message 1 before.
LEMMA SignedReplace ==
    ASSUME SignedInv, NEW p \in Proc, AtomicReplace(p), Inv'
    PROVE  SignedInv'
<1> DEFINE j == job[p]
<1>1. /\ j.pc # "idle" /\ Transcript(j.held) /\ Commits(j) /\ j.dir \in Dir
      /\ DOMAIN job = Proc
  BY DEF AtomicReplace, SignedInv, Inv, JobInv, GoodJob, CommitInv, Commits, ExactPcs, SavePcs
<1>2. /\ disk' = [f \in DOMAIN disk \union {Target(j)} |->
                     IF f = Target(j) THEN Data(j) ELSE disk[f]]
      /\ shown' = IF j.pc \in OutputPcs THEN shown \union {Data(j)} ELSE shown
      /\ Advance(p)
      /\ j.pc \in SavePcs \union ExactPcs \union {"init_state"}
  BY DEF AtomicReplace, Written
<1>3. /\ shown \subseteq shown'
      /\ \A m \in Disclosed(HOST_COMMIT) : m \in Disclosed(HOST_COMMIT)'
  BY <1>2 DEF Disclosed
<1>4. ASSUME NEW m \in Disclosed(HOST_COMMIT)'
      PROVE  m \in Disclosed(HOST_COMMIT) \/ m = j.held.message_1
  <2>1. PICK o \in shown' : o.kind = "package" /\ o.message = m /\ m.stage = HOST_COMMIT
    BY <1>4 DEF Disclosed
  <2>2. CASE o \in shown
    BY <2>1, <2>2 DEF Disclosed
  <2>3. CASE j.pc \in OutputPcs /\ o = Data(j)
    <3>1. CASE j.pc = "init_package"
      BY <2>1, <2>3, <3>1 DEF Data, Package
    <3>2. CASE j.pc = "accept_package"
      <4>1. j.held.phase # "COMMITMENTS_CREATED"
        BY <3>2 DEF SignedInv, Inv, JobInv, GoodJob, RevealPcs
      <4>2. j.held.message_3.stage = HOST_REVEAL
        BY <1>1, <4>1, RevealOfTranscript
      <4>3. m = j.held.message_3
        BY <2>1, <2>3, <3>2 DEF Data, Package
      <4> QED
        BY <2>1, <4>2, <4>3 DEF HOST_COMMIT, HOST_REVEAL
    <3>3. CASE j.pc = "complete_signed"
      BY <2>1, <2>3, <3>3 DEF Data, SignedPsbt
    <3>4. CASE j.pc = "complete_receipt"
      BY <2>1, <2>3, <3>4 DEF Data, Receipt
    <3> QED
      BY <2>3, <3>1, <3>2, <3>3, <3>4 DEF OutputPcs
  <2> QED
    BY <1>2, <2>1, <2>2, <2>3
<1>5. \A m \in Disclosed(HOST_COMMIT)' :
          m = CommitMessage(m.network, m.session, m.psbt, Rhos(m.session, m.psbt))
  <2> DEFINE c == j.held.message_1
  <2>1. c = CommitMessage(j.held.network, j.held.session, j.held.psbt,
                          Rhos(j.held.session, j.held.psbt))
    BY <1>1 DEF Transcript
  <2>2. c.network = j.held.network /\ c.session = j.held.session /\ c.psbt = j.held.psbt
    BY <2>1 DEF CommitMessage
  <2>3. c = CommitMessage(c.network, c.session, c.psbt, Rhos(c.session, c.psbt))
    BY <2>1, <2>2
  <2> QED
    BY <1>4, <2>3 DEF SignedInv, CommitInv
<1>6. ASSUME NEW d \in Dir, StateFile(d) \in DOMAIN disk',
             disk'[StateFile(d)].phase # "COMMITMENTS_CREATED"
      PROVE  disk'[StateFile(d)].message_1 \in Disclosed(HOST_COMMIT)'
  <2>1. CASE Target(j) = StateFile(d)
    <3>1. Data(j) = j.held
      BY <2>1, <1>2 DEF Target, Data, StateFile, OriginalFile, Message1File, OutFile,
                        ExactPcs, SavePcs
    <3> QED
      BY <1>1, <1>2, <1>3, <1>6, <2>1, <3>1 DEF Commits
  <2>2. CASE Target(j) # StateFile(d)
    <3>1. StateFile(d) \in DOMAIN disk /\ disk'[StateFile(d)] = disk[StateFile(d)]
      BY <1>2, <1>6, <2>2
    <3> QED
      BY <1>3, <1>6, <3>1 DEF SignedInv, CommitInv, Exists
  <2> QED
    BY <2>1, <2>2
<1>7. ASSUME NEW q \in Proc, job'[q].pc # "idle"
      PROVE  /\ job'[q].held.phase # "COMMITMENTS_CREATED" =>
                    job'[q].held.message_1 \in Disclosed(HOST_COMMIT)'
             /\ job'[q].pc \in CompletePcs => job'[q].held.phase = "COMPLETE"
  <2>1. CASE q # p
    <3>1. job'[q] = job[q]
      BY <1>1, <1>2, <2>1 DEF Advance, Exit
    <3> QED
      BY <1>3, <1>7, <3>1 DEF SignedInv, CommitInv
  <2>2. CASE q = p
    <3> DEFINE r == Resume(p, NextPc(j.pc), j.held)
    <3>1. job' = [job EXCEPT ![p] = r]
      BY <1>1, <1>2, <1>7, <2>2 DEF Advance, Exit, Idle
    <3>2. r.pc = NextPc(j.pc) /\ r.held = j.held
      BY DEF Resume, Job
    <3>3. NextPc(j.pc) \in CompletePcs => j.pc \in CompletePcs
      BY <1>2 DEF NextPc, ExactPcs, SavePcs, CompletePcs
    <3> HIDE DEF r
    <3>4. job'[q] = r
      BY <1>1, <2>2, <3>1
    <3> QED
      BY <1>1, <1>3, <3>2, <3>3, <3>4 DEF Commits
  <2> QED
    BY <2>1, <2>2
<1>8. CommitInv'
  BY <1>5, <1>6, <1>7 DEF CommitInv, Exists
<1>9. SignedTweaked'
  <2> SUFFICES ASSUME NEW o \in shown', o.kind = "signed"
               PROVE  \E c \in Disclosed(HOST_COMMIT)' : SignsFor(o, c)
    BY DEF SignedTweaked, Signed, SignsFor
  <2>1. CASE o \in shown
    BY <1>3, <2>1 DEF SignedInv, SignedTweaked, Signed, SignsFor
  <2>2. CASE j.pc \in OutputPcs /\ o = Data(j)
    <3>1. j.pc = "complete_signed"
      <4>1. Package(j.held.message_1, j.held.psbt).kind = "package"
        BY DEF Package
      <4>2. Package(j.held.message_3, j.held.psbt).kind = "package"
        BY DEF Package
      <4>3. Receipt(j.held).kind = "receipt"
        BY DEF Receipt
      <4> QED
        BY <2>2, <4>1, <4>2, <4>3 DEF OutputPcs, Data
    <3>2. o = SignedPsbt(j.held.psbt, j.held.message_4)
      BY <2>2, <3>1 DEF Data
    <3>3. j.held.phase = "COMPLETE" /\ j.held.message_1 \in Disclosed(HOST_COMMIT)
      BY <1>1, <3>1 DEF Commits, CompletePcs
    <3>4. SignsFor(o, j.held.message_1)
      BY <1>1, <3>2, <3>3, SignedTranscript
    <3> QED
      BY <1>3, <3>3, <3>4
  <2> QED
    BY <1>2, <2>1, <2>2
<1> QED
  BY <1>8, <1>9 DEF SignedInv

LEMMA SignedStep == SignedInv /\ [Next]_vars => SignedInv'
<1> SUFFICES ASSUME SignedInv, [Next]_vars
             PROVE  SignedInv'
  OBVIOUS
<1>1. Inv'
  BY InvStep DEF SignedInv
<1>2. CASE UNCHANGED vars
  BY <1>1, <1>2 DEF vars, SignedInv, CommitInv, SignedTweaked, Signed, Disclosed, Exists
<1>3. ASSUME NEW p \in Proc, StorageStep(p)
      PROVE  SignedInv'
  BY <1>1, <1>3, SignedReplace, CommitsTests, SignedQuietStep
     DEF StorageStep, FindAbsent, FindSame, FindConflict
<1>4. ASSUME NEW p \in Proc, Command(p) \/ Crash(p)
      PROVE  SignedInv'
  <2>1. UNCHANGED <<disk, shown>>
    BY <1>4 DEF Command, Crash, HostInitV1, LoadState, HostAcceptOpeningsV1, LoadOriginal,
                HostCompleteV1, RefuseInput
  <2>2. \E j : Commits(j) /\ job' = [job EXCEPT ![p] = j]
    BY <1>4, CommitsInit, CommitsLoad, CommitsAccept, CommitsComplete, CommitsTests DEF Command
  <2> QED
    BY <1>1, <2>1, <2>2, SignedQuietStep
<1>5. ASSUME NEW d \in Dir, DamageOriginal(d)
      PROVE  SignedInv'
  BY <1>1, <1>5, SignedDamage
<1> QED
  BY <1>2, <1>3, <1>4, <1>5 DEF Next

\* SignedTweaked: whatever races, crashes, retries, damaged originals and answers of
\* signers there are, host_complete_v1 writes signatures for exactly the slots of a
\* shown message 1, each over that slot's hash and tweaked by the committed rho.
THEOREM SignaturesTweaked == Spec => []SignedTweaked
<1>1. Init => SignedInv
  BY SignedInit
<1>2. SignedInv /\ [Next]_vars => SignedInv'
  BY SignedStep
<1>3. SignedInv => SignedTweaked
  BY DEF SignedInv
<1> QED
  BY <1>1, <1>2, <1>3, PTL DEF Spec
-----------------------------------------------------------------------------
(***************************************************************************)
(* One command at a time.  The inductive invariant: what links the state   *)
(* in a process's memory, the state on disk and the outputs.               *)
(***************************************************************************)

\* State t continues state s of the same session: nothing of a completed session is lost.
Continues(s, t) ==
    /\ t.message_1 = s.message_1
    /\ s.phase = "COMPLETE" => t.phase = "COMPLETE" /\ t.message_4 = s.message_4

\* A signed PSBT of this state is in an output file.
SignedStored(s) == SignedPsbt(s.psbt, s.message_4) \in Outputs

\* A reveal is made of an accepted message 2, which has the fields of a shown message 1.
HasSession(s) == s.phase # "COMMITMENTS_CREATED" => "session" \in DOMAIN s.message_3

Rests(j) ==
    j.pc # "idle" =>
        /\ HasSession(j.held)
        /\ j.pc # "init_state" => Continues(disk[StateFile(j.dir)], j.held)
        /\ j.pc \in {"init_message1", "init_package"} /\ damage = 0 =>
              OriginalIs(j.dir, j.held.psbt)
        /\ j.pc \in ExactPcs /\ j.clear => ~Exists(Target(j))
        /\ j.pc \in CompletePcs => j.held.message_3 \in Disclosed(HOST_REVEAL)
        /\ j.pc # "complete_signed" /\ j.held.phase = "COMPLETE" => SignedStored(j.held)
        /\ j.pc = "complete_receipt" => disk[StateFile(j.dir)] = j.held

RestsInv ==
    /\ \A p \in Proc : Rests(job[p])
    /\ \A d \in Dir : Exists(StateFile(d)) => HasSession(disk[StateFile(d)])

Promises == CommitmentDurable /\ SignedFromReveal /\ CompletionOrder

OutcomeInv == SequentialInv /\ SignedInv /\ RestsInv /\ Promises

-----------------------------------------------------------------------------
(***************************************************************************)
(* States, messages and outputs.                                           *)
(***************************************************************************)

\* The openings a session accepts have the session field of a message 1.
LEMMA OpeningsHaveSession ==
    ASSUME SignedInv, NEW s, NEW m \in SignerAnswers, OpeningsAccepted(s, m)
    PROVE  "session" \in DOMAIN m
<1>1. m.stage = SIGNER_OPENINGS
  BY DEF OpeningsAccepted
<1>2. CASE \E r \in Disclosed(HOST_REVEAL) : m \in SignaturesFrom(r)
  <2>1. PICK r \in Disclosed(HOST_REVEAL) : m \in SignaturesFrom(r)
    BY <1>2
  <2>2. PICK v : m = SignaturesMessage(r, v)
    BY <2>1 DEF SignaturesFrom
  <2>3. m.stage = r.stage \/ m.stage = SIGNER_SIGNATURES
    BY <2>2 DEF SignaturesMessage
  <2>4. r.stage = HOST_REVEAL
    BY DEF Disclosed
  <2> QED
    BY <1>1, <2>3, <2>4 DEF SIGNER_OPENINGS, HOST_REVEAL, SIGNER_SIGNATURES
<1>3. CASE \E c \in Disclosed(HOST_COMMIT) : m \in OpeningsFrom(c)
  <2>1. PICK c \in Disclosed(HOST_COMMIT) : m \in OpeningsFrom(c)
    BY <1>3
  <2>2. PICK v : m = OpeningsMessage(c, v)
    BY <2>1 DEF OpeningsFrom
  <2>3. PICK n, x, q, rhos : c = CommitMessage(n, x, q, rhos)
    BY <2>1 DEF SignedInv, CommitInv
  <2>4. "session" \in DOMAIN c
    BY <2>3 DEF CommitMessage
  <2>5. DOMAIN m = DOMAIN c
    BY <2>2 DEF OpeningsMessage
  <2> QED
    BY <2>4, <2>5
<1> QED
  BY <1>2, <1>3 DEF SignerAnswers

\* Signatures a session accepts answer a reveal that was shown, of that session.
LEMMA SignaturesAnswerReveal ==
    ASSUME OutcomeInv, NEW s, NEW d \in Dir, NEW m \in SignerAnswers, SignaturesAccepted(s, d, m)
    PROVE  \E r \in Disclosed(HOST_REVEAL) : r.session = s.session
<1>1. m.stage = SIGNER_SIGNATURES /\ m.session = s.session
  BY DEF SignaturesAccepted, StateContext
<1>2. CASE \E r \in Disclosed(HOST_REVEAL) : m \in SignaturesFrom(r)
  <2>1. PICK r \in Disclosed(HOST_REVEAL) : m \in SignaturesFrom(r)
    BY <1>2
  <2>2. PICK v : m = SignaturesMessage(r, v)
    BY <2>1 DEF SignaturesFrom
  <2>3. PICK e \in Dir : /\ Exists(StateFile(e))
                         /\ disk[StateFile(e)].phase # "COMMITMENTS_CREATED"
                         /\ disk[StateFile(e)].message_3 = r
    BY DEF OutcomeInv, SequentialInv, RevealOnDisk
  <2>4. "session" \in DOMAIN r
    BY <2>3 DEF OutcomeInv, RestsInv, HasSession
  <2>5. m.session = r.session
    BY <2>2, <2>4 DEF SignaturesMessage
  <2> QED
    BY <1>1, <2>5
<1>3. CASE \E c \in Disclosed(HOST_COMMIT) : m \in OpeningsFrom(c)
  <2>1. PICK c \in Disclosed(HOST_COMMIT) : m \in OpeningsFrom(c)
    BY <1>3
  <2>2. PICK v : m = OpeningsMessage(c, v)
    BY <2>1 DEF OpeningsFrom
  <2>3. m.stage = c.stage \/ m.stage = SIGNER_OPENINGS
    BY <2>2 DEF OpeningsMessage
  <2>4. c.stage = HOST_COMMIT
    BY DEF Disclosed
  <2> QED
    BY <1>1, <2>3, <2>4 DEF SIGNER_OPENINGS, HOST_COMMIT, SIGNER_SIGNATURES
<1> QED
  BY <1>2, <1>3 DEF SignerAnswers

\* With one directory per session, the reveal that was shown is the one the process holds.
LEMMA HeldRevealShown ==
    ASSUME OutcomeInv, NEW p \in Proc, job[p].pc = "complete", NEW m \in SignerAnswers,
           SignaturesAccepted(job[p].held, job[p].dir, m)
    PROVE  job[p].held.message_3 \in Disclosed(HOST_REVEAL)
<1> DEFINE s == job[p].held
           d == job[p].dir
<1>1. d \in Dir /\ Transcript(s)
  BY DEF OutcomeInv, SequentialInv, Inv, JobInv, GoodJob
<1>2. PICK r \in Disclosed(HOST_REVEAL) : r.session = s.session
  BY <1>1, SignaturesAnswerReveal
<1>3. PICK e \in Dir : /\ Exists(StateFile(e))
                       /\ disk[StateFile(e)].phase # "COMMITMENTS_CREATED"
                       /\ disk[StateFile(e)].message_3 = r
  BY DEF OutcomeInv, SequentialInv, RevealOnDisk
<1>4. Exists(StateFile(d)) /\ KeepsReveal(disk[StateFile(d)], s)
  BY DEF OutcomeInv, SequentialInv, HeldInv
<1>5. Transcript(disk[StateFile(e)])
  BY <1>3 DEF OutcomeInv, SequentialInv, Inv, StoreInv
<1>6. disk[StateFile(e)].session = disk[StateFile(d)].session
  BY <1>2, <1>3, <1>4, <1>5, RevealOfTranscript DEF KeepsReveal
<1>7. e = d
  BY <1>1, <1>3, <1>4, <1>6 DEF OutcomeInv, SequentialInv, OneDirectory
<1> QED
  BY <1>2, <1>3, <1>4, <1>7 DEF KeepsReveal

\* The context of a transcript is that of its message 1, and its messages repeat it.
LEMMA ContextOfTranscript ==
    ASSUME NEW s, Transcript(s)
    PROVE  /\ s.message_1.network = s.network
           /\ s.message_1.session = s.session
           /\ s.message_1.psbt = s.psbt
           /\ s.phase # "COMMITMENTS_CREATED" => s.message_3.psbt = s.psbt
<1>1. /\ s.message_1.network = s.network
      /\ s.message_1.session = s.session
      /\ s.message_1.psbt = s.psbt
  BY DEF Transcript, CommitMessage
<1>2. ASSUME s.phase # "COMMITMENTS_CREATED"
      PROVE  s.message_3.psbt = s.psbt
  BY <1>1, <1>2 DEF Transcript, ValidTransition
<1> QED
  BY <1>1, <1>2

\* The receipt of a completed state is the receipt of every state that continues it.
LEMMA ReceiptKept ==
    ASSUME NEW s, NEW t, Transcript(s), Transcript(t), Continues(s, t), s.phase = "COMPLETE"
    PROVE  /\ t.phase = "COMPLETE"
           /\ t.psbt = s.psbt /\ t.message_4 = s.message_4
           /\ Receipt(t) = Receipt(s)
<1>1. t.network = s.network /\ t.session = s.session /\ t.psbt = s.psbt
  BY ContextOfTranscript DEF Continues
<1>2. t.phase = "COMPLETE" /\ t.message_4 = s.message_4
  BY DEF Continues
<1> QED
  BY <1>1, <1>2 DEF Receipt

\* A complete transcript is signed with its reveal: the matrix of SignedFromReveal.
LEMMA SignedWithReveal ==
    ASSUME NEW s, Transcript(s), s.phase = "COMPLETE",
           NEW o, o = SignedPsbt(s.psbt, s.message_4),
           NEW m, m = s.message_3
    PROVE  /\ o.psbt = m.psbt
           /\ o.partial_sigs = [i \in DOMAIN m.slots |->
                 AntiExfilSignature(KeyOf(i), m.slots[i].hash, m.slots[i].rho,
                                    m.slots[i].opening)]
<1> DEFINE n == s.message_4
           ids == DOMAIN m.slots
<1>1. o.psbt = s.psbt /\ o.partial_sigs = [i \in DOMAIN n.slots |-> n.slots[i].signature]
  BY DEF SignedPsbt
<1>2. m.psbt = s.psbt
  BY ContextOfTranscript
<1>3. m = RevealFor(s, s.message_2) /\ ValidTransition(s.message_2, m)
      /\ ValidTransition(m, n) /\ VerifiedSlots(n, s.rhos)
  BY DEF Transcript
<1>4. m.stage = HOST_REVEAL
  BY RevealOfTranscript
<1>5. /\ DOMAIN n.slots = ids
      /\ \A i \in ids : n.slots[i].hash = m.slots[i].hash
                        /\ n.slots[i].opening = m.slots[i].opening
  BY <1>3, <1>4 DEF ValidTransition, SlotTransition, HOST_REVEAL, SIGNER_OPENINGS
<1>6. \A i \in ids : m.slots[i].rho = s.rhos[i]
  <2> SUFFICES ASSUME NEW i \in ids
               PROVE  m.slots[i].rho = s.rhos[i]
    OBVIOUS
  <2>1. /\ s.rhos = Rhos(s.session, s.psbt)
        /\ s.message_1 = CommitMessage(s.network, s.session, s.psbt, s.rhos)
        /\ ValidTransition(s.message_1, s.message_2)
    BY DEF Transcript
  <2>2. HostCommit(m.slots[i].rho) = m.slots[i].commitment
    BY <1>3, <1>4 DEF ValidTransition, RevealsCommitment
  <2>3. /\ DOMAIN s.message_1.slots = ids
        /\ m.slots[i].commitment = s.message_1.slots[i].commitment
    BY <1>3, <2>1 DEF ValidTransition, SlotTransition
  <2>4. s.message_1.slots[i].commitment = HostCommit(s.rhos[i])
    <3> DEFINE c == CommitMessage(s.network, s.session, s.psbt, s.rhos)
    <3>1. DOMAIN c.slots = DOMAIN s.rhos
      BY DEF CommitMessage
    <3>2. \A k \in DOMAIN s.rhos : c.slots[k].commitment = HostCommit(s.rhos[k])
      BY DEF CommitMessage
    <3> HIDE DEF c
    <3> QED
      BY <2>1, <2>3, <3>1, <3>2 DEF c
  <2> QED
    BY <2>2, <2>3, <2>4 DEF HostCommit
<1>7. \A i \in ids : n.slots[i].signature
          = AntiExfilSignature(KeyOf(i), m.slots[i].hash, m.slots[i].rho, m.slots[i].opening)
  BY <1>3, <1>5, <1>6 DEF VerifiedSlots, VerifyAntiExfil
<1> QED
  BY <1>1, <1>2, <1>5, <1>7

-----------------------------------------------------------------------------
(***************************************************************************)
(* Steps that write nothing.                                               *)
(***************************************************************************)

LEMMA OutcomeInit == Init => OutcomeInv
<1> SUFFICES ASSUME Init
             PROVE  OutcomeInv
  OBVIOUS
<1>1. SequentialInv /\ SignedInv
  BY SequentialInit, SignedInit
<1>2. RestsInv
  BY DEF Init, RestsInv, Rests, Idle, Exists
<1>3. Promises
  BY DEF Init, Promises, CommitmentDurable, SignedFromReveal, CompletionOrder, Disclosed,
         Signed, Receipts, States
<1> QED
  BY <1>1, <1>2, <1>3 DEF OutcomeInv

\* A step that changes one process only, to a job that rests on what is there.
LEMMA OutcomeQuietStep ==
    ASSUME OutcomeInv, NEW p \in Proc, NEW j, Rests(j), job' = [job EXCEPT ![p] = j],
           UNCHANGED <<disk, shown, damage>>, SequentialInv', SignedInv'
    PROVE  OutcomeInv'
<1>1. DOMAIN job = Proc
  BY DEF OutcomeInv, SequentialInv, Inv, JobInv
<1>2. ASSUME NEW q \in Proc
      PROVE  Rests(job[q]) /\ job'[q] = IF q = p THEN j ELSE job[q]
  BY <1>1 DEF OutcomeInv, RestsInv
<1>3. RestsInv'
  BY <1>2 DEF OutcomeInv, RestsInv, Rests, Exists, OriginalIs, Disclosed, SignedStored, Outputs
<1>4. Promises'
  <2>1. /\ \A stage : Disclosed(stage)' = Disclosed(stage)
        /\ UNCHANGED <<Signed, Receipts, States, Outputs>>
    BY DEF Disclosed, Signed, Receipts, States, Outputs
  <2>2. CommitmentDurable'
    BY <2>1 DEF OutcomeInv, Promises, CommitmentDurable, Exists, OriginalIs
  <2>3. SignedFromReveal'
    BY <2>1 DEF OutcomeInv, Promises, SignedFromReveal
  <2>4. CompletionOrder'
    BY <2>1 DEF OutcomeInv, Promises, CompletionOrder
  <2> QED
    BY <2>2, <2>3, <2>4 DEF Promises
<1> QED
  BY <1>3, <1>4 DEF OutcomeInv

\* The tests of write_exact and save_state, _load_original, and a process that ends.
LEMMA RestsTests ==
    ASSUME OutcomeInv, NEW p \in Proc,
           FindAbsent(p) \/ FindSame(p) \/ FindConflict(p) \/ LoadOriginal(p)
             \/ RefuseInput(p) \/ Crash(p)
    PROVE  \E j : Rests(j) /\ job' = [job EXCEPT ![p] = j]
<1>1. Rests(job[p]) /\ Rests(Idle)
  BY DEF OutcomeInv, RestsInv, Rests, Idle
<1>2. GoodJob(job[p], drawn)
  BY DEF OutcomeInv, SequentialInv, Inv, JobInv
<1>3. CASE FindAbsent(p)
  <2> DEFINE r == Resume(p, job[p].pc, job[p].held)
             j == [r EXCEPT !.clear = TRUE]
  <2>1. /\ j.pc = job[p].pc /\ j.dir = job[p].dir /\ j.held = job[p].held
        /\ j.path = job[p].path /\ j.receipt = job[p].receipt
    BY DEF Resume, Job
  <2>2. job[p].pc # "idle" /\ ~Exists(Target(job[p]))
    BY <1>3 DEF FindAbsent, ExactPcs
  <2>3. Rests(j)
    <3> HIDE DEF j
    <3>1. Target(j) = Target(job[p])
      BY <2>1 DEF Target
    <3> QED
      BY <1>1, <2>1, <2>2, <3>1 DEF Rests
  <2>4. job' = [job EXCEPT ![p] = j]
    BY <1>3 DEF FindAbsent
  <2> QED
    BY <2>3, <2>4
<1>4. CASE Exit(p)
  BY <1>1, <1>4 DEF Exit
<1>5. CASE Advance(p) /\ (LoadOriginal(p) \/ FindSame(p))
  <2> DEFINE r == Resume(p, NextPc(job[p].pc), job[p].held)
  <2>1. /\ r.pc = NextPc(job[p].pc) /\ r.dir = job[p].dir /\ r.held = job[p].held
        /\ r.clear = FALSE
    BY DEF Resume, Job
  <2>2. job[p].pc \in ExactPcs \union {"accept_original"}
    BY <1>5 DEF LoadOriginal, FindSame
  <2>3. /\ NextPc(job[p].pc) \notin {"idle", "init_state", "complete_signed", "complete_receipt"}
        /\ NextPc(job[p].pc) \in CompletePcs => job[p].pc = "complete_signed"
        /\ NextPc(job[p].pc) \in {"init_message1", "init_package"} =>
              job[p].pc \in {"init_original", "init_message1"}
        /\ job[p].pc \notin {"idle", "init_state"}
    BY <2>2 DEF NextPc, ExactPcs, CompletePcs
  <2>4. ASSUME job[p].pc = "init_original"
        PROVE  OriginalIs(job[p].dir, job[p].held.psbt)
    BY <1>5, <2>4 DEF FindSame, LoadOriginal, Target, Data, OriginalIs
  <2>5. ASSUME job[p].pc = "complete_signed"
        PROVE  SignedStored(job[p].held)
    <3>1. /\ Target(job[p]) = OutFile(job[p].path)
          /\ Data(job[p]) = SignedPsbt(job[p].held.psbt, job[p].held.message_4)
      BY <2>5 DEF Target, Data
    <3>2. job[p].path \in Paths
      BY <1>2, <2>5 DEF GoodJob
    <3> QED
      BY <1>5, <2>5, <3>1, <3>2 DEF FindSame, LoadOriginal, SignedStored, Outputs, Exists
  <2>6. Rests(r)
    <3> HIDE DEF r
    <3> QED
      BY <1>1, <2>1, <2>3, <2>4, <2>5 DEF Rests, CompletePcs
  <2> QED
    BY <1>1, <1>5, <2>6 DEF Advance, Exit
<1> QED
  BY <1>3, <1>4, <1>5 DEF FindSame, FindConflict, LoadOriginal, RefuseInput, Crash

LEMMA RestsInit ==
    ASSUME OutcomeInv, NEW p \in Proc, HostInitV1(p)
    PROVE  \E j : Rests(j) /\ job' = [job EXCEPT ![p] = j]
<1>1. PICK d \in Dir, network \in Network, session \in Session \ drawn, psbt \in Psbt,
           path \in OutPath["package1"] :
          job' = [job EXCEPT ![p] =
                     Job("init_state", d, InitialState(network, session, psbt), path, path)]
  BY DEF HostInitV1
<1> DEFINE j == Job("init_state", d, InitialState(network, session, psbt), path, path)
<1>2. j.pc = "init_state" /\ j.held.phase = "COMMITMENTS_CREATED"
  BY DEF Job, InitialState
<1>3. Rests(j)
  <2> HIDE DEF j
  <2> QED
    BY <1>2 DEF Rests, HasSession, CompletePcs, ExactPcs
<1> QED
  BY <1>1, <1>3

LEMMA RestsLoad ==
    ASSUME OutcomeInv, NEW p \in Proc, NEW d \in Dir, NEW command \in {"accept", "complete"},
           LoadState(p, d, command)
    PROVE  \E j : Rests(j) /\ job' = [job EXCEPT ![p] = j]
<1>1. PICK path \in OutPath[IF command = "accept" THEN "package3" ELSE "signed"],
           receipt \in OutPath["receipt"] :
          job' = [job EXCEPT ![p] = Job(command, d, disk[StateFile(d)], path,
                                        IF command = "accept" THEN path ELSE receipt)]
  BY DEF LoadState
<1> DEFINE j == Job(command, d, disk[StateFile(d)], path,
                    IF command = "accept" THEN path ELSE receipt)
<1>2. j.pc = command /\ j.dir = d /\ j.held = disk[StateFile(d)]
  BY DEF Job
<1>3. Exists(StateFile(d))
  BY DEF LoadState
<1>4. /\ HasSession(disk[StateFile(d)])
      /\ disk[StateFile(d)].phase = "COMPLETE" => SignedStored(disk[StateFile(d)])
  BY <1>3 DEF OutcomeInv, RestsInv, Promises, CompletionOrder, States, SignedStored, Exists
<1>5. Rests(j)
  <2> HIDE DEF j
  <2> QED
    BY <1>2, <1>4 DEF Rests, Continues, CompletePcs, ExactPcs
<1> QED
  BY <1>1, <1>5

LEMMA RestsAccept ==
    ASSUME OutcomeInv, NEW p \in Proc, HostAcceptOpeningsV1(p)
    PROVE  \E j : Rests(j) /\ job' = [job EXCEPT ![p] = j]
<1> DEFINE held == job[p].held
           next(m) == [held EXCEPT
                        !.phase = IF @ = "COMMITMENTS_CREATED" THEN "OPENINGS_ACCEPTED" ELSE @,
                        !.message_2 = m,
                        !.message_3 = RevealFor(held, m)]
<1>1. PICK m \in SignerAnswers :
          /\ OpeningsAccepted(held, m)
          /\ job' = [job EXCEPT ![p] = Resume(p, "accept_state", next(m))]
  BY DEF HostAcceptOpeningsV1
<1>2. Transcript(held) /\ Rests(job[p]) /\ job[p].pc = "accept"
  BY DEF OutcomeInv, SequentialInv, Inv, JobInv, GoodJob, RestsInv, HostAcceptOpeningsV1
<1>3. /\ next(m).message_1 = held.message_1 /\ next(m).message_4 = held.message_4
      /\ next(m).psbt = held.psbt /\ next(m).message_3 = RevealFor(held, m)
      /\ next(m).phase = "COMPLETE" <=> held.phase = "COMPLETE"
  BY <1>2 DEF Transcript, StateFields
<1>4. "session" \in DOMAIN RevealFor(held, m)
  <2>1. "session" \in DOMAIN m
    BY <1>1, OpeningsHaveSession DEF OutcomeInv
  <2> QED
    BY <2>1 DEF RevealFor, RevealMessage
<1> HIDE DEF next
<1> DEFINE j == Resume(p, "accept_state", next(m))
<1>5. j.pc = "accept_state" /\ j.dir = job[p].dir /\ j.held = next(m) /\ j.clear = FALSE
  BY DEF Resume, Job
<1>6. Rests(j)
  <2> HIDE DEF j
  <2> QED
    BY <1>2, <1>3, <1>4, <1>5 DEF Rests, Continues, HasSession, SignedStored, CompletePcs
<1> QED
  BY <1>1, <1>6

LEMMA RestsComplete ==
    ASSUME OutcomeInv, NEW p \in Proc, HostCompleteV1(p)
    PROVE  \E j : Rests(j) /\ job' = [job EXCEPT ![p] = j]
<1> DEFINE held == job[p].held
           next(m) == [held EXCEPT !.phase = "COMPLETE", !.message_4 = m]
<1>1. PICK m \in SignerAnswers :
          /\ SignaturesAccepted(held, job[p].dir, m)
          /\ job' = [job EXCEPT ![p] = Resume(p, "complete_signed", next(m))]
  BY DEF HostCompleteV1
<1>2. Transcript(held) /\ Rests(job[p]) /\ job[p].pc = "complete"
  BY DEF OutcomeInv, SequentialInv, Inv, JobInv, GoodJob, RestsInv, HostCompleteV1
<1>3. /\ next(m).message_1 = held.message_1 /\ next(m).message_4 = m
      /\ next(m).message_3 = held.message_3 /\ next(m).phase = "COMPLETE"
  BY <1>2 DEF Transcript, StateFields
<1>4. /\ held.phase = "COMPLETE" => held.message_4 = m
      /\ held.phase # "COMMITMENTS_CREATED"
  BY <1>1 DEF SignaturesAccepted
<1>5. held.message_3 \in Disclosed(HOST_REVEAL)
  BY <1>1, <1>2, HeldRevealShown
<1> HIDE DEF next
<1> DEFINE j == Resume(p, "complete_signed", next(m))
<1>6. /\ j.pc = "complete_signed" /\ j.dir = job[p].dir /\ j.held = next(m)
      /\ j.clear = FALSE
  BY DEF Resume, Job
<1>7. Rests(j)
  <2> HIDE DEF j
  <2> QED
    BY <1>2, <1>3, <1>4, <1>5, <1>6 DEF Rests, Continues, HasSession
<1> QED
  BY <1>1, <1>7

\* A damaged original is excused by the damage itself.
LEMMA OutcomeDamage ==
    ASSUME OutcomeInv, NEW d \in Dir, DamageOriginal(d), SequentialInv', SignedInv'
    PROVE  OutcomeInv'
<1>1. /\ \A e \in Dir : Exists(StateFile(e))' <=> Exists(StateFile(e))
      /\ \A e \in Dir : Exists(StateFile(e)) => disk'[StateFile(e)] = disk[StateFile(e)]
      /\ \A f \in DOMAIN disk' : f \in DOMAIN disk
      /\ UNCHANGED <<job, shown>>
  BY DEF DamageOriginal, Written, Exists, StateFile, OriginalFile
<1>2. damage' # 0
  BY CoordinatorAssumption DEF DamageOriginal, OutcomeInv, SequentialInv, Inv, StoreInv
<1>3. Outputs' = Outputs
  <2>1. \A path \in Paths : OutFile(path) # OriginalFile(d)
    BY DEF OutFile, OriginalFile
  <2>2. \A path \in Paths :
           /\ OutFile(path) \in DOMAIN disk' <=> OutFile(path) \in DOMAIN disk
           /\ OutFile(path) \in DOMAIN disk => disk'[OutFile(path)] = disk[OutFile(path)]
    BY <2>1 DEF DamageOriginal, Written
  <2> QED
    BY <2>2 DEF Outputs
<1>4. States' = States
  BY <1>1 DEF States, Exists
<1>5. \A p \in Proc : job[p].pc # "idle" => job[p].dir \in Dir
  BY DEF OutcomeInv, SequentialInv, Inv, JobInv, GoodJob
<1>6. \A p \in Proc : job[p].pc \notin {"idle", "init_state"} => Exists(StateFile(job[p].dir))
  BY DEF OutcomeInv, SequentialInv, HeldInv
<1>7. ASSUME NEW p \in Proc PROVE Rests(job[p])'
  <2>1. Rests(job[p])
    BY DEF OutcomeInv, RestsInv
  <2> QED
    BY <1>1, <1>2, <1>3, <1>5, <1>6, <2>1
       DEF Rests, Disclosed, SignedStored, Exists, CompletePcs, Target
<1>8. RestsInv'
  BY <1>1, <1>7 DEF OutcomeInv, RestsInv
<1>9. Promises'
  BY <1>1, <1>2, <1>3, <1>4
     DEF OutcomeInv, Promises, CommitmentDurable, SignedFromReveal, CompletionOrder, Disclosed,
         Signed, Receipts
<1> QED
  BY <1>8, <1>9 DEF OutcomeInv

-----------------------------------------------------------------------------
(***************************************************************************)
(* Durable writes.                                                         *)
(***************************************************************************)

\* The next write is of the state file.
Saves(j) == j.pc \in SavePcs \union {"init_state"}

\* The step of a process that writes a file, in terms of what the file is.
LEMMA ReplaceEffect ==
    ASSUME OutcomeInv, Sequential, NEW p \in Proc, AtomicReplace(p)
    PROVE  /\ disk' = [f \in DOMAIN disk \union {Target(job[p])} |->
                          IF f = Target(job[p]) THEN Data(job[p]) ELSE disk[f]]
           /\ shown' = IF job[p].pc \in OutputPcs THEN shown \union {Data(job[p])} ELSE shown
           /\ damage' = damage
           /\ Advance(p)
           /\ job[p].pc \in SavePcs \union ExactPcs \union {"init_state"}
           /\ Saves(job[p]) => Target(job[p]) = StateFile(job[p].dir) /\ Data(job[p]) = job[p].held
           /\ ~Saves(job[p]) =>
                 /\ ~Exists(Target(job[p]))
                 /\ \A d \in Dir : Target(job[p]) # StateFile(d)
<1> DEFINE j == job[p]
<1>1. /\ disk' = [f \in DOMAIN disk \union {Target(j)} |->
                     IF f = Target(j) THEN Data(j) ELSE disk[f]]
      /\ shown' = IF j.pc \in OutputPcs THEN shown \union {Data(j)} ELSE shown
      /\ damage' = damage
      /\ Advance(p)
      /\ j.pc \in SavePcs \union ExactPcs \union {"init_state"}
      /\ ~Saves(j) => j.pc \in ExactPcs /\ j.clear
  BY DEF AtomicReplace, Written, Saves
<1>2. Saves(j) => Target(j) = StateFile(j.dir) /\ Data(j) = j.held
  BY DEF Saves, SavePcs, Target, Data
<1>3. ~Saves(j) => \A d \in Dir : Target(j) # StateFile(d)
  BY <1>1 DEF Saves, SavePcs, ExactPcs, Target, StateFile, OriginalFile, Message1File, OutFile
<1>4. ~Saves(j) => ~Exists(Target(j))
  BY <1>1 DEF OutcomeInv, RestsInv, Rests, ExactPcs
<1> QED
  BY <1>1, <1>2, <1>3, <1>4

\* State files are continued, and no other file changes.
LEMMA ReplaceFiles ==
    ASSUME OutcomeInv, Sequential, NEW p \in Proc, AtomicReplace(p)
    PROVE  /\ \A d \in Dir : Exists(StateFile(d)) =>
                 /\ Exists(StateFile(d))'
                 /\ Continues(disk[StateFile(d)], disk'[StateFile(d)])
           /\ \A d \in Dir : \A psbt : OriginalIs(d, psbt) => OriginalIs(d, psbt)'
           /\ Outputs \subseteq Outputs'
           /\ \A stage : Disclosed(stage) \subseteq Disclosed(stage)'
           /\ \A d \in Dir : Exists(StateFile(d))' =>
                 \/ Exists(StateFile(d)) /\ disk'[StateFile(d)] = disk[StateFile(d)]
                 \/ /\ d = job[p].dir /\ disk'[StateFile(d)] = job[p].held
                    /\ Saves(job[p])
<1> DEFINE j == job[p]
<1>1. /\ disk' = [f \in DOMAIN disk \union {Target(j)} |->
                     IF f = Target(j) THEN Data(j) ELSE disk[f]]
      /\ shown' = IF j.pc \in OutputPcs THEN shown \union {Data(j)} ELSE shown
      /\ Saves(j) => Target(j) = StateFile(j.dir) /\ Data(j) = j.held
      /\ ~Saves(j) => /\ ~Exists(Target(j))
                   /\ \A d \in Dir : Target(j) # StateFile(d)
  BY ReplaceEffect
<1>2. j.dir \in Dir /\ j.pc # "idle"
  BY DEF AtomicReplace, OutcomeInv, SequentialInv, Inv, JobInv, GoodJob, SavePcs, ExactPcs
<1>3. \A d, e \in Dir : StateFile(d) = StateFile(e) => d = e
  BY DEF StateFile
<1>4. ASSUME NEW d \in Dir, Exists(StateFile(d))
      PROVE  Exists(StateFile(d))' /\ Continues(disk[StateFile(d)], disk'[StateFile(d)])
  <2>1. StateFile(d) \in DOMAIN disk'
    BY <1>1, <1>4 DEF Exists
  <2>2. CASE Saves(j) /\ d = j.dir
    <3>1. j.pc # "init_state"
      <4>1. j.pc = "init_state" => j.clear
        BY DEF AtomicReplace, SavePcs
      <4>2. j.pc = "init_state" /\ j.clear => ~Exists(StateFile(j.dir))
        BY DEF OutcomeInv, SequentialInv, HeldInv
      <4> QED
        BY <1>4, <2>2, <4>1, <4>2
    <3>2. Continues(disk[StateFile(d)], j.held)
      BY <1>2, <2>2, <3>1 DEF OutcomeInv, RestsInv, Rests
    <3>3. disk'[StateFile(d)] = j.held
      BY <1>1, <2>1, <2>2
    <3> QED
      BY <2>1, <3>2, <3>3 DEF Exists
  <2>3. CASE ~(Saves(j) /\ d = j.dir)
    <3>1. Target(j) # StateFile(d)
      BY <1>1, <1>2, <1>3, <2>3
    <3>2. disk'[StateFile(d)] = disk[StateFile(d)]
      BY <1>1, <1>4, <3>1 DEF Exists
    <3> QED
      BY <2>1, <3>2 DEF Exists, Continues
  <2> QED
    BY <2>2, <2>3
<1>5. \A f \in DOMAIN disk : (\A d \in Dir : f # StateFile(d)) =>
          f \in DOMAIN disk' /\ disk'[f] = disk[f]
  BY <1>1, <1>2 DEF Exists
<1>6. \A d, e \in Dir : OriginalFile(d) # StateFile(e)
  BY DEF OriginalFile, StateFile
<1>7. \A path \in Paths : \A e \in Dir : OutFile(path) # StateFile(e)
  BY DEF OutFile, StateFile
<1>8. \A d \in Dir : \A psbt : OriginalIs(d, psbt) => OriginalIs(d, psbt)'
  BY <1>5, <1>6 DEF OriginalIs, Exists
<1>9. Outputs \subseteq Outputs'
  BY <1>5, <1>7 DEF Outputs
<1>10. \A stage : Disclosed(stage) \subseteq Disclosed(stage)'
  BY <1>1 DEF Disclosed
<1>11. ASSUME NEW d \in Dir, Exists(StateFile(d))'
       PROVE  \/ Exists(StateFile(d)) /\ disk'[StateFile(d)] = disk[StateFile(d)]
              \/ d = j.dir /\ disk'[StateFile(d)] = j.held /\ Saves(j)
  <2>1. StateFile(d) \in DOMAIN disk'
    BY <1>11 DEF Exists
  <2>2. CASE Target(j) = StateFile(d)
    BY <1>1, <1>2, <1>3, <2>1, <2>2
  <2>3. CASE Target(j) # StateFile(d)
    BY <1>1, <2>1, <2>3 DEF Exists
  <2> QED
    BY <2>2, <2>3
<1> QED
  BY <1>4, <1>8, <1>9, <1>10, <1>11

\* What leaves the host with a write.
LEMMA ReplaceShows ==
    ASSUME OutcomeInv, Sequential, NEW p \in Proc, AtomicReplace(p),
           NEW o \in shown', o \notin shown
    PROVE  \/ /\ job[p].pc = "init_package" /\ o.kind = "package"
              /\ o.message = job[p].held.message_1
           \/ /\ job[p].pc = "accept_package" /\ o.kind = "package"
              /\ o.message = job[p].held.message_3
              /\ o.message.stage = HOST_REVEAL
           \/ /\ job[p].pc = "complete_signed" /\ o.kind = "signed"
              /\ o = SignedPsbt(job[p].held.psbt, job[p].held.message_4)
           \/ /\ job[p].pc = "complete_receipt" /\ o.kind = "receipt"
              /\ o = Receipt(job[p].held)
<1> DEFINE j == job[p]
<1>1. j.pc \in OutputPcs /\ o = Data(j)
  BY ReplaceEffect
<1>2. CASE j.pc = "init_package"
  BY <1>1, <1>2 DEF Data, Package
<1>3. CASE j.pc = "accept_package"
  <2>1. Transcript(j.held) /\ j.held.phase # "COMMITMENTS_CREATED"
    BY <1>3 DEF OutcomeInv, SequentialInv, Inv, JobInv, GoodJob, RevealPcs
  <2>2. j.held.message_3.stage = HOST_REVEAL
    BY <2>1, RevealOfTranscript
  <2> QED
    BY <1>1, <1>3, <2>2 DEF Data, Package
<1>4. CASE j.pc = "complete_signed"
  <2>1. o = SignedPsbt(j.held.psbt, j.held.message_4)
    BY <1>1, <1>4 DEF Data
  <2>2. o.kind = "signed"
    BY <2>1 DEF SignedPsbt
  <2> QED
    BY <1>4, <2>1, <2>2
<1>5. CASE j.pc = "complete_receipt"
  <2>1. o = Receipt(j.held)
    BY <1>1, <1>5 DEF Data
  <2>2. o.kind = "receipt"
    BY <2>1 DEF Receipt
  <2> QED
    BY <1>5, <2>1, <2>2
<1> QED
  BY <1>1, <1>2, <1>3, <1>4, <1>5 DEF OutputPcs

\* The process that writes a file goes on resting on what is there then.
LEMMA RestsReplace ==
    ASSUME OutcomeInv, Sequential, NEW p \in Proc, AtomicReplace(p)
    PROVE  RestsInv'
<1>1. PICK j : j = job[p]
  OBVIOUS
<1>2. PICK r : r = Resume(p, NextPc(j.pc), j.held)
  OBVIOUS
<1>3. /\ disk' = [f \in DOMAIN disk \union {Target(j)} |->
                     IF f = Target(j) THEN Data(j) ELSE disk[f]]
      /\ damage' = damage
      /\ job' = [job EXCEPT ![p] = Idle] \/ job' = [job EXCEPT ![p] = r]
      /\ j.pc \in SavePcs \union ExactPcs \union {"init_state"}
      /\ Saves(j) => Target(j) = StateFile(j.dir) /\ Data(j) = j.held
  BY <1>1, <1>2, ReplaceEffect DEF Advance, Exit
<1>4. /\ Rests(j) /\ j.pc # "idle" /\ j.dir \in Dir /\ j.path \in Paths
      /\ DOMAIN job = Proc
  BY <1>1, <1>3 DEF OutcomeInv, RestsInv, SequentialInv, Inv, JobInv, GoodJob, SavePcs, ExactPcs
<1>5. r.pc = NextPc(j.pc) /\ r.dir = j.dir /\ r.held = j.held /\ r.clear = FALSE
  BY <1>1, <1>2 DEF Resume, Job
<1>6. Continues(disk'[StateFile(j.dir)], j.held)
  <2>1. CASE Saves(j)
    BY <1>3, <2>1 DEF Continues
  <2>2. CASE ~Saves(j)
    <3>1. j.pc # "init_state"
      BY <2>2 DEF Saves
    <3>2. Exists(StateFile(j.dir))
      BY <1>1, <1>4, <3>1 DEF OutcomeInv, SequentialInv, HeldInv
    <3>3. Exists(StateFile(j.dir))'
      BY <1>4, <3>2, ReplaceFiles
    <3>4. disk'[StateFile(j.dir)] = disk[StateFile(j.dir)]
      BY <1>1, <1>4, <2>2, <3>3, ReplaceFiles
    <3> QED
      BY <1>4, <3>1, <3>4 DEF Rests
  <2> QED
    BY <2>1, <2>2
<1>7. ASSUME r.pc \in {"init_message1", "init_package"}, damage' = 0
      PROVE  OriginalIs(j.dir, j.held.psbt)'
  <2>1. j.pc \in {"init_original", "init_message1"}
    BY <1>3, <1>5, <1>7 DEF NextPc, SavePcs, ExactPcs
  <2>2. CASE j.pc = "init_original"
    <3>1. Target(j) = OriginalFile(j.dir) /\ Data(j) = j.held.psbt
      BY <2>2 DEF Target, Data
    <3> QED
      BY <1>3, <3>1 DEF OriginalIs, Exists
  <2>3. CASE j.pc = "init_message1"
    BY <1>3, <1>4, <1>7, <2>3, ReplaceFiles DEF Rests
  <2> QED
    BY <2>1, <2>2, <2>3
<1>8. ASSUME r.pc \in CompletePcs
      PROVE  j.held.message_3 \in Disclosed(HOST_REVEAL)'
  <2>1. j.pc \in CompletePcs
    BY <1>3, <1>5, <1>8 DEF NextPc, SavePcs, ExactPcs, CompletePcs
  <2> QED
    BY <1>4, <2>1, ReplaceFiles DEF Rests
<1>9. ASSUME j.held.phase = "COMPLETE"
      PROVE  SignedStored(j.held)'
  <2>1. CASE j.pc = "complete_signed"
    <3>1. Target(j) = OutFile(j.path) /\ Data(j) = SignedPsbt(j.held.psbt, j.held.message_4)
      BY <2>1 DEF Target, Data
    <3> QED
      BY <1>3, <1>4, <3>1 DEF SignedStored, Outputs
  <2>2. CASE j.pc # "complete_signed"
    BY <1>4, <1>9, <2>2, ReplaceFiles DEF Rests, SignedStored
  <2> QED
    BY <2>1, <2>2
<1>10. ASSUME r.pc = "complete_receipt"
       PROVE  disk'[StateFile(j.dir)] = j.held
  <2>1. j.pc = "complete_state"
    BY <1>3, <1>5, <1>10 DEF NextPc, SavePcs, ExactPcs
  <2> QED
    BY <1>3, <2>1 DEF Saves, SavePcs
<1>11. r.pc \notin {"init_state", "complete_signed"}
  BY <1>3, <1>5 DEF NextPc, SavePcs, ExactPcs
<1>12. Rests(r)'
  BY <1>4, <1>5, <1>6, <1>7, <1>8, <1>9, <1>10, <1>11 DEF Rests
<1>13. Rests(Idle)'
  BY DEF Rests, Idle
<1>14. ASSUME NEW q \in Proc PROVE Rests(job[q])'
  <2>1. job'[q] = Idle \/ job'[q] = r
    BY <1>3, <1>4 DEF Sequential
  <2> QED
    BY <1>12, <1>13, <2>1
<1>15. ASSUME NEW d \in Dir, Exists(StateFile(d))'
       PROVE  HasSession(disk'[StateFile(d)])
  BY <1>1, <1>4, <1>15, ReplaceFiles DEF OutcomeInv, RestsInv, Rests
<1> QED
  BY <1>14, <1>15 DEF RestsInv

LEMMA CommitmentsReplace ==
    ASSUME OutcomeInv, Sequential, NEW p \in Proc, AtomicReplace(p)
    PROVE  CommitmentDurable'
<1> SUFFICES ASSUME NEW m \in Disclosed(HOST_COMMIT)'
             PROVE  \E d \in Dir : /\ Exists(StateFile(d))'
                                   /\ disk'[StateFile(d)].message_1 = m
                                   /\ damage' = 0 => OriginalIs(d, m.psbt)'
  BY DEF CommitmentDurable
<1>1. PICK j : j = job[p]
  OBVIOUS
<1>2. damage' = damage
  BY ReplaceEffect
<1>3. PICK o \in shown' : o.kind = "package" /\ o.message = m /\ m.stage = HOST_COMMIT
  BY DEF Disclosed
<1>4. CASE o \in shown
  <2>1. m \in Disclosed(HOST_COMMIT)
    BY <1>3, <1>4 DEF Disclosed
  <2>2. PICK d \in Dir : /\ Exists(StateFile(d))
                         /\ disk[StateFile(d)].message_1 = m
                         /\ damage = 0 => OriginalIs(d, m.psbt)
    BY <2>1 DEF OutcomeInv, Promises, CommitmentDurable
  <2>3. Exists(StateFile(d))' /\ disk'[StateFile(d)].message_1 = m
    BY <2>2, ReplaceFiles DEF Continues
  <2>4. damage' = 0 => OriginalIs(d, m.psbt)'
    BY <1>2, <2>2, ReplaceFiles
  <2> QED
    BY <2>3, <2>4
<1>5. CASE o \notin shown
  <2>1. j.pc = "init_package" /\ m = j.held.message_1
    BY <1>1, <1>3, <1>5, ReplaceShows DEF HOST_COMMIT, HOST_REVEAL
  <2>2. j.dir \in Dir /\ Transcript(j.held) /\ Rests(j)
    BY <1>1, <2>1 DEF OutcomeInv, RestsInv, SequentialInv, Inv, JobInv, GoodJob
  <2>3. Exists(StateFile(j.dir))
    BY <1>1, <2>1 DEF OutcomeInv, SequentialInv, HeldInv
  <2>4. disk[StateFile(j.dir)].message_1 = m
    BY <2>1, <2>2 DEF Rests, Continues
  <2>5. Exists(StateFile(j.dir))' /\ disk'[StateFile(j.dir)].message_1 = m
    BY <2>2, <2>3, <2>4, ReplaceFiles DEF Continues
  <2>6. m.psbt = j.held.psbt
    BY <2>1, <2>2, ContextOfTranscript
  <2>7. damage' = 0 => OriginalIs(j.dir, m.psbt)'
    BY <1>2, <2>1, <2>2, <2>6, ReplaceFiles DEF Rests
  <2> QED
    BY <2>2, <2>5, <2>7
<1> QED
  BY <1>4, <1>5

LEMMA SignedFilesReplace ==
    ASSUME OutcomeInv, Sequential, NEW p \in Proc, AtomicReplace(p)
    PROVE  SignedFromReveal'
<1> SUFFICES ASSUME NEW o \in shown', o.kind = "signed"
             PROVE  \E m \in Disclosed(HOST_REVEAL)' :
                /\ o.psbt = m.psbt
                /\ o.partial_sigs = [i \in DOMAIN m.slots |->
                      AntiExfilSignature(KeyOf(i), m.slots[i].hash, m.slots[i].rho,
                                         m.slots[i].opening)]
  BY DEF SignedFromReveal, Signed
<1>1. CASE o \in shown
  <2>1. o \in Signed
    BY <1>1 DEF Signed
  <2> QED
    BY <2>1, ReplaceFiles DEF OutcomeInv, Promises, SignedFromReveal
<1>2. CASE o \notin shown
  <2>1. PICK s : s = job[p].held
    OBVIOUS
  <2>2. job[p].pc = "complete_signed" /\ o = SignedPsbt(s.psbt, s.message_4)
    BY <1>2, <2>1, ReplaceShows
  <2>3. Transcript(s) /\ s.phase = "COMPLETE"
    BY <2>1, <2>2
       DEF OutcomeInv, SequentialInv, SignedInv, CommitInv, Inv, JobInv, GoodJob, CompletePcs
  <2>4. s.message_3 \in Disclosed(HOST_REVEAL)'
    BY <2>1, <2>2, ReplaceFiles DEF OutcomeInv, RestsInv, Rests, CompletePcs
  <2>5. PICK m : m = s.message_3
    OBVIOUS
  <2>6. /\ o.psbt = m.psbt
        /\ o.partial_sigs = [i \in DOMAIN m.slots |->
              AntiExfilSignature(KeyOf(i), m.slots[i].hash, m.slots[i].rho,
                                 m.slots[i].opening)]
    BY <2>2, <2>3, <2>5, SignedWithReveal
  <2> QED
    BY <2>4, <2>5, <2>6
<1> QED
  BY <1>1, <1>2

LEMMA CompletionReplace ==
    ASSUME OutcomeInv, Sequential, NEW p \in Proc, AtomicReplace(p), SequentialInv'
    PROVE  CompletionOrder'
<1>1. PICK j : j = job[p]
  OBVIOUS
<1>2. /\ j.dir \in Dir /\ j.pc # "idle" /\ Rests(j)
      /\ j.pc = "complete_receipt" => j.held.phase = "COMPLETE" /\ Exists(StateFile(j.dir))
  <2>1. j.pc # "idle"
    BY <1>1, ReplaceEffect DEF SavePcs, ExactPcs
  <2> QED
    BY <1>1, <2>1 DEF OutcomeInv, RestsInv, SequentialInv, HeldInv, Inv, JobInv, GoodJob,
                      SignedInv, CommitInv, CompletePcs
<1>3. ASSUME NEW s \in States', s.phase = "COMPLETE"
      PROVE  SignedPsbt(s.psbt, s.message_4) \in Outputs'
  <2>1. PICK d \in Dir : Exists(StateFile(d))' /\ s = disk'[StateFile(d)]
    BY DEF States, Exists
  <2>2. CASE Exists(StateFile(d)) /\ s = disk[StateFile(d)]
    <3>1. s \in States
      BY <2>2 DEF States, Exists
    <3> QED
      BY <1>3, <3>1, ReplaceFiles DEF OutcomeInv, Promises, CompletionOrder
  <2>3. CASE s = j.held /\ Saves(j)
    <3>1. SignedStored(j.held)
      BY <1>2, <1>3, <2>3 DEF Rests, Saves, SavePcs
    <3> QED
      BY <2>3, <3>1, ReplaceFiles DEF SignedStored
  <2> QED
    BY <1>1, <2>1, <2>2, <2>3, ReplaceFiles
<1>4. ASSUME NEW o \in shown', o.kind = "receipt"
      PROVE  \E s \in States' : s.phase = "COMPLETE" /\ o = Receipt(s)
  <2>1. \E d \in Dir : /\ Exists(StateFile(d)) /\ disk[StateFile(d)].phase = "COMPLETE"
                       /\ o = Receipt(disk[StateFile(d)])
    <3>1. CASE o \in shown
      <4>1. PICK s \in States : s.phase = "COMPLETE" /\ o = Receipt(s)
        BY <1>4, <3>1 DEF OutcomeInv, Promises, CompletionOrder, Receipts
      <4> QED
        BY <4>1 DEF States, Exists
    <3>2. CASE o \notin shown
      <4>1. j.pc = "complete_receipt" /\ o = Receipt(j.held)
        BY <1>1, <1>4, <3>2, ReplaceShows
      <4> QED
        BY <1>2, <4>1 DEF Rests
    <3> QED
      BY <3>1, <3>2
  <2>2. PICK d \in Dir : /\ Exists(StateFile(d)) /\ disk[StateFile(d)].phase = "COMPLETE"
                         /\ o = Receipt(disk[StateFile(d)])
    BY <2>1
  <2>3. PICK s, t : s = disk[StateFile(d)] /\ t = disk'[StateFile(d)]
    OBVIOUS
  <2>4. Exists(StateFile(d))' /\ Continues(s, t)
    BY <2>2, <2>3, ReplaceFiles
  <2>5. Transcript(s)
    BY <2>2, <2>3 DEF OutcomeInv, SequentialInv, Inv, StoreInv
  <2>6. Transcript(t)
    BY <2>3, <2>4 DEF SequentialInv, Inv, StoreInv
  <2>7. t.phase = "COMPLETE" /\ Receipt(t) = Receipt(s)
    BY <2>2, <2>3, <2>4, <2>5, <2>6, ReceiptKept
  <2>8. t \in States'
    BY <2>3, <2>4 DEF States, Exists
  <2> QED
    BY <2>2, <2>3, <2>7, <2>8
<1> QED
  BY <1>3, <1>4 DEF CompletionOrder, Receipts

-----------------------------------------------------------------------------
(***************************************************************************)
(* The theorems.                                                           *)
(***************************************************************************)

LEMMA OutcomeStep == Sequential /\ OutcomeInv /\ [Next]_vars => OutcomeInv'
<1> SUFFICES ASSUME Sequential, OutcomeInv, [Next]_vars
             PROVE  OutcomeInv'
  OBVIOUS
<1>1. SequentialInv' /\ SignedInv'
  BY SequentialStep, SignedStep DEF OutcomeInv
<1>2. CASE UNCHANGED vars
  <2>1. RestsInv'
    BY <1>2 DEF vars, OutcomeInv, RestsInv, Rests, Exists, OriginalIs, Disclosed, SignedStored,
                Outputs
  <2>2. Promises'
    BY <1>2 DEF vars, OutcomeInv, Promises, CommitmentDurable, SignedFromReveal,
                CompletionOrder, Exists, OriginalIs, Disclosed, Signed, Receipts, States, Outputs
  <2> QED
    BY <1>1, <2>1, <2>2 DEF OutcomeInv
<1>3. ASSUME NEW p \in Proc, AtomicReplace(p)
      PROVE  OutcomeInv'
  BY <1>1, <1>3, RestsReplace, CommitmentsReplace, SignedFilesReplace, CompletionReplace
     DEF OutcomeInv, Promises
<1>4. ASSUME NEW p \in Proc,
             Command(p) \/ Crash(p) \/ FindAbsent(p) \/ FindSame(p) \/ FindConflict(p)
      PROVE  OutcomeInv'
  <2>1. UNCHANGED <<disk, shown, damage>>
    BY <1>4 DEF Command, Crash, FindAbsent, FindSame, FindConflict, HostInitV1, LoadState,
                HostAcceptOpeningsV1, LoadOriginal, HostCompleteV1, RefuseInput
  <2>2. \E j : Rests(j) /\ job' = [job EXCEPT ![p] = j]
    BY <1>4, RestsInit, RestsLoad, RestsAccept, RestsComplete, RestsTests DEF Command
  <2> QED
    BY <1>1, <2>1, <2>2, OutcomeQuietStep
<1>5. ASSUME NEW d \in Dir, DamageOriginal(d)
      PROVE  OutcomeInv'
  BY <1>1, <1>5, OutcomeDamage
<1> QED
  BY <1>2, <1>3, <1>4, <1>5 DEF Next, StorageStep

LEMMA OutcomeHolds ==
    ASSUME Sequential
    PROVE  Spec => []OutcomeInv
<1>1. Init => OutcomeInv
  BY OutcomeInit
<1>2. OutcomeInv /\ [Next]_vars => OutcomeInv'
  BY OutcomeStep
<1> QED
  BY <1>1, <1>2, PTL DEF Spec

\* CommitmentDurable: whatever is killed and retried, a message 1 that was shown can be
\* answered: host_init_v1 stored its session and the PSBT it commits to first, and no later
\* command loses them.
THEOREM CommitmentsDurable ==
    ASSUME Sequential
    PROVE  Spec => []CommitmentDurable
<1>1. OutcomeInv => CommitmentDurable
  BY DEF OutcomeInv, Promises
<1> QED
  BY <1>1, OutcomeHolds, PTL

\* SignedFromReveal: host_complete_v1 writes the signatures that a shown reveal determines,
\* whatever the signer is and whichever retries came between.
THEOREM SignedFromReveals ==
    ASSUME Sequential
    PROVE  Spec => []SignedFromReveal
<1>1. OutcomeInv => SignedFromReveal
  BY DEF OutcomeInv, Promises
<1> QED
  BY <1>1, OutcomeHolds, PTL

\* CompletionOrder: wherever host_complete_v1 is killed, a COMPLETE state has its signed PSBT
\* and a receipt its COMPLETE state.
THEOREM CompletedInOrder ==
    ASSUME Sequential
    PROVE  Spec => []CompletionOrder
<1>1. OutcomeInv => CompletionOrder
  BY DEF OutcomeInv, Promises
<1> QED
  BY <1>1, OutcomeHolds, PTL
-----------------------------------------------------------------------------
(***************************************************************************)
(* Sequential commands implement AntiExfilCeremony.  What the simulation   *)
(* needs besides OutcomeInv: every accepted opening set is one a signer    *)
(* can answer with.                                                        *)
(***************************************************************************)

Answered(s) == s.phase # "COMMITMENTS_CREATED" => OpeningSet(s.message_2) \in OpeningSets

Answers(j) ==
    j.pc # "idle" =>
        /\ Answered(j.held)
        /\ j.pc = "init_state" => j.held.phase = "COMMITMENTS_CREATED"

AnsweredInv ==
    /\ \A p \in Proc : Answers(job[p])
    /\ \A d \in Dir : Exists(StateFile(d)) => Answered(disk[StateFile(d)])

CeremonyInv == OutcomeInv /\ AnsweredInv

\* Openings that a session accepts are a signer's for all its slots.
LEMMA OpeningsAnswered ==
    ASSUME SignedInv, NEW s, Transcript(s), NEW m \in SignerAnswers, OpeningsAccepted(s, m)
    PROVE  OpeningSet(m) \in OpeningSets
<1>1. m.stage = SIGNER_OPENINGS /\ ValidTransition(s.message_1, m) /\ StateContext(s, m)
  BY DEF OpeningsAccepted
<1>2. CASE \E r \in Disclosed(HOST_REVEAL) : m \in SignaturesFrom(r)
  <2>1. PICK r \in Disclosed(HOST_REVEAL) : m \in SignaturesFrom(r)
    BY <1>2
  <2>2. PICK v : m = SignaturesMessage(r, v)
    BY <2>1 DEF SignaturesFrom
  <2>3. m.stage = r.stage \/ m.stage = SIGNER_SIGNATURES
    BY <2>2 DEF SignaturesMessage
  <2>4. r.stage = HOST_REVEAL
    BY DEF Disclosed
  <2> QED
    BY <1>1, <2>3, <2>4 DEF SIGNER_OPENINGS, HOST_REVEAL, SIGNER_SIGNATURES
<1>3. CASE \E c \in Disclosed(HOST_COMMIT) : m \in OpeningsFrom(c)
  <2>1. PICK c \in Disclosed(HOST_COMMIT) : m \in OpeningsFrom(c)
    BY <1>3
  <2>2. PICK S : \E v \in [S -> Variant] : m = OpeningsMessage(c, v)
    BY <2>1 DEF OpeningsFrom
  <2> PICK v \in [S -> Variant] : m = OpeningsMessage(c, v)
    BY <2>2
  <2>3. PICK n, x, q : c = CommitMessage(n, x, q, Rhos(x, q))
    BY <2>1 DEF SignedInv, CommitInv
  <2>4. /\ c.session = x /\ c.psbt = q /\ DOMAIN c.slots = SlotsOf[q]
        /\ \A i \in SlotsOf[q] :
              /\ c.slots[i].hash = MessageHash(q, i)
              /\ c.slots[i].commitment = HostCommit(Rhos(x, q)[i])
              /\ "opening" \in DOMAIN c.slots[i]
        /\ {"session", "psbt", "slots"} \subseteq DOMAIN c
    BY <2>3 DEF CommitMessage, Rhos
  <2>5. /\ m.session = x /\ m.psbt = q /\ DOMAIN m.slots = S
        /\ m.slots = [i \in S |-> [c.slots[i] EXCEPT !.opening =
                         NoncePoint(KeyOf(i), c.slots[i].hash, c.slots[i].commitment, v[i])]]
    BY <2>2, <2>4 DEF OpeningsMessage
  <2>6. /\ x \in Session /\ q \in Psbt
        /\ DOMAIN s.message_1.slots = SlotsOf[q]
    BY <1>1, <2>5 DEF StateContext, Transcript, CommitMessage, Rhos
  <2>7. S = SlotsOf[q]
    BY <1>1, <2>5, <2>6 DEF ValidTransition
  <2>8. OpeningSet(m) = [i \in SlotsOf[q] |->
            NoncePoint(KeyOf(i), MessageHash(q, i), HostCommit(Rhos(x, q)[i]), v[i])]
    BY <2>4, <2>5, <2>7 DEF OpeningSet
  <2>9. v \in [SlotsOf[q] -> Variant]
    BY <2>7
  <2> DEFINE Sets(y, z) ==
        {[i \in SlotsOf[z] |->
            NoncePoint(KeyOf(i), MessageHash(z, i), HostCommit(Rhos(y, z)[i]), w[i])] :
            w \in [SlotsOf[z] -> Variant]}
  <2>10. OpeningSet(m) \in Sets(x, q)
    BY <2>8, <2>9
  <2>11. OpeningSets = UNION {Sets(y, z) : y \in Session, z \in Psbt}
    BY DEF OpeningSets
  <2> HIDE DEF Sets
  <2> QED
    BY <2>6, <2>10, <2>11
<1> QED
  BY <1>2, <1>3 DEF SignerAnswers

\* The messages of a transcript repeat the accepted openings.
LEMMA OpeningsRepeated ==
    ASSUME NEW s, Transcript(s), s.phase # "COMMITMENTS_CREATED"
    PROVE  /\ OpeningSet(s.message_3) = OpeningSet(s.message_2)
           /\ s.phase = "COMPLETE" => OpeningSet(s.message_4) = OpeningSet(s.message_3)
<1>1. s.message_1.stage = HOST_COMMIT
  BY DEF Transcript, CommitMessage
<1>2. s.message_2.stage = SIGNER_OPENINGS
  BY <1>1 DEF Transcript, ValidTransition, HOST_COMMIT, SIGNER_OPENINGS
<1>3. ValidTransition(s.message_2, s.message_3) /\ s.message_3.stage = HOST_REVEAL
  BY RevealOfTranscript DEF Transcript
<1>4. OpeningSet(s.message_3) = OpeningSet(s.message_2)
  BY <1>2, <1>3 DEF ValidTransition, SlotTransition, OpeningSet, SIGNER_OPENINGS
<1>5. ASSUME s.phase = "COMPLETE"
      PROVE  OpeningSet(s.message_4) = OpeningSet(s.message_3)
  <2>1. ValidTransition(s.message_3, s.message_4)
    BY <1>5 DEF Transcript
  <2> QED
    BY <1>3, <2>1 DEF ValidTransition, SlotTransition, OpeningSet, SIGNER_OPENINGS, HOST_REVEAL
<1> QED
  BY <1>4, <1>5

\* What is signed with the reveal of a transcript is of its session and openings.
LEMMA SignedOf ==
    ASSUME NEW s, Transcript(s), s.phase # "COMMITMENTS_CREATED",
           NEW o, o.partial_sigs = [i \in DOMAIN s.message_3.slots |->
                      AntiExfilSignature(KeyOf(i), s.message_3.slots[i].hash,
                                         s.message_3.slots[i].rho,
                                         s.message_3.slots[i].opening)]
    PROVE  SignedSession(o) = s.session /\ SignedOpeningSet(o) = OpeningSet(s.message_3)
<1> DEFINE m == s.message_3
           ids == DOMAIN m.slots
           sigs == {o.partial_sigs[i] : i \in DOMAIN o.partial_sigs}
<1>1. SignedOpeningSet(o) = OpeningSet(m)
  BY DEF SignedOpeningSet, OpeningSet, AntiExfilSignature
<1>2. DOMAIN s.message_2.slots = ids /\ ids = DOMAIN s.message_1.slots
  BY DEF Transcript, ValidTransition
<1>3. ids # {}
  <2>1. Cardinality(DOMAIN s.message_2.slots) \in 1..MaxSlots
    BY DEF Transcript, ValidMessage
  <2>2. Cardinality(ids) # 0
    BY <1>2, <2>1
  <2> QED
    BY <2>2, FS_EmptySet
<1>4. ASSUME NEW i \in ids
      PROVE  m.slots[i].rho.session = s.session
  <2>1. m.stage = HOST_REVEAL /\ ValidTransition(s.message_2, m)
    BY RevealOfTranscript DEF Transcript
  <2>2. HostCommit(m.slots[i].rho) = m.slots[i].commitment
    BY <2>1 DEF ValidTransition, RevealsCommitment
  <2>3. m.slots[i].commitment = s.message_1.slots[i].commitment
    BY <1>2, <2>1 DEF Transcript, ValidTransition, SlotTransition
  <2>4. s.message_1.slots[i].commitment = HostCommit(Rhos(s.session, s.psbt)[i])
    BY <1>2 DEF Transcript, CommitMessage
  <2>5. i \in SlotsOf[s.psbt]
    BY <1>2 DEF Transcript, CommitMessage, Rhos
  <2> QED
    BY <2>2, <2>3, <2>4, <2>5 DEF HostCommit, Rhos
<1>5. sigs # {} /\ \A sig \in sigs : sig.rho.session = s.session
  BY <1>3, <1>4 DEF AntiExfilSignature
<1> HIDE DEF sigs
<1>6. (CHOOSE sig \in sigs : TRUE) \in sigs
  BY <1>5
<1>7. SignedSession(o) = (CHOOSE sig \in sigs : TRUE).rho.session
  BY DEF SignedSession, sigs
<1> QED
  BY <1>1, <1>5, <1>6, <1>7

LEMMA AnswersQuiet ==
    ASSUME CeremonyInv, NEW p \in Proc,
           FindAbsent(p) \/ FindSame(p) \/ FindConflict(p) \/ Command(p) \/ Crash(p)
    PROVE  /\ UNCHANGED <<disk, shown>>
           /\ \E j : Answers(j) /\ job' = [job EXCEPT ![p] = j]
<1>1. UNCHANGED <<disk, shown>>
  BY DEF Command, Crash, FindAbsent, FindSame, FindConflict, HostInitV1, LoadState,
         HostAcceptOpeningsV1, LoadOriginal, HostCompleteV1, RefuseInput
<1> SUFFICES \E j : Answers(j) /\ job' = [job EXCEPT ![p] = j]
  BY <1>1
<1>2. Answers(job[p]) /\ Answers(Idle)
  BY DEF CeremonyInv, AnsweredInv, Answers, Idle
<1>3. CASE Exit(p)
  BY <1>2, <1>3 DEF Exit
<1>4. CASE FindAbsent(p)
  <2> DEFINE r == Resume(p, job[p].pc, job[p].held)
             j == [r EXCEPT !.clear = TRUE]
  <2>1. j.pc = job[p].pc /\ j.held = job[p].held /\ job[p].pc # "idle"
    BY <1>4 DEF Resume, Job, FindAbsent, ExactPcs
  <2>2. Answers(j)
    <3> HIDE DEF j
    <3> QED
      BY <1>2, <2>1 DEF Answers
  <2> QED
    BY <1>4, <2>2 DEF FindAbsent
<1>5. CASE Advance(p) /\ (LoadOriginal(p) \/ FindSame(p))
  <2> DEFINE r == Resume(p, NextPc(job[p].pc), job[p].held)
  <2>1. r.pc = NextPc(job[p].pc) /\ r.held = job[p].held
    BY DEF Resume, Job
  <2>2. NextPc(job[p].pc) # "init_state" /\ job[p].pc # "idle"
    BY <1>5 DEF NextPc, LoadOriginal, FindSame, ExactPcs
  <2>3. Answers(r)
    <3> HIDE DEF r
    <3> QED
      BY <1>2, <2>1, <2>2 DEF Answers
  <2> QED
    BY <1>2, <1>5, <2>3 DEF Advance, Exit
<1>6. CASE HostInitV1(p)
  <2>1. PICK d \in Dir, network \in Network, session \in Session \ drawn, psbt \in Psbt,
             path \in OutPath["package1"] :
            job' = [job EXCEPT ![p] =
                       Job("init_state", d, InitialState(network, session, psbt), path, path)]
    BY <1>6 DEF HostInitV1
  <2> DEFINE j == Job("init_state", d, InitialState(network, session, psbt), path, path)
  <2>2. j.held.phase = "COMMITMENTS_CREATED"
    BY DEF Job, InitialState
  <2>3. Answers(j)
    <3> HIDE DEF j
    <3> QED
      BY <2>2 DEF Answers, Answered
  <2> QED
    BY <2>1, <2>3
<1>7. CASE \E d \in Dir : LoadState(p, d, "accept") \/ LoadState(p, d, "complete")
  <2>1. PICK d \in Dir, command \in {"accept", "complete"} : LoadState(p, d, command)
    BY <1>7
  <2>2. PICK path, receipt : job' = [job EXCEPT ![p] =
                                        Job(command, d, disk[StateFile(d)], path, receipt)]
    BY <2>1 DEF LoadState
  <2> DEFINE j == Job(command, d, disk[StateFile(d)], path, receipt)
  <2>3. j.pc = command /\ j.held = disk[StateFile(d)]
    BY DEF Job
  <2>4. Answered(disk[StateFile(d)])
    BY <2>1 DEF LoadState, CeremonyInv, AnsweredInv
  <2>5. Answers(j)
    <3> HIDE DEF j
    <3> QED
      BY <2>3, <2>4 DEF Answers
  <2> QED
    BY <2>2, <2>5
<1>8. CASE HostAcceptOpeningsV1(p)
  <2> DEFINE held == job[p].held
             next(m) == [held EXCEPT
                          !.phase = IF @ = "COMMITMENTS_CREATED" THEN "OPENINGS_ACCEPTED" ELSE @,
                          !.message_2 = m,
                          !.message_3 = RevealFor(held, m)]
  <2>1. PICK m \in SignerAnswers :
            /\ OpeningsAccepted(held, m)
            /\ job' = [job EXCEPT ![p] = Resume(p, "accept_state", next(m))]
    BY <1>8 DEF HostAcceptOpeningsV1
  <2>2. Transcript(held)
    BY <1>8 DEF CeremonyInv, OutcomeInv, SignedInv, Inv, JobInv, GoodJob, HostAcceptOpeningsV1
  <2>3. next(m).message_2 = m
    BY <2>2 DEF Transcript, StateFields
  <2>4. OpeningSet(m) \in OpeningSets
    BY <2>1, <2>2, OpeningsAnswered DEF CeremonyInv, OutcomeInv
  <2> HIDE DEF next
  <2> DEFINE j == Resume(p, "accept_state", next(m))
  <2>5. j.pc = "accept_state" /\ j.held = next(m)
    BY DEF Resume, Job
  <2>6. Answers(j)
    <3> HIDE DEF j
    <3> QED
      BY <2>3, <2>4, <2>5 DEF Answers, Answered
  <2> QED
    BY <2>1, <2>6
<1>9. CASE HostCompleteV1(p)
  <2> DEFINE held == job[p].held
             next(m) == [held EXCEPT !.phase = "COMPLETE", !.message_4 = m]
  <2>1. PICK m \in SignerAnswers :
            /\ SignaturesAccepted(held, job[p].dir, m)
            /\ job' = [job EXCEPT ![p] = Resume(p, "complete_signed", next(m))]
    BY <1>9 DEF HostCompleteV1
  <2>2. Transcript(held)
    BY <1>9 DEF CeremonyInv, OutcomeInv, SignedInv, Inv, JobInv, GoodJob, HostCompleteV1
  <2>3. next(m).message_2 = held.message_2
    BY <2>2 DEF Transcript, StateFields
  <2>4. OpeningSet(held.message_2) \in OpeningSets
    BY <1>2, <1>9, <2>1 DEF Answers, Answered, SignaturesAccepted, HostCompleteV1
  <2> HIDE DEF next
  <2> DEFINE j == Resume(p, "complete_signed", next(m))
  <2>5. j.pc = "complete_signed" /\ j.held = next(m)
    BY DEF Resume, Job
  <2>6. Answers(j)
    <3> HIDE DEF j
    <3> QED
      BY <2>3, <2>4, <2>5 DEF Answers, Answered
  <2> QED
    BY <2>1, <2>6
<1> QED
  BY <1>3, <1>4, <1>5, <1>6, <1>7, <1>8, <1>9
     DEF Command, FindSame, FindConflict, LoadOriginal, RefuseInput, Crash

LEMMA AnsweredStep == Sequential /\ CeremonyInv /\ [Next]_vars => CeremonyInv'
<1> SUFFICES ASSUME Sequential, CeremonyInv, [Next]_vars
             PROVE  CeremonyInv'
  OBVIOUS
<1>1. OutcomeInv' /\ DOMAIN job = Proc
  BY OutcomeStep DEF CeremonyInv, OutcomeInv, SignedInv, Inv, JobInv
<1>2. CASE UNCHANGED vars
  BY <1>1, <1>2 DEF vars, CeremonyInv, AnsweredInv, Exists
<1>3. ASSUME NEW p \in Proc, AtomicReplace(p)
      PROVE  CeremonyInv'
  <2> DEFINE j == job[p]
             r == Resume(p, NextPc(j.pc), j.held)
  <2>1. Answers(j) /\ j.pc # "idle"
    BY <1>3, ReplaceEffect DEF CeremonyInv, AnsweredInv, SavePcs, ExactPcs
  <2>2. r.pc # "init_state" /\ r.held = j.held
    BY DEF Resume, Job, NextPc
  <2>3. Answers(r) /\ Answers(Idle)
    <3> HIDE DEF r
    <3> QED
      BY <2>1, <2>2 DEF Answers, Idle
  <2>4. job' = [job EXCEPT ![p] = Idle] \/ job' = [job EXCEPT ![p] = r]
    BY <1>3, ReplaceEffect DEF Advance, Exit, CeremonyInv
  <2>5. ASSUME NEW q \in Proc
        PROVE  Answers(job'[q])
    BY <1>1, <2>3, <2>4 DEF CeremonyInv, AnsweredInv
  <2>6. ASSUME NEW d \in Dir, Exists(StateFile(d))'
        PROVE  Answered(disk'[StateFile(d)])
    <3>1. CASE Exists(StateFile(d)) /\ disk'[StateFile(d)] = disk[StateFile(d)]
      BY <3>1 DEF CeremonyInv, AnsweredInv
    <3>2. CASE disk'[StateFile(d)] = j.held
      BY <2>1, <3>2 DEF Answers
    <3> QED
      BY <1>3, <2>6, <3>1, <3>2, ReplaceFiles DEF CeremonyInv
  <2> QED
    BY <1>1, <2>5, <2>6 DEF CeremonyInv, AnsweredInv
<1>4. ASSUME NEW p \in Proc,
             Command(p) \/ Crash(p) \/ FindAbsent(p) \/ FindSame(p) \/ FindConflict(p)
      PROVE  CeremonyInv'
  <2>1. PICK j : Answers(j) /\ job' = [job EXCEPT ![p] = j]
    BY <1>4, AnswersQuiet
  <2>2. disk' = disk
    BY <1>4, AnswersQuiet
  <2>3. \A q \in Proc : Answers(job'[q])
    BY <1>1, <2>1 DEF CeremonyInv, AnsweredInv
  <2> QED
    BY <1>1, <2>2, <2>3 DEF CeremonyInv, AnsweredInv, Exists
<1>5. ASSUME NEW d \in Dir, DamageOriginal(d)
      PROVE  CeremonyInv'
  <2>1. /\ \A e \in Dir : Exists(StateFile(e))' => Exists(StateFile(e))
        /\ \A e \in Dir : Exists(StateFile(e)) => disk'[StateFile(e)] = disk[StateFile(e)]
        /\ UNCHANGED job
    BY <1>5 DEF DamageOriginal, Written, Exists, StateFile, OriginalFile
  <2> QED
    BY <1>1, <2>1 DEF CeremonyInv, AnsweredInv
<1> QED
  BY <1>2, <1>3, <1>4, <1>5 DEF Next, StorageStep

-----------------------------------------------------------------------------
(***************************************************************************)
(* What each write is a step of.                                           *)
(***************************************************************************)

\* Bound and Accepted of one session, read off given files.
BoundIn(files, session) ==
    {s \in {files[f] : f \in {StateFile(d) : d \in Dir} \intersect DOMAIN files} :
        s.session = session /\ s.phase # "COMMITMENTS_CREATED"}

OpeningsOf(states) ==
    IF states = {} THEN Absent ELSE OpeningSet((CHOOSE s \in states : TRUE).message_2)

AcceptedIn(files, session) == OpeningsOf(BoundIn(files, session))

LEMMA ByFiles ==
    /\ Accepted = [session \in Session |-> AcceptedIn(disk, session)]
    /\ Accepted' = [session \in Session |-> AcceptedIn(disk', session)]
BY DEF Accepted, AcceptedIn, OpeningsOf, Bound, BoundIn, States

LEMMA InFiles ==
    ASSUME NEW files, NEW session, NEW s
    PROVE  s \in BoundIn(files, session) <=>
               /\ s.session = session /\ s.phase # "COMMITMENTS_CREATED"
               /\ \E d \in Dir : StateFile(d) \in DOMAIN files /\ files[StateFile(d)] = s
BY DEF BoundIn

LEMMA AcceptedOnce ==
    ASSUME NEW files, NEW session, NEW d \in Dir, StateFile(d) \in DOMAIN files,
           files[StateFile(d)].session = session,
           files[StateFile(d)].phase # "COMMITMENTS_CREATED",
           \A e \in Dir : StateFile(e) \in DOMAIN files =>
                              (files[StateFile(e)].session = session => e = d)
    PROVE  AcceptedIn(files, session) = OpeningSet(files[StateFile(d)].message_2)
<1> DEFINE s == files[StateFile(d)]
<1>1. \A t : t \in BoundIn(files, session) <=> t = s
  BY InFiles
<1> HIDE DEF s
<1>2. BoundIn(files, session) = {s}
  BY <1>1
<1>3. (CHOOSE t \in {s} : TRUE) = s
  OBVIOUS
<1>4. AcceptedIn(files, session) = OpeningSet(s.message_2)
  BY <1>2, <1>3 DEF AcceptedIn, OpeningsOf
<1> QED
  BY <1>4 DEF s

LEMMA NoneAccepted ==
    ASSUME NEW files, NEW session,
           \A e \in Dir : /\ StateFile(e) \in DOMAIN files
                          /\ files[StateFile(e)].session = session
                          => files[StateFile(e)].phase = "COMMITMENTS_CREATED"
    PROVE  AcceptedIn(files, session) = Absent
<1>1. \A t : t \notin BoundIn(files, session)
  BY InFiles
<1> QED
  BY <1>1 DEF AcceptedIn, OpeningsOf

LEMMA AcceptedSame ==
    ASSUME NEW files, NEW files2, NEW session,
           \A e \in Dir : \A s : s.session = session =>
               (StateFile(e) \in DOMAIN files /\ files[StateFile(e)] = s
                  <=> StateFile(e) \in DOMAIN files2 /\ files2[StateFile(e)] = s)
    PROVE  AcceptedIn(files2, session) = AcceptedIn(files, session)
<1>1. \A s : s \in BoundIn(files2, session) <=> s \in BoundIn(files, session)
  BY InFiles
<1>2. BoundIn(files2, session) = BoundIn(files, session)
  BY <1>1
<1> QED
  BY <1>2 DEF AcceptedIn

\* A step that shows nothing and accepts nothing is a stutter.
LEMMA ShowsNothing ==
    ASSUME shown' = shown, \A y \in Session : AcceptedIn(disk', y) = AcceptedIn(disk, y)
    PROVE  UNCHANGED Ceremony!vars
<1>1. Accepted' = Accepted
  BY ByFiles
<1>2. Committed' = Committed /\ Revealed' = Revealed
  BY DEF Committed, Revealed, Disclosed
<1>3. Imported' = Imported /\ Receipted' = Receipted
  BY DEF Imported, Receipted, Signed, Receipts
<1> QED
  BY <1>1, <1>2, <1>3 DEF Ceremony!vars

LEMMA SaveSimulates ==
    ASSUME Sequential, CeremonyInv, CeremonyInv', NEW p \in Proc, AtomicReplace(p), Saves(job[p])
    PROVE  [Ceremony!Next]_(Ceremony!vars)
<1> DEFINE j == job[p]
           d == j.dir
           held == j.held
           x == held.session
           old == disk[StateFile(d)]
<1>1. /\ disk' = [f \in DOMAIN disk \union {StateFile(d)} |->
                     IF f = StateFile(d) THEN held ELSE disk[f]]
      /\ shown' = shown /\ j.pc # "idle"
  <2>1. j.pc \notin OutputPcs /\ j.pc # "idle"
    BY DEF Saves, SavePcs, OutputPcs
  <2>2. Target(j) = StateFile(d) /\ Data(j) = held
    BY ReplaceEffect DEF CeremonyInv
  <2>3. /\ disk' = [f \in DOMAIN disk \union {Target(j)} |->
                       IF f = Target(j) THEN Data(j) ELSE disk[f]]
        /\ shown' = IF j.pc \in OutputPcs THEN shown \union {Data(j)} ELSE shown
    BY ReplaceEffect DEF CeremonyInv
  <2> HIDE DEF j, d, held
  <2> QED
    BY <2>1, <2>2, <2>3
<1>2. /\ GoodJob(j, drawn) /\ Answers(j) /\ d \in Dir /\ Transcript(held) /\ x \in Session
      /\ OneDirectory /\ OneDirectory'
  BY <1>1 DEF CeremonyInv, AnsweredInv, OutcomeInv, SequentialInv, Inv, JobInv, GoodJob, Transcript
<1>3. ASSUME NEW e \in Dir, e # d
      PROVE  /\ StateFile(e) \in DOMAIN disk' <=> StateFile(e) \in DOMAIN disk
             /\ StateFile(e) \in DOMAIN disk => disk'[StateFile(e)] = disk[StateFile(e)]
  BY <1>1, <1>3 DEF StateFile
<1>4. StateFile(d) \in DOMAIN disk' /\ disk'[StateFile(d)] = held
  BY <1>1
<1>5. /\ j.pc = "init_state" =>
            /\ held.phase = "COMMITMENTS_CREATED" /\ StateFile(d) \notin DOMAIN disk
            /\ \A e \in Dir : StateFile(e) \in DOMAIN disk => disk[StateFile(e)].session # x
      /\ j.pc # "init_state" =>
            /\ held.phase # "COMMITMENTS_CREATED"
            /\ StateFile(d) \in DOMAIN disk /\ KeepsReveal(old, held) /\ Transcript(old)
  <2>1. ASSUME j.pc = "init_state"
        PROVE  /\ held.phase = "COMMITMENTS_CREATED" /\ StateFile(d) \notin DOMAIN disk
               /\ \A e \in Dir : StateFile(e) \in DOMAIN disk => disk[StateFile(e)].session # x
    <3>1. j.clear
      BY <2>1 DEF AtomicReplace, SavePcs
    <3> QED
      BY <1>1, <1>2, <2>1, <3>1
         DEF Answers, CeremonyInv, OutcomeInv, SequentialInv, HeldInv, Exists
  <2>2. ASSUME j.pc # "init_state"
        PROVE  /\ held.phase # "COMMITMENTS_CREATED"
               /\ StateFile(d) \in DOMAIN disk /\ KeepsReveal(old, held) /\ Transcript(old)
    <3>1. j.pc \in RevealPcs \union CompletePcs
      BY <2>2 DEF Saves, SavePcs, RevealPcs, CompletePcs
    <3>2. Exists(StateFile(d)) /\ KeepsReveal(old, held)
      BY <1>1, <2>2 DEF CeremonyInv, OutcomeInv, SequentialInv, HeldInv
    <3> QED
      BY <1>1, <1>2, <3>1, <3>2
         DEF GoodJob, CeremonyInv, OutcomeInv, SequentialInv, Inv, StoreInv, Exists
  <2> QED
    BY <2>1, <2>2
<1>6. ASSUME NEW y \in Session, y # x
      PROVE  AcceptedIn(disk', y) = AcceptedIn(disk, y)
  <2>1. StateFile(d) \in DOMAIN disk => disk[StateFile(d)].session = x
    BY <1>5 DEF KeepsReveal
  <2>2. ASSUME NEW e \in Dir, NEW s, s.session = y
        PROVE  StateFile(e) \in DOMAIN disk /\ disk[StateFile(e)] = s
                  <=> StateFile(e) \in DOMAIN disk' /\ disk'[StateFile(e)] = s
    <3>1. CASE e = d
      BY <1>4, <1>6, <2>1, <2>2, <3>1
    <3>2. CASE e # d
      BY <1>3, <3>2
    <3> QED
      BY <3>1, <3>2
  <2> QED
    BY <2>2, AcceptedSame
<1>7. CASE j.pc = "init_state"
  <2>1. AcceptedIn(disk, x) = Absent
    BY <1>5, <1>7, NoneAccepted
  <2>2. ASSUME NEW e \in Dir, StateFile(e) \in DOMAIN disk', disk'[StateFile(e)].session = x
        PROVE  disk'[StateFile(e)].phase = "COMMITMENTS_CREATED"
    BY <1>3, <1>4, <1>5, <1>7, <2>2
  <2>3. AcceptedIn(disk', x) = Absent
    BY <2>2, NoneAccepted
  <2> QED
    BY <1>1, <1>6, <2>1, <2>3, ShowsNothing
<1>8. CASE j.pc # "init_state"
  <2>1. old.session = x /\ held.phase # "COMMITMENTS_CREATED"
    BY <1>5, <1>8 DEF KeepsReveal
  <2>2. \A e \in Dir :
            /\ StateFile(e) \in DOMAIN disk' => (disk'[StateFile(e)].session = x => e = d)
            /\ StateFile(e) \in DOMAIN disk => (disk[StateFile(e)].session = x => e = d)
    BY <1>2, <1>4, <1>5, <1>8, <2>1 DEF OneDirectory, Exists
  <2>3. AcceptedIn(disk', x) = OpeningSet(held.message_2)
    <3>1. disk'[StateFile(d)].session = x
          /\ disk'[StateFile(d)].phase # "COMMITMENTS_CREATED"
      BY <1>4, <2>1
    <3>2. d \in Dir /\ StateFile(d) \in DOMAIN disk'
      BY <1>2, <1>4
    <3> HIDE DEF x, held, d
    <3>3. AcceptedIn(disk', x) = OpeningSet(disk'[StateFile(d)].message_2)
      BY <2>2, <3>1, <3>2, AcceptedOnce
    <3> QED
      BY <1>4, <3>3
  <2>4. CASE old.phase = "COMMITMENTS_CREATED"
    <3>1. AcceptedIn(disk, x) = Absent
      BY <2>2, <2>4, NoneAccepted
    <3>2. OpeningSet(held.message_2) \in OpeningSets
      BY <1>1, <1>2, <2>1 DEF Answers, Answered
    <3>3. Accepted[x] = Absent
      BY <1>2, <3>1, ByFiles
    <3>4. Accepted' = [Accepted EXCEPT ![x] = OpeningSet(held.message_2)]
      BY <1>2, <1>6, <2>3, ByFiles
    <3>5. x \in Committed
      <4>1. held.message_1 \in Disclosed(HOST_COMMIT)
        BY <1>1, <2>1 DEF CeremonyInv, OutcomeInv, SignedInv, CommitInv
      <4>2. held.message_1.session = x
        BY <1>2, ContextOfTranscript
      <4> QED
        BY <4>1, <4>2 DEF Committed
    <3>6. Committed' = Committed /\ Revealed' = Revealed
      BY <1>1 DEF Committed, Revealed, Disclosed
    <3>7. Imported' = Imported /\ Receipted' = Receipted
      BY <1>1 DEF Imported, Receipted, Signed, Receipts
    <3>8. Ceremony!Accept(x, OpeningSet(held.message_2))
      BY <3>3, <3>4, <3>5, <3>6, <3>7 DEF Ceremony!Accept
    <3> QED
      BY <1>2, <3>2, <3>8 DEF Ceremony!Next
  <2>5. CASE old.phase # "COMMITMENTS_CREATED"
    <3>1. AcceptedIn(disk, x) = OpeningSet(old.message_2)
      <4>1. d \in Dir /\ StateFile(d) \in DOMAIN disk
        BY <1>2, <1>5, <1>8
      <4> HIDE DEF x, held, d
      <4> QED
        BY <2>1, <2>2, <2>5, <4>1, AcceptedOnce
    <3>2. old.message_3 = held.message_3
      BY <1>5, <1>8, <2>5 DEF KeepsReveal
    <3>3. OpeningSet(old.message_2) = OpeningSet(held.message_2)
      BY <1>2, <1>5, <1>8, <2>1, <2>5, <3>2, OpeningsRepeated
    <3> QED
      BY <1>1, <1>6, <2>3, <3>1, <3>3, ShowsNothing
  <2> QED
    BY <2>4, <2>5
<1> QED
  BY <1>7, <1>8
\* What one more output adds.
LEMMA ShownGrows ==
    ASSUME NEW o, shown' = shown \union {o}
    PROVE  /\ Committed' = IF o.kind = "package" /\ o.message.stage = HOST_COMMIT
                           THEN Committed \union {o.message.session} ELSE Committed
           /\ \A y \in Session :
                 /\ Revealed'[y] =
                       IF o.kind = "package" /\ o.message.stage = HOST_REVEAL
                             /\ o.message.session = y
                       THEN Revealed[y] \union {OpeningSet(o.message)} ELSE Revealed[y]
                 /\ Imported'[y] =
                       IF o.kind = "signed" /\ SignedSession(o) = y
                       THEN Imported[y] \union {SignedOpeningSet(o)} ELSE Imported[y]
           /\ Receipted' = IF o.kind = "receipt" THEN Receipted \union {o.session} ELSE Receipted
<1>1. Committed' = IF o.kind = "package" /\ o.message.stage = HOST_COMMIT
                   THEN Committed \union {o.message.session} ELSE Committed
  BY DEF Committed, Disclosed
<1>2. ASSUME NEW y \in Session
      PROVE  Revealed'[y] =
                 IF o.kind = "package" /\ o.message.stage = HOST_REVEAL /\ o.message.session = y
                 THEN Revealed[y] \union {OpeningSet(o.message)} ELSE Revealed[y]
  BY DEF Revealed, Disclosed
<1>3. ASSUME NEW y \in Session
      PROVE  Imported'[y] = IF o.kind = "signed" /\ SignedSession(o) = y
                            THEN Imported[y] \union {SignedOpeningSet(o)} ELSE Imported[y]
  BY DEF Imported, Signed
<1>4. Receipted' = IF o.kind = "receipt" THEN Receipted \union {o.session} ELSE Receipted
  BY DEF Receipted, Receipts
<1> QED
  BY <1>1, <1>2, <1>3, <1>4

\* A reveal that was shown is that of the one state of its session.
LEMMA ShownReveal ==
    ASSUME CeremonyInv, NEW m \in Disclosed(HOST_REVEAL), NEW d \in Dir, Exists(StateFile(d)),
           disk[StateFile(d)].session = m.session
    PROVE  disk[StateFile(d)].phase # "COMMITMENTS_CREATED" /\ disk[StateFile(d)].message_3 = m
<1>1. PICK e \in Dir : /\ Exists(StateFile(e))
                       /\ disk[StateFile(e)].phase # "COMMITMENTS_CREATED"
                       /\ disk[StateFile(e)].message_3 = m
  BY DEF CeremonyInv, OutcomeInv, SequentialInv, RevealOnDisk
<1>2. disk[StateFile(e)].session = m.session
  BY <1>1, RevealOfTranscript DEF CeremonyInv, OutcomeInv, SequentialInv, Inv, StoreInv
<1> QED
  BY <1>1, <1>2 DEF CeremonyInv, OutcomeInv, SequentialInv, OneDirectory

\* What was imported was revealed before.
LEMMA ImportedRevealed ==
    ASSUME CeremonyInv, NEW y \in Session
    PROVE  Imported[y] \subseteq Revealed[y]
<1> SUFFICES ASSUME NEW o \in Signed, SignedSession(o) = y
             PROVE  SignedOpeningSet(o) \in Revealed[y]
  BY DEF Imported
<1>1. PICK m \in Disclosed(HOST_REVEAL) :
          o.partial_sigs = [i \in DOMAIN m.slots |->
              AntiExfilSignature(KeyOf(i), m.slots[i].hash, m.slots[i].rho, m.slots[i].opening)]
  BY DEF CeremonyInv, OutcomeInv, Promises, SignedFromReveal
<1>2. PICK d \in Dir : /\ Exists(StateFile(d))
                       /\ disk[StateFile(d)].phase # "COMMITMENTS_CREATED"
                       /\ disk[StateFile(d)].message_3 = m
  BY DEF CeremonyInv, OutcomeInv, SequentialInv, RevealOnDisk
<1>3. Transcript(disk[StateFile(d)])
  BY <1>2 DEF CeremonyInv, OutcomeInv, SequentialInv, Inv, StoreInv
<1>4. /\ SignedSession(o) = disk[StateFile(d)].session
      /\ SignedOpeningSet(o) = OpeningSet(m)
  BY <1>1, <1>2, <1>3, SignedOf
<1>5. m.session = y
  BY <1>2, <1>3, <1>4, RevealOfTranscript
<1> QED
  BY <1>4, <1>5 DEF Revealed

\* A completed transcript's signed PSBT is of its session and openings.
LEMMA SignedOfComplete ==
    ASSUME NEW s, Transcript(s), s.phase = "COMPLETE"
    PROVE  /\ SignedSession(SignedPsbt(s.psbt, s.message_4)) = s.session
           /\ SignedOpeningSet(SignedPsbt(s.psbt, s.message_4)) = OpeningSet(s.message_3)
<1>1. SignedPsbt(s.psbt, s.message_4).partial_sigs =
          [i \in DOMAIN s.message_3.slots |->
              AntiExfilSignature(KeyOf(i), s.message_3.slots[i].hash, s.message_3.slots[i].rho,
                                 s.message_3.slots[i].opening)]
  BY SignedWithReveal
<1> QED
  BY <1>1, SignedOf

LEMMA OutputSimulates ==
    ASSUME Sequential, CeremonyInv, NEW p \in Proc, AtomicReplace(p), ~Saves(job[p])
    PROVE  [Ceremony!Next]_(Ceremony!vars)
<1> DEFINE j == job[p]
           d == j.dir
           held == j.held
           x == held.session
           o == Data(j)
<1>1. /\ j.pc \in ExactPcs /\ j.pc # "idle" /\ j.pc # "init_state"
      /\ shown' = IF j.pc \in OutputPcs THEN shown \union {o} ELSE shown
  BY ReplaceEffect DEF CeremonyInv, Saves, SavePcs, ExactPcs
<1>2. /\ d \in Dir /\ Transcript(held) /\ x \in Session
      /\ j.pc \in RevealPcs \union CompletePcs => held.phase # "COMMITMENTS_CREATED"
      /\ j.pc \in CompletePcs =>
            held.phase = "COMPLETE" /\ held.message_3 \in Disclosed(HOST_REVEAL)
      /\ Exists(StateFile(d)) /\ KeepsReveal(disk[StateFile(d)], held)
      /\ j.pc = "accept_package" => KeepsReveal(held, disk[StateFile(d)])
      /\ j.pc = "complete_receipt" => SignedStored(held)
  <2>1. GoodJob(j, drawn) /\ Rests(j)
    BY DEF CeremonyInv, OutcomeInv, SequentialInv, Inv, JobInv, RestsInv
  <2>2. /\ j.pc \in CompletePcs => held.phase = "COMPLETE"
        /\ Exists(StateFile(d)) /\ KeepsReveal(disk[StateFile(d)], held)
        /\ j.pc = "accept_package" => KeepsReveal(held, disk[StateFile(d)])
    BY <1>1 DEF CeremonyInv, OutcomeInv, SequentialInv, HeldInv, SignedInv, CommitInv
  <2>3. j.pc \in CompletePcs => held.message_3 \in Disclosed(HOST_REVEAL)
    BY <1>1, <2>1 DEF Rests
  <2>4. j.pc = "complete_receipt" => SignedStored(held)
    BY <2>1, <2>2 DEF Rests, CompletePcs
  <2> QED
    BY <1>1, <2>1, <2>2, <2>3, <2>4 DEF GoodJob, Transcript
<1>3. /\ Accepted' = Accepted
      /\ \A y \in Session : AcceptedIn(disk', y) = AcceptedIn(disk, y)
  <2>1. \A e \in Dir : /\ StateFile(e) \in DOMAIN disk' <=> StateFile(e) \in DOMAIN disk
                       /\ StateFile(e) \in DOMAIN disk => disk'[StateFile(e)] = disk[StateFile(e)]
    <3>1. /\ disk' = [f \in DOMAIN disk \union {Target(j)} |->
                         IF f = Target(j) THEN o ELSE disk[f]]
          /\ \A e \in Dir : Target(j) # StateFile(e)
      BY ReplaceEffect DEF CeremonyInv
    <3>2. \A f : f # Target(j) => /\ f \in DOMAIN disk' <=> f \in DOMAIN disk
                                  /\ f \in DOMAIN disk => disk'[f] = disk[f]
      <4> HIDE DEF j, o
      <4> QED
        BY <3>1
    <3> HIDE DEF j
    <3> QED
      BY <3>1, <3>2
  <2>2. \A y \in Session : AcceptedIn(disk', y) = AcceptedIn(disk, y)
    BY <2>1, AcceptedSame
  <2> QED
    BY <2>2, ByFiles
<1>4. CASE j.pc \notin OutputPcs
  BY <1>1, <1>3, <1>4, ShowsNothing
<1>5. ASSUME j.pc \in OutputPcs
      PROVE  /\ Committed' = IF o.kind = "package" /\ o.message.stage = HOST_COMMIT
                             THEN Committed \union {o.message.session} ELSE Committed
             /\ \A y \in Session :
                   /\ Revealed'[y] =
                         IF o.kind = "package" /\ o.message.stage = HOST_REVEAL
                               /\ o.message.session = y
                         THEN Revealed[y] \union {OpeningSet(o.message)} ELSE Revealed[y]
                   /\ Imported'[y] =
                         IF o.kind = "signed" /\ SignedSession(o) = y
                         THEN Imported[y] \union {SignedOpeningSet(o)} ELSE Imported[y]
             /\ Receipted' = IF o.kind = "receipt" THEN Receipted \union {o.session} ELSE Receipted
  BY <1>1, <1>5, ShownGrows
<1>6. /\ Revealed  = [y \in Session |-> Revealed[y]]
      /\ Revealed' = [y \in Session |-> Revealed'[y]]
      /\ Imported  = [y \in Session |-> Imported[y]]
      /\ Imported' = [y \in Session |-> Imported'[y]]
  BY DEF Revealed, Imported
<1>7. CASE j.pc = "init_package"
  <2>1. o.kind = "package" /\ o.message = held.message_1
    BY <1>7 DEF Data, Package
  <2>2. held.message_1.stage = HOST_COMMIT /\ held.message_1.session = x
    BY <1>2 DEF Transcript, CommitMessage
  <2> HIDE DEF o
  <2>3. Committed' = Committed \union {x} /\ Receipted' = Receipted
    BY <1>5, <1>7, <2>1, <2>2 DEF OutputPcs
  <2>4. \A y \in Session : Revealed'[y] = Revealed[y] /\ Imported'[y] = Imported[y]
    BY <1>5, <1>7, <2>1, <2>2 DEF OutputPcs, HOST_COMMIT, HOST_REVEAL
  <2>5. Revealed' = Revealed /\ Imported' = Imported
    BY <1>6, <2>4
  <2>6. CASE x \in Committed
    BY <1>3, <2>3, <2>5, <2>6 DEF Ceremony!vars
  <2>7. CASE x \notin Committed
    <3>1. Ceremony!Commit(x)
      BY <1>3, <2>3, <2>5, <2>7 DEF Ceremony!Commit
    <3> QED
      BY <1>2, <3>1 DEF Ceremony!Next
  <2> QED
    BY <2>6, <2>7
<1>8. CASE j.pc = "accept_package"
  <2>1. o.kind = "package" /\ o.message = held.message_3
    BY <1>8 DEF Data, Package
  <2>2. /\ held.phase # "COMMITMENTS_CREATED"
        /\ held.message_3.stage = HOST_REVEAL /\ held.message_3.session = x
        /\ OpeningSet(held.message_3) = OpeningSet(held.message_2)
    BY <1>2, <1>8, RevealOfTranscript, OpeningsRepeated DEF RevealPcs
  <2> HIDE DEF o
  <2>3. Committed' = Committed /\ Receipted' = Receipted
    BY <1>5, <1>8, <2>1, <2>2 DEF OutputPcs, HOST_COMMIT, HOST_REVEAL
  <2>4. Imported' = Imported
    <3>1. \A y \in Session : Imported'[y] = Imported[y]
      BY <1>5, <1>8, <2>1 DEF OutputPcs
    <3> QED
      BY <1>6, <3>1
  <2>5. /\ disk[StateFile(d)].session = x
        /\ disk[StateFile(d)].phase # "COMMITMENTS_CREATED"
        /\ disk[StateFile(d)].message_3 = held.message_3
    BY <1>2, <1>8, <2>2 DEF KeepsReveal
  <2>6. Accepted[x] = OpeningSet(held.message_3) /\ Accepted[x] # Absent
    <3>1. \A e \in Dir : StateFile(e) \in DOMAIN disk =>
              (disk[StateFile(e)].session = x => e = d)
      BY <1>2, <2>5 DEF CeremonyInv, OutcomeInv, SequentialInv, OneDirectory, Exists
    <3>2. AcceptedIn(disk, x) = OpeningSet(disk[StateFile(d)].message_2)
      <4>1. StateFile(d) \in DOMAIN disk /\ d \in Dir
        BY <1>2 DEF Exists
      <4> HIDE DEF x, d
      <4> QED
        BY <2>5, <3>1, <4>1, AcceptedOnce
    <3>3. /\ OpeningSet(disk[StateFile(d)].message_2) = OpeningSet(held.message_3)
          /\ OpeningSet(disk[StateFile(d)].message_2) \in OpeningSets
      <4>1. Transcript(disk[StateFile(d)]) /\ Answered(disk[StateFile(d)])
        BY <1>2 DEF CeremonyInv, AnsweredInv, OutcomeInv, SequentialInv, Inv, StoreInv
      <4> QED
        BY <2>5, <4>1, OpeningsRepeated DEF Answered
    <3> QED
      BY <1>2, <3>2, <3>3, ByFiles, OpeningsAssumption
  <2>7. Revealed[x] \subseteq {OpeningSet(held.message_3)}
    <3> SUFFICES ASSUME NEW m \in Disclosed(HOST_REVEAL), m.session = x
                 PROVE  m = held.message_3
      BY <1>2 DEF Revealed
    <3> QED
      BY <1>2, <2>5, ShownReveal
  <2>8. Revealed'[x] = Revealed[x] \union {OpeningSet(held.message_3)}
    BY <1>2, <1>5, <1>8, <2>1, <2>2 DEF OutputPcs
  <2>9. \A y \in Session : y # x => Revealed'[y] = Revealed[y]
    BY <1>5, <1>8, <2>1, <2>2 DEF OutputPcs
  <2>10. Revealed' = [Revealed EXCEPT ![x] = {Accepted[x]}]
    BY <1>2, <1>6, <2>6, <2>7, <2>8, <2>9
  <2>11. Ceremony!Reveal(x)
    BY <1>3, <2>3, <2>4, <2>6, <2>10 DEF Ceremony!Reveal
  <2> QED
    BY <1>2, <2>11 DEF Ceremony!Next
<1>9. CASE j.pc = "complete_signed"
  <2>1. o = SignedPsbt(held.psbt, held.message_4)
    BY <1>9 DEF Data
  <2>2. o.kind = "signed"
    BY <2>1 DEF SignedPsbt
  <2>3. held.phase = "COMPLETE" /\ held.message_3 \in Disclosed(HOST_REVEAL)
    BY <1>2, <1>9 DEF CompletePcs
  <2>4. SignedSession(o) = x /\ SignedOpeningSet(o) = OpeningSet(held.message_3)
    BY <1>2, <2>1, <2>3, SignedOfComplete
  <2> HIDE DEF o
  <2>5. Committed' = Committed /\ Receipted' = Receipted
    BY <1>5, <1>9, <2>2 DEF OutputPcs
  <2>6. Revealed' = Revealed
    <3>1. \A y \in Session : Revealed'[y] = Revealed[y]
      BY <1>5, <1>9, <2>2 DEF OutputPcs
    <3> QED
      BY <1>6, <3>1
  <2>7. Revealed[x] = {OpeningSet(held.message_3)}
    <3>1. held.message_3.session = x
      BY <1>2, <2>3, RevealOfTranscript
    <3>2. ASSUME NEW m \in Disclosed(HOST_REVEAL), m.session = x
          PROVE  m = held.message_3
      <4>1. disk[StateFile(d)].session = x
        BY <1>2 DEF KeepsReveal
      <4>2. disk[StateFile(d)].message_3 = m
        BY <1>2, <3>2, <4>1, ShownReveal
      <4>3. disk[StateFile(d)].message_3 = held.message_3
        BY <1>2, <2>3, <3>1, <4>1, ShownReveal
      <4> QED
        BY <4>2, <4>3
    <3> QED
      BY <1>2, <2>3, <3>1, <3>2 DEF Revealed
  <2>8. Imported'[x] = Revealed[x]
    <3>1. Imported[x] \subseteq Revealed[x]
      BY <1>2, ImportedRevealed
    <3> QED
      BY <1>2, <1>5, <1>9, <2>2, <2>4, <2>7, <3>1 DEF OutputPcs
  <2>9. \A y \in Session : y # x => Imported'[y] = Imported[y]
    BY <1>5, <1>9, <2>4 DEF OutputPcs
  <2>10. Imported' = [Imported EXCEPT ![x] = Revealed[x]]
    BY <1>2, <1>6, <2>8, <2>9
  <2>11. Ceremony!Import(x)
    BY <1>3, <2>5, <2>6, <2>7, <2>10 DEF Ceremony!Import
  <2> QED
    BY <1>2, <2>11 DEF Ceremony!Next
<1>10. CASE j.pc = "complete_receipt"
  <2>1. o = Receipt(held)
    BY <1>10 DEF Data
  <2>2. o.kind = "receipt" /\ o.session = x
    BY <2>1 DEF Receipt
  <2> HIDE DEF o
  <2>3. Committed' = Committed /\ Receipted' = Receipted \union {x}
    BY <1>5, <1>10, <2>2 DEF OutputPcs
  <2>4. \A y \in Session : Revealed'[y] = Revealed[y] /\ Imported'[y] = Imported[y]
    BY <1>5, <1>10, <2>2 DEF OutputPcs
  <2>5. Revealed' = Revealed /\ Imported' = Imported
    BY <1>6, <2>4
  <2>6. Imported[x] # {}
    <3> DEFINE g == SignedPsbt(held.psbt, held.message_4)
    <3>1. held.phase = "COMPLETE" /\ SignedStored(held)
      BY <1>2, <1>10 DEF CompletePcs
    <3>2. g \in shown
      BY <3>1 DEF SignedStored, Outputs, CeremonyInv, OutcomeInv, SequentialInv, Inv,
                  StoreInv, Exists
    <3>3. g.kind = "signed"
      BY DEF SignedPsbt
    <3>4. SignedSession(g) = x
      BY <1>2, <3>1, SignedOfComplete
    <3> HIDE DEF g
    <3> QED
      BY <1>2, <3>2, <3>3, <3>4 DEF Imported, Signed
  <2>7. Ceremony!Certify(x)
    BY <1>3, <2>3, <2>5, <2>6 DEF Ceremony!Certify
  <2> QED
    BY <1>2, <2>7 DEF Ceremony!Next
<1> QED
  BY <1>4, <1>7, <1>8, <1>9, <1>10 DEF OutputPcs

\* ImplementsCeremony: sequential commands implement the abstract ceremony, with crashes,
\* retries and damaged originals, for any sessions, directories, PSBTs and signers: each
\* output and each save of an accepted message 2 is one of its steps (coordinator_v1.py).
THEOREM CoordinatorImplements ==
    ASSUME Sequential
    PROVE  Spec => ImplementsCeremony
<1>1. Init => CeremonyInv
  BY OutcomeInit DEF Init, CeremonyInv, AnsweredInv, Answers, Idle, Exists
<1>2. CeremonyInv /\ [Next]_vars => CeremonyInv'
  BY AnsweredStep
<1>3. Init => Ceremony!Init
  <2> SUFFICES ASSUME Init
               PROVE  Ceremony!Init
    OBVIOUS
  <2>1. shown = {} /\ DOMAIN disk = {}
    BY DEF Init
  <2>2. \A y \in Session : AcceptedIn(disk, y) = Absent
    BY <2>1, NoneAccepted
  <2>3. Accepted = [y \in Session |-> Absent]
    BY <2>2, ByFiles
  <2>4. Committed = {} /\ Receipted = {}
    BY <2>1 DEF Committed, Receipted, Receipts, Disclosed
  <2>5. Revealed = [y \in Session |-> {}] /\ Imported = [y \in Session |-> {}]
    BY <2>1 DEF Revealed, Imported, Signed, Disclosed
  <2> QED
    BY <2>3, <2>4, <2>5 DEF Ceremony!Init
<1>4. CeremonyInv /\ CeremonyInv' /\ [Next]_vars => [Ceremony!Next]_(Ceremony!vars)
  <2> SUFFICES ASSUME CeremonyInv, CeremonyInv', [Next]_vars
               PROVE  [Ceremony!Next]_(Ceremony!vars)
    OBVIOUS
  <2>1. CASE UNCHANGED vars
    BY <2>1, ShowsNothing DEF vars
  <2>2. ASSUME NEW p \in Proc, AtomicReplace(p)
        PROVE  [Ceremony!Next]_(Ceremony!vars)
    BY <2>2, SaveSimulates, OutputSimulates
  <2>3. ASSUME NEW p \in Proc,
               FindAbsent(p) \/ FindSame(p) \/ FindConflict(p) \/ Command(p) \/ Crash(p)
        PROVE  [Ceremony!Next]_(Ceremony!vars)
    BY <2>3, AnswersQuiet, ShowsNothing
  <2>4. ASSUME NEW d \in Dir, DamageOriginal(d)
        PROVE  [Ceremony!Next]_(Ceremony!vars)
    <3>1. /\ \A e \in Dir :
                /\ StateFile(e) \in DOMAIN disk' <=> StateFile(e) \in DOMAIN disk
                /\ StateFile(e) \in DOMAIN disk => disk'[StateFile(e)] = disk[StateFile(e)]
          /\ shown' = shown
      BY <2>4 DEF DamageOriginal, Written, Exists, StateFile, OriginalFile
    <3>2. \A y \in Session : AcceptedIn(disk', y) = AcceptedIn(disk, y)
      BY <3>1, AcceptedSame
    <3> QED
      BY <3>1, <3>2, ShowsNothing
  <2> QED
    BY <2>1, <2>2, <2>3, <2>4 DEF Next, StorageStep
<1> QED
  BY <1>1, <1>2, <1>3, <1>4, PTL DEF Spec, ImplementsCeremony, Ceremony!Spec
=============================================================================
