---------------------------- MODULE PsbtCeremony ----------------------------
(***************************************************************************)
(* PsbtWorkflow implements AntiExfilCeremony when its commands run one at  *)
(* a time; and a session that is bound to its PSBT is brought to a         *)
(* verified receipt by an operator who keeps retrying.                     *)
(***************************************************************************)
EXTENDS PsbtWorkflow

Committed == {m.session : m \in Disclosed(HOST_COMMIT)}

StatesOf(session) == {s \in States : s.session = session}

Accepted == [session \in Session |->
                LET bound == {s \in StatesOf(session) : s.opening # Absent}
                IN  IF bound = {} THEN Absent ELSE (CHOOSE s \in bound : TRUE).opening]

Revealed == [session \in Session |->
                {m.opening : m \in {n \in Disclosed(HOST_REVEAL) : n.session = session}}]

\* A signature counts as imported once the state records it.
Imported == [session \in Session |->
                {s.opening : s \in {t \in StatesOf(session) : t.phase = "COMPLETE"}}]

Receipted == {o.message.session : o \in {x \in shown : x.kind \in {"receipt", "psbt_receipt"}}}

\* Every opening a signer can answer a session's commitment with.
Openings ==
    {NoncePoint(s.key, s.hash, HostCommit(Rho(session)), v) :
        s \in UNION {SlotsOf[q] : q \in Psbt}, session \in Session, v \in Variant}

Ceremony == INSTANCE AntiExfilCeremony
    WITH None <- Absent,
         committed <- Committed, accepted <- Accepted, revealed <- Revealed,
         imported <- Imported, receipted <- Receipted

\* Whatever is killed and retried, and whichever commands are mixed, what leaves the host
\* and what its state files say are the steps of one ceremony per session.
ImplementsCeremony == Ceremony!Spec

-----------------------------------------------------------------------------
(***************************************************************************)
(* Progress.  A process that is not killed runs on.  The operator keeps    *)
(* running host_reveal and host_verify_psbt on every session directory,    *)
(* and among the responses brought back there is time and again the        *)
(* signer's true answer, at both readings of its file.  Processes are      *)
(* killed only finitely often.                                             *)
(*                                                                         *)
(* The response file is left alone while host_verify_psbt runs.  If it is  *)
(* replaced between the two readings, the signed PSBT can get a signature  *)
(* nothing verified; should the process then be killed, write_exact        *)
(* refuses the true one under that name for ever.                          *)
(***************************************************************************)

ResponseKept ==
    \A p \in Proc :
        (/\ job[p].pc = "verify" /\ job[p].command = "verify_psbt"
         /\ job'[p].pc = "verify_state") => SlotSignature(job'[p].message) = job[p].read

RevealIn(d) == \E p \in Proc : job[p].pc = "reveal" /\ job[p].dir = d /\ HostReveal(p)

\* What host_verify_psbt imports of the answer that host_verify accepts.
TrueAnswer(state) ==
    [key |-> state.key, hash |-> state.hash, signature |->
        AntiExfilSignature(state.key, state.hash, state.rho, state.opening)]

VerifyIn(d) ==
    \E p \in Proc :
        /\ job[p].pc = "verify_psbt" /\ job[p].dir = d
        /\ HostVerifyPsbt(p)
        /\ job'[p].read = TrueAnswer(job[p].held)

VerifyAgainIn(d) ==
    \E p \in Proc :
        /\ job[p].pc = "verify" /\ job[p].command = "verify_psbt" /\ job[p].dir = d
        /\ HostVerify(p)
        /\ ResponseKept

\* What a process does next once it has its input.
RunOn(p) ==
    \/ StorageStep(p) \/ BindPsbt(p) \/ PrepareLoad(p) \/ PrepareOriginal(p)
    \/ VerifyLoad(p) \/ ImportSignature(p) \/ RefuseInput(p)
    \/ job[p].pc = "verify" /\ job[p].command = "verify_psbt" /\ HostVerify(p)

Fairness ==
    /\ \A p \in Proc : WF_vars(RunOn(p))
    /\ \A d \in Dir :
          /\ SF_vars(\E p \in Proc : LoadState(p, d, "reveal"))
          /\ SF_vars(\E p \in Proc : LoadState(p, d, "verify_psbt"))
          /\ SF_vars(RevealIn(d))
          /\ SF_vars(VerifyIn(d))
          /\ SF_vars(VerifyAgainIn(d))
    /\ <>[][\E p \in Proc : StorageStep(p) \/ Command(p)]_vars

FairSpec == Init /\ [][Next /\ ResponseKept]_vars /\ Fairness

\* The PSBT of a session is on disk and can take the signature.
Bound(session) ==
    \E d \in Dir :
        /\ Exists(StateFile(d)) /\ disk[StateFile(d)].session = session
        /\ OriginalMatches(d)
        /\ disk[StateFile(d)].psbt \in Importable

VerifiedSessions == {o.message.session : o \in {x \in shown : x.kind = "psbt_receipt"}}

\* Once host_init_psbt has stored the original, no crash leaves the session stuck: exact
\* retries lead to its verified receipt, although completion is saved before any output
\* (host_verify_psbt).
BoundSessionsComplete ==
    \A session \in Session : Bound(session) ~> (session \in VerifiedSessions)
=============================================================================
