------------------------- MODULE CoordinatorCeremony -------------------------
(***************************************************************************)
(* CoordinatorV1 implements AntiExfilCeremony when its commands run one at *)
(* a time, and, when the operator keeps retrying, brings every session it  *)
(* has shown message 1 of to a receipt.                                    *)
(***************************************************************************)
EXTENDS CoordinatorV1

\* The opening set of a message, and of the signatures in a signed PSBT.
OpeningSet(m)        == [i \in DOMAIN m.slots |-> m.slots[i].opening]
SignedOpeningSet(o)  == [i \in DOMAIN o.partial_sigs |-> o.partial_sigs[i].opening]
SignedSession(o)     == (CHOOSE sig \in {o.partial_sigs[i] : i \in DOMAIN o.partial_sigs} : TRUE)
                            .rho.session

\* The ceremony's variables, read off the disk and off what has been shown.
Committed == {m.session : m \in Disclosed(HOST_COMMIT)}

Bound(session) == {s \in States : s.session = session /\ s.phase # "COMMITMENTS_CREATED"}

Accepted == [session \in Session |->
                IF Bound(session) = {} THEN Absent
                ELSE OpeningSet((CHOOSE s \in Bound(session) : TRUE).message_2)]

Revealed == [session \in Session |->
                {OpeningSet(m) : m \in {n \in Disclosed(HOST_REVEAL) : n.session = session}}]

Imported == [session \in Session |->
                {SignedOpeningSet(o) : o \in {x \in Signed : SignedSession(x) = session}}]

Receipted == {r.session : r \in Receipts}

\* Every opening set a signer can answer a session's commitments with.
OpeningSets ==
    UNION {{[i \in SlotsOf[q] |->
                NoncePoint(KeyOf(i), MessageHash(q, i), HostCommit(Rhos(s, q)[i]), v[i])] :
                v \in [SlotsOf[q] -> Variant]} :
            s \in Session, q \in Psbt}

ASSUME OpeningsAssumption == Absent \notin OpeningSets

Ceremony == INSTANCE AntiExfilCeremony
    WITH Openings <- OpeningSets, None <- Absent,
         committed <- Committed, accepted <- Accepted, revealed <- Revealed,
         imported <- Imported, receipted <- Receipted

\* Whatever is killed and retried, what leaves the coordinator and what its state
\* files say are the steps of one ceremony per session.
ImplementsCeremony == Ceremony!Spec

-----------------------------------------------------------------------------
(***************************************************************************)
(* Progress.  A process that is not killed runs on.  The operator keeps    *)
(* running both later commands on every session directory, and among the   *)
(* packages brought back there is time and again the signer's true answer. *)
(* Processes are killed only finitely often.                               *)
(***************************************************************************)

AcceptIn(d)   == \E p \in Proc : job[p].pc # "idle" /\ job[p].dir = d /\ HostAcceptOpeningsV1(p)
CompleteIn(d) == \E p \in Proc : job[p].pc # "idle" /\ job[p].dir = d /\ HostCompleteV1(p)

Fairness ==
    /\ \A p \in Proc : WF_vars(StorageStep(p) \/ LoadOriginal(p) \/ RefuseInput(p))
    /\ \A d \in Dir :
          /\ SF_vars(\E p \in Proc : LoadState(p, d, "accept"))
          /\ SF_vars(\E p \in Proc : LoadState(p, d, "complete"))
          /\ SF_vars(AcceptIn(d))
          /\ SF_vars(CompleteIn(d))
    /\ <>[][\E p \in Proc : StorageStep(p) \/ Command(p)]_vars

FairSpec == Spec /\ Fairness

\* A session whose message 1 was shown is never stuck: after any crash, exact retry
\* still leads to its receipt.
SessionsComplete ==
    \A s \in Session : (s \in Committed) ~> (s \in Receipted)
=============================================================================
