-------------------------- MODULE AntiExfilCeremony --------------------------
(***************************************************************************)
(* What a durable host promises about each session of the four-message     *)
(* ceremony, with no files, processes, retries or crashes: commitments     *)
(* come first, one opening set is accepted, only then is the randomness    *)
(* revealed, and it is revealed for that opening set alone; signatures are *)
(* imported only under the reveal; a receipt comes last.  A session may    *)
(* stop after any step.                                                    *)
(***************************************************************************)
CONSTANTS
    Session,     \* session identifiers
    Openings,    \* opening sets a signer may answer with
    None         \* no opening set accepted yet

VARIABLES
    committed,   \* sessions whose commitments have been shown (message 1)
    accepted,    \* [Session -> the opening set the host is bound to, or None]
    revealed,    \* [Session -> opening sets its rhos have been shown with (message 3)]
    imported,    \* [Session -> opening sets of the signatures imported (message 4)]
    receipted    \* sessions with a receipt

vars == <<committed, accepted, revealed, imported, receipted>>

Init ==
    /\ committed = {}
    /\ accepted = [s \in Session |-> None]
    /\ revealed = [s \in Session |-> {}]
    /\ imported = [s \in Session |-> {}]
    /\ receipted = {}

Commit(s) ==
    /\ s \notin committed
    /\ committed' = committed \union {s}
    /\ UNCHANGED <<accepted, revealed, imported, receipted>>

Accept(s, openings) ==
    /\ s \in committed
    /\ accepted[s] = None
    /\ accepted' = [accepted EXCEPT ![s] = openings]
    /\ UNCHANGED <<committed, revealed, imported, receipted>>

Reveal(s) ==
    /\ accepted[s] # None
    /\ revealed' = [revealed EXCEPT ![s] = {accepted[s]}]
    /\ UNCHANGED <<committed, accepted, imported, receipted>>

Import(s) ==
    /\ revealed[s] # {}
    /\ imported' = [imported EXCEPT ![s] = revealed[s]]
    /\ UNCHANGED <<committed, accepted, revealed, receipted>>

Certify(s) ==
    /\ imported[s] # {}
    /\ receipted' = receipted \union {s}
    /\ UNCHANGED <<committed, accepted, revealed, imported>>

Next ==
    \E s \in Session :
        \/ Commit(s)
        \/ \E openings \in Openings : Accept(s, openings)
        \/ Reveal(s)
        \/ Import(s)
        \/ Certify(s)

Spec == Init /\ [][Next]_vars
=============================================================================
