---------------------------- MODULE AbortJournal ----------------------------
(***************************************************************************)
(* The wallet-wide abort journal (adversarial.py, WalletAbortJournal) and  *)
(* the sessions bound to a snapshot of it (AbortBoundSession).             *)
(*                                                                         *)
(* A journal keeps the first abort of each session, in the order they were *)
(* recorded.  A session is created against the journal as it is at that    *)
(* moment, kept as a digest; its first reveal is refused if the journal    *)
(* has changed since.  All sessions of a wallet share the journal, and     *)
(* their calls interleave.  A call that raises changes nothing.            *)
(***************************************************************************)
EXTENDS Naturals, SequencesExt

CONSTANTS
    Handle,              \* AbortBoundSession objects
    Session,             \* session identifiers callers pass: byte strings
    Reason,              \* abort reasons callers pass: byte strings
    SignatureRejected,   \* the reason reject_signer_data records
    Transcript,          \* opening transcripts callers pass
    MaxLength,           \* the longest string whose length fits in two bytes
    None

ASSUME JournalAssumption ==
    /\ Session \subseteq Seq(Nat)
    /\ Reason \subseteq Seq(Nat)
    /\ SignatureRejected \in Reason \ {<<>>}
    /\ None \notin Transcript
    /\ MaxLength \in Nat

VARIABLES
    events,    \* the journal: AbortEvents in insertion order
    bound      \* [Handle -> an AbortBoundSession, or None before create_session]

vars == <<events, bound>>

Event == [session : Session, reason : Reason]

-----------------------------------------------------------------------------
(***************************************************************************)
(* WalletAbortJournal                                                      *)
(***************************************************************************)

\* The bytes of one event: each field behind its length.
Field(bytes)  == <<Len(bytes)>> \o bytes
EventBytes(e) == Field(e.session) \o Field(e.reason)

\* (Fault: the fields are joined without their lengths.)
DigestUnframed(history) ==
    FlattenSeq([i \in DOMAIN history |-> history[i].session \o history[i].reason])

\* SHA-256 is injective, so the digest of a history is the string it hashes.
Digest(history) == FlattenSeq([i \in DOMAIN history |-> EventBytes(history[i])])

\* digest raises OverflowError on a journal that holds a longer string.
Encodable(history) ==
    \A i \in DOMAIN history :
        Len(history[i].session) <= MaxLength /\ Len(history[i].reason) <= MaxLength

IsRecorded(session) == \E i \in DOMAIN events : events[i].session = session

\* (Fault: a later event of a session replaces its first one.)
RecordLatest(session, reason) ==
    /\ session # <<>> /\ reason # <<>>
    /\ events' = SelectSeq(events, LAMBDA e : e.session # session)
                    \o <<[session |-> session, reason |-> reason]>>

\* (Fault: every report of a session is an event.)
RecordEvery(session, reason) ==
    /\ session # <<>> /\ reason # <<>>
    /\ events' = Append(events, [session |-> session, reason |-> reason])

\* record: the first event of a session is kept.
Record(session, reason) ==
    /\ session # <<>> /\ reason # <<>>
    /\ events' = IF IsRecorded(session) THEN events
                 ELSE Append(events, [session |-> session, reason |-> reason])

-----------------------------------------------------------------------------
(***************************************************************************)
(* AbortBoundSession.  "seen" and "acknowledged" are history: the journal  *)
(* and the caller's flag at create_session.                                *)
(***************************************************************************)

CreateSession(h, session, acknowledge) ==
    /\ bound[h] = None
    /\ session # <<>>
    /\ events = <<>> \/ acknowledge
    /\ Encodable(events)
    /\ bound' = [bound EXCEPT ![h] =
            [session |-> session, accepted |-> Digest(events), transcript |-> None,
             revealed |-> FALSE, seen |-> events, acknowledged |-> acknowledge]]
    /\ UNCHANGED events

\* (Fault: the journal is not looked at again.)
MayRevealUnchecked(b, transcript) == b.transcript \in {None, transcript}

\* (Fault: a session that has revealed returns before its transcript is compared.)
MayRevealAnyRetry(b, transcript) ==
    \/ b.revealed
    \/ /\ b.transcript \in {None, transcript}
       /\ Encodable(events)
       /\ Digest(events) = b.accepted

\* When accept_host_reveal returns: an exact retry does not look at the journal.
MayReveal(b, transcript) ==
    /\ b.transcript \in {None, transcript}
    /\ \/ b.revealed
       \/ /\ Encodable(events)
          /\ Digest(events) = b.accepted

\* (Fault: the transcript is not kept.)
AcceptHostRevealUnbound(h, transcript) ==
    /\ bound[h] # None
    /\ MayReveal(bound[h], transcript)
    /\ bound' = [bound EXCEPT ![h].revealed = TRUE]
    /\ UNCHANGED events

AcceptHostReveal(h, transcript) ==
    /\ bound[h] # None
    /\ MayReveal(bound[h], transcript)
    /\ bound' = [bound EXCEPT ![h].transcript = transcript, ![h].revealed = TRUE]
    /\ UNCHANGED events

RecordPostRevealFailure(h, reason) ==
    /\ bound[h] # None
    /\ bound[h].revealed
    /\ Record(bound[h].session, reason)
    /\ UNCHANGED bound

RejectSignerData(h) ==
    /\ bound[h] # None
    /\ Record(bound[h].session, SignatureRejected)
    /\ UNCHANGED bound

-----------------------------------------------------------------------------
Init ==
    /\ events = <<>>
    /\ bound = [h \in Handle |-> None]

Next ==
    \/ \E session \in Session, reason \in Reason : Record(session, reason) /\ UNCHANGED bound
    \/ \E h \in Handle :
          \/ \E session \in Session, acknowledge \in BOOLEAN :
                CreateSession(h, session, acknowledge)
          \/ \E transcript \in Transcript : AcceptHostReveal(h, transcript)
          \/ \E reason \in Reason : RecordPostRevealFailure(h, reason)
          \/ RejectSignerData(h)

Spec == Init /\ [][Next]_vars

-----------------------------------------------------------------------------
(***************************************************************************)
(* Correctness.                                                            *)
(***************************************************************************)

Live == {h \in Handle : bound[h] # None}

SessionFields == {"session", "accepted", "transcript", "revealed", "seen", "acknowledged"}

\* The journal is a list of events with a session and a reason; a session object holds
\* the digest of the journal it was created against, and a transcript exactly from its
\* first reveal on.
TypeOK ==
    /\ events \in Seq(Event)
    /\ \A i \in DOMAIN events : events[i].session # <<>> /\ events[i].reason # <<>>
    /\ DOMAIN bound = Handle
    /\ \A h \in Live :
          /\ DOMAIN bound[h] = SessionFields
          /\ bound[h].session \in Session \ {<<>>}
          /\ bound[h].seen \in Seq(Event)
          /\ bound[h].accepted = Digest(bound[h].seen)
          /\ bound[h].revealed \in BOOLEAN
          /\ bound[h].acknowledged \in BOOLEAN
          /\ IF bound[h].revealed THEN bound[h].transcript \in Transcript
                                  ELSE bound[h].transcript = None

\* The history is append-only, and the first event of a session is authoritative: no
\* call, of whichever session, drops, reorders or rewrites an event
\* (WalletAbortJournal.record).
HistoryKept == [][IsPrefix(events, events')]_vars

\* A session is on record once at most, whoever reports it and how often
\* (WalletAbortJournal.record).
OneEventEach ==
    \A i, j \in DOMAIN events : events[i].session = events[j].session => i = j

\* A session's first reveal happens only if every abort on record by then was there,
\* and was acknowledged, when the session was created: an abort of any other session in
\* between revokes it (AbortBoundSession.accept_host_reveal).
UnseenAbortRevokes ==
    [][\A h \in Live :
          (bound'[h].revealed /\ ~bound[h].revealed) =>
              /\ bound[h].seen = events
              /\ events # <<>> => bound[h].acknowledged]_vars

\* After its first reveal a session discloses again for exactly the transcript it
\* revealed for, whatever the journal has become meanwhile
\* (AbortBoundSession.accept_host_reveal).
RetryExact ==
    \A h \in Live : bound[h].revealed =>
        \A transcript \in Transcript :
            MayReveal(bound[h], transcript) <=> transcript = bound[h].transcript

\* TypeOK, and that no session was created over a history it did not acknowledge.
JournalInv ==
    /\ TypeOK
    /\ \A h \in Live : bound[h].seen # <<>> => bound[h].acknowledged

\* Every history a journal of these sessions and reasons may hold.
Histories ==
    LET Recordable == [session : Session \ {<<>>}, reason : Reason \ {<<>>}]
    IN  UNION {{f \in [1..n -> Recordable] :
                   \A i, j \in 1..n : f[i].session = f[j].session => i = j} :
               n \in 0..Cardinality(Session)}

\* A digest a session holds stands for one history only, the one it was created
\* against, so comparing digests is comparing histories (WalletAbortJournal.digest).
DigestSeparates ==
    \A h \in Live : \A e \in Histories :
        Digest(e) = bound[h].accepted => e = bound[h].seen
=============================================================================
