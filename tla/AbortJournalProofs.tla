------------------------- MODULE AbortJournalProofs -------------------------
(***************************************************************************)
(* Proofs about AbortJournal, for any number of sessions, reasons and      *)
(* handles, and for journals and strings of any length.                    *)
(***************************************************************************)
EXTENDS AbortJournal, SequenceLemmas

-----------------------------------------------------------------------------
(***************************************************************************)
(* What the digest is for: length framing keeps any two lists of events    *)
(* apart (WalletAbortJournal.digest).                                      *)
(***************************************************************************)

\* A field is its length and its bytes, an event two fields.
LEMMA EventBytesAre ==
    ASSUME NEW e \in Event
    PROVE  /\ e.session \in Seq(Nat) /\ e.reason \in Seq(Nat)
           /\ Field(e.session) \in Seq(Nat) /\ Field(e.reason) \in Seq(Nat)
           /\ EventBytes(e) = Field(e.session) \o Field(e.reason)
           /\ EventBytes(e) \in Seq(Nat) /\ Len(EventBytes(e)) > 0
<1>1. e.session \in Seq(Nat) /\ e.reason \in Seq(Nat)
  BY JournalAssumption DEF Event
<1>2. ASSUME NEW bytes \in Seq(Nat)
      PROVE  Field(bytes) \in Seq(Nat) /\ Len(Field(bytes)) > 0
  BY DEF Field
<1>3. ASSUME NEW x \in Seq(Nat), NEW y \in Seq(Nat), Len(x) > 0
      PROVE  x \o y \in Seq(Nat) /\ Len(x \o y) > 0
  BY <1>3
<1> QED
  BY <1>1, <1>2, <1>3 DEF EventBytes

\* At one place of a string there is one field.
LEMMA OneFieldAt ==
    ASSUME NEW string, NEW p \in Nat, NEW x \in Seq(Nat), NEW y \in Seq(Nat),
           At(string, p, Field(x)), At(string, p, Field(y))
    PROVE  x = y
<1>1. ASSUME NEW z \in Seq(Nat), At(string, p, Field(z))
      PROVE  string[p + 1] = Len(z) /\ At(string, p + 1, z)
  <2>1. <<Len(z)>> \in Seq(Nat) /\ Len(<<Len(z)>>) = 1 /\ <<Len(z)>>[1] = Len(z)
    OBVIOUS
  <2>2. At(string, p, <<Len(z)>> \o z)
    BY <1>1 DEF Field
  <2>3. At(string, p, <<Len(z)>>) /\ At(string, p + Len(<<Len(z)>>), z)
    BY <2>1, <2>2, AtConcat
  <2> QED
    BY <2>1, <2>3 DEF At
<1>2. Len(x) = Len(y) /\ At(string, p + 1, x) /\ At(string, p + 1, y)
  BY <1>1
<1> QED
  BY <1>2, AtSame

\* Behind the same bytes, one string holds one event.
LEMMA OneEventNext ==
    ASSUME NEW string, NEW read \in Seq(Nat), NEW d \in Event, NEW e \in Event,
           Begins(string, read \o EventBytes(d)), Begins(string, read \o EventBytes(e))
    PROVE  d = e
<1> DEFINE p == Len(read)
<1>1. p \in Nat
  OBVIOUS
<1>2. ASSUME NEW g \in Event, Begins(string, read \o EventBytes(g))
      PROVE  /\ At(string, p, Field(g.session))
             /\ At(string, p + Len(Field(g.session)), Field(g.reason))
  <2>1. /\ EventBytes(g) \in Seq(Nat) /\ EventBytes(g) = Field(g.session) \o Field(g.reason)
        /\ Field(g.session) \in Seq(Nat) /\ Field(g.reason) \in Seq(Nat)
    BY EventBytesAre
  <2>2. At(string, 0, read \o EventBytes(g))
    BY <1>2 DEF Begins, At
  <2>3. At(string, 0 + p, EventBytes(g))
    BY <2>1, <2>2, AtConcat
  <2> HIDE DEF p
  <2>4. At(string, p, Field(g.session) \o Field(g.reason))
    BY <1>1, <2>1, <2>3
  <2> QED
    BY <1>1, <2>1, <2>4, AtConcat
<1>3. /\ d.session \in Seq(Nat) /\ e.session \in Seq(Nat)
      /\ d.reason \in Seq(Nat) /\ e.reason \in Seq(Nat)
  BY EventBytesAre
<1> HIDE DEF p
<1>4. d.session = e.session
  BY <1>1, <1>2, <1>3, OneFieldAt
<1>5. Len(Field(d.session)) \in Nat
  BY EventBytesAre
<1>6. d.reason = e.reason
  <2>1. p + Len(Field(d.session)) \in Nat
    BY <1>1, <1>5
  <2>2. /\ At(string, p + Len(Field(d.session)), Field(d.reason))
        /\ At(string, p + Len(Field(d.session)), Field(e.reason))
    BY <1>2, <1>4
  <2> QED
    BY <1>3, <2>1, <2>2, OneFieldAt
<1> QED
  BY <1>4, <1>6 DEF Event

\* A digest is a chain of strings, each behind the one before it.
LEMMA DigestChain ==
    ASSUME NEW e \in Seq(Event), e # <<>>
    PROVE  \E f \in [1..Len(e) -> Seq(Nat)] :
              /\ f[1] = EventBytes(e[1])
              /\ \A i \in 2..Len(e) : f[i] = f[i - 1] \o EventBytes(e[i])
              /\ Digest(e) = f[Len(e)]
              /\ \A i \in 1..Len(e) : Begins(Digest(e), f[i])
<1> DEFINE pieces == [i \in DOMAIN e |-> EventBytes(e[i])]
<1>1. \A i \in 1..Len(e) : EventBytes(e[i]) \in Seq(Nat)
  <2>1. \A i \in 1..Len(e) : e[i] \in Event
    OBVIOUS
  <2>2. \A g \in Event : EventBytes(g) \in Seq(Nat)
    BY EventBytesAre
  <2> QED
    BY <2>1, <2>2
<1>2. /\ pieces \in Seq(Seq(Nat)) /\ Len(pieces) = Len(e) /\ pieces # <<>>
      /\ \A i \in 1..Len(e) : pieces[i] = EventBytes(e[i])
  <2>1. e \in [1..Len(e) -> Event] /\ Len(e) \in Nat /\ Len(e) # 0 /\ DOMAIN e = 1..Len(e)
    OBVIOUS
  <2>2. pieces \in [1..Len(e) -> Seq(Nat)]
    BY <1>1, <2>1
  <2> QED
    BY <2>1, <2>2
<1>3. Digest(e) = FlattenSeq(pieces)
  BY DEF Digest
<1> HIDE DEF pieces
<1>4. PICK f \in [1..Len(pieces) -> Seq(Nat)] :
          /\ Flattens(f, pieces)
          /\ FlattenSeq(pieces) = f[Len(pieces)]
          /\ \A i \in 1..Len(pieces) : Begins(FlattenSeq(pieces), f[i])
  BY <1>2, FlattenIs
<1>5. /\ f[1] = EventBytes(e[1])
      /\ \A i \in 2..Len(e) : f[i] = f[i - 1] \o EventBytes(e[i])
  <2>1. 1 \in 1..Len(e) /\ \A i \in 2..Len(e) : i \in 1..Len(e)
    OBVIOUS
  <2> QED
    BY <1>2, <1>4, <2>1 DEF Flattens
<1> QED
  BY <1>2, <1>3, <1>4, <1>5

\* Different histories have different digests.
LEMMA DigestInjective ==
    ASSUME NEW d \in Seq(Event), NEW e \in Seq(Event), Digest(d) = Digest(e)
    PROVE  d = e
<1>1. ASSUME NEW g \in Seq(Event), g # <<>>
      PROVE  Digest(g) \in Seq(Nat) /\ Len(Digest(g)) > 0
  <2>1. PICK f \in [1..Len(g) -> Seq(Nat)] :
            /\ f[1] = EventBytes(g[1]) /\ Digest(g) = f[Len(g)]
            /\ \A i \in 1..Len(g) : Begins(Digest(g), f[i])
    BY <1>1, DigestChain
  <2>2. Len(g) \in Nat /\ 1 \in 1..Len(g) /\ Len(g) \in 1..Len(g) /\ g[1] \in Event
    BY <1>1
  <2>3. Len(EventBytes(g[1])) > 0
    BY <2>2, EventBytesAre
  <2>4. Len(f[1]) <= Len(Digest(g)) /\ Digest(g) \in Seq(Nat)
    BY <2>1, <2>2 DEF Begins
  <2> QED
    BY <2>1, <2>3, <2>4
<1>2. Len(Digest(<<>>)) = 0
  BY DEF Digest, FlattenSeq
<1>3. ASSUME d # <<>>, e # <<>>
      PROVE  d = e
  <2> DEFINE n == Len(d)
             m == Len(e)
             string == Digest(d)
  <2>1. PICK f \in [1..n -> Seq(Nat)] :
            /\ f[1] = EventBytes(d[1])
            /\ \A i \in 2..n : f[i] = f[i - 1] \o EventBytes(d[i])
            /\ string = f[n]
            /\ \A i \in 1..n : Begins(string, f[i])
    BY <1>3, DigestChain
  <2>2. PICK h \in [1..m -> Seq(Nat)] :
            /\ h[1] = EventBytes(e[1])
            /\ \A i \in 2..m : h[i] = h[i - 1] \o EventBytes(e[i])
            /\ string = h[m]
            /\ \A i \in 1..m : Begins(string, h[i])
    BY <1>3, DigestChain
  <2>3. /\ n \in Nat /\ m \in Nat /\ n >= 1 /\ m >= 1
        /\ \A i \in 1..n : d[i] \in Event
        /\ \A i \in 1..m : e[i] \in Event
    BY <1>3
  <2> HIDE DEF string
  <2> DEFINE least == IF n <= m THEN n ELSE m
             Same == {i \in 1..least : f[i] = h[i] /\ d[i] = e[i]}
  <2>4. least \in Nat /\ \A i \in 1..least : i \in 1..n /\ i \in 1..m
    BY <2>3
  <2>5. 1 \in Same
    <3>1. 1 \in 1..n /\ 1 \in 1..m /\ 1 \in 1..least
      BY <2>3
    <3>2. \A g \in Event : <<>> \o EventBytes(g) = EventBytes(g)
      BY EventBytesAre
    <3>3. <<>> \in Seq(Nat)
      OBVIOUS
    <3>4. Begins(string, <<>> \o EventBytes(d[1])) /\ Begins(string, <<>> \o EventBytes(e[1]))
      BY <2>1, <2>2, <2>3, <3>1, <3>2
    <3>5. d[1] = e[1]
      BY <2>3, <3>1, <3>3, <3>4, OneEventNext
    <3> QED
      BY <2>1, <2>2, <3>1, <3>5
  <2>6. ASSUME NEW i \in 1..(least - 1), i \in Same
        PROVE  i + 1 \in Same
    <3>1. /\ i + 1 \in 1..least /\ i + 1 \in 2..n /\ i + 1 \in 2..m /\ (i + 1) - 1 = i
          /\ i \in 1..n /\ i + 1 \in 1..n /\ i + 1 \in 1..m
      BY <2>3
    <3>2. f[i] \in Seq(Nat) /\ f[i] = h[i]
      BY <2>6, <3>1
    <3>3. f[i + 1] = f[i] \o EventBytes(d[i + 1]) /\ h[i + 1] = f[i] \o EventBytes(e[i + 1])
      BY <2>1, <2>2, <3>1, <3>2
    <3>4. Begins(string, f[i] \o EventBytes(d[i + 1])) /\ Begins(string, f[i] \o EventBytes(e[i + 1]))
      BY <2>1, <2>2, <3>1, <3>3
    <3>5. d[i + 1] = e[i + 1]
      BY <2>3, <3>1, <3>2, <3>4, OneEventNext
    <3> QED
      BY <3>1, <3>3, <3>5
  <2>7. \A i \in 1..least : i \in Same
    <3> HIDE DEF Same, least
    <3> QED
      BY <2>4, <2>5, <2>6, IntervalInduction
  <2>8. ~(n < m)
    <3> SUFFICES ASSUME n < m PROVE FALSE
      OBVIOUS
    <3>1. n + 1 \in 2..m /\ n + 1 \in 1..m /\ n \in 1..m /\ n \in 1..least /\ (n + 1) - 1 = n
      BY <2>3
    <3>2. h[n] = string /\ h[n] \in Seq(Nat)
      BY <2>1, <2>7, <3>1
    <3>3. h[n + 1] = string \o EventBytes(e[n + 1]) /\ Begins(string, h[n + 1])
      BY <2>2, <3>1, <3>2
    <3>4. EventBytes(e[n + 1]) \in Seq(Nat) /\ Len(EventBytes(e[n + 1])) > 0
      BY <2>3, <3>1, EventBytesAre
    <3> QED
      BY <3>2, <3>3, <3>4 DEF Begins
  <2>9. ~(m < n)
    <3> SUFFICES ASSUME m < n PROVE FALSE
      OBVIOUS
    <3>1. m + 1 \in 2..n /\ m + 1 \in 1..n /\ m \in 1..n /\ m \in 1..least /\ (m + 1) - 1 = m
      BY <2>3
    <3>2. f[m] = string /\ f[m] \in Seq(Nat)
      BY <2>2, <2>7, <3>1
    <3>3. f[m + 1] = string \o EventBytes(d[m + 1]) /\ Begins(string, f[m + 1])
      BY <2>1, <3>1, <3>2
    <3>4. EventBytes(d[m + 1]) \in Seq(Nat) /\ Len(EventBytes(d[m + 1])) > 0
      BY <2>3, <3>1, EventBytesAre
    <3> QED
      BY <3>2, <3>3, <3>4 DEF Begins
  <2>10. n = m /\ \A i \in 1..n : d[i] = e[i]
    BY <2>3, <2>7, <2>8, <2>9
  <2> QED
    BY <2>10
<1>4. CASE d = <<>> /\ e # <<>>
  BY <1>1, <1>2, <1>4
<1>5. CASE d # <<>> /\ e = <<>>
  BY <1>1, <1>2, <1>5
<1> QED
  BY <1>3, <1>4, <1>5

-----------------------------------------------------------------------------
(***************************************************************************)
(* One lemma per operation on the journal and on a session.                *)
(***************************************************************************)

\* record appends one well-formed event or nothing.
LEMMA RecordAppends ==
    ASSUME TypeOK, NEW session \in Session, NEW reason \in Reason, Record(session, reason)
    PROVE  /\ events' \in Seq(Event)
           /\ \A i \in DOMAIN events' : events'[i].session # <<>> /\ events'[i].reason # <<>>
           /\ IsPrefix(events, events')
           /\ OneEventEach => OneEventEach'
<1> DEFINE event == [session |-> session, reason |-> reason]
<1>1. event \in Event /\ event.session # <<>> /\ event.reason # <<>>
  BY DEF Event, Record
<1>2. events \in Seq(Event)
  BY DEF TypeOK
<1>3. CASE events' = events
  BY <1>2, <1>3 DEF TypeOK, OneEventEach, IsPrefix
<1>4. CASE ~IsRecorded(session) /\ events' = Append(events, event)
  <2>1. /\ events' \in Seq(Event) /\ Len(events') = Len(events) + 1
        /\ \A i \in 1..Len(events) : events'[i] = events[i]
        /\ events'[Len(events) + 1] = event
    BY <1>1, <1>2, <1>4
  <2>2. \A i \in DOMAIN events' : events'[i].session # <<>> /\ events'[i].reason # <<>>
    BY <1>1, <1>2, <2>1 DEF TypeOK
  <2>3. IsPrefix(events, events')
    <3>1. SubSeq(events, 1, Len(events)) = SubSeq(events', 1, Len(events))
      BY <1>2, <2>1
    <3> QED
      BY <1>2, <2>1, <3>1 DEF IsPrefix
  <2>4. OneEventEach => OneEventEach'
    BY <1>2, <1>4, <2>1 DEF OneEventEach, IsRecorded
  <2> QED
    BY <2>1, <2>2, <2>3, <2>4
<1> QED
  BY <1>3, <1>4 DEF Record

\* Every step records an event and leaves the sessions alone, creates a session, reveals
\* for one, or changes nothing.
LEMMA StepCases ==
    ASSUME TypeOK, [Next]_vars
    PROVE  \/ UNCHANGED vars
           \/ /\ \E session \in Session, reason \in Reason : Record(session, reason)
              /\ UNCHANGED bound
           \/ \E h \in Handle, session \in Session, acknowledge \in BOOLEAN :
                 CreateSession(h, session, acknowledge)
           \/ \E h \in Handle, transcript \in Transcript : AcceptHostReveal(h, transcript)
<1>1. ASSUME NEW h \in Handle, NEW reason \in Reason, RecordPostRevealFailure(h, reason)
      PROVE  /\ Record(bound[h].session, reason) /\ UNCHANGED bound
             /\ bound[h].session \in Session
  BY <1>1 DEF RecordPostRevealFailure, TypeOK, Live
<1>2. ASSUME NEW h \in Handle, RejectSignerData(h)
      PROVE  /\ Record(bound[h].session, SignatureRejected) /\ UNCHANGED bound
             /\ bound[h].session \in Session /\ SignatureRejected \in Reason
  BY <1>2, JournalAssumption DEF RejectSignerData, TypeOK, Live
<1> QED
  BY <1>1, <1>2 DEF Next

\* What a new session object holds.
LEMMA CreateKeeps ==
    ASSUME JournalInv, NEW h \in Handle, NEW session \in Session, NEW acknowledge \in BOOLEAN,
           CreateSession(h, session, acknowledge)
    PROVE  JournalInv'
<1> DEFINE new == [session |-> session, accepted |-> Digest(events), transcript |-> None,
                   revealed |-> FALSE, seen |-> events, acknowledged |-> acknowledge]
<1>1. /\ UNCHANGED events /\ session # <<>> /\ (events = <<>> \/ acknowledge)
      /\ bound' = [bound EXCEPT ![h] = new]
  BY DEF CreateSession
<1>2. /\ DOMAIN bound' = Handle /\ bound'[h] = new
      /\ \A g \in Handle \ {h} : bound'[g] = bound[g]
  BY <1>1 DEF JournalInv, TypeOK
<1>3. DOMAIN new = SessionFields
  BY DEF SessionFields
<1>4. TypeOK'
  BY <1>1, <1>2, <1>3 DEF JournalInv, TypeOK, Live
<1> QED
  BY <1>1, <1>2, <1>4 DEF JournalInv, Live

\* A reveal changes two fields of one session object.
LEMMA RevealKeeps ==
    ASSUME JournalInv, NEW h \in Handle, NEW transcript \in Transcript,
           AcceptHostReveal(h, transcript)
    PROVE  JournalInv'
<1>1. /\ UNCHANGED events /\ h \in Live
      /\ bound' = [bound EXCEPT ![h].transcript = transcript, ![h].revealed = TRUE]
  BY DEF AcceptHostReveal, Live
<1>2. /\ DOMAIN bound[h] = SessionFields /\ DOMAIN bound = Handle
  BY <1>1 DEF JournalInv, TypeOK
<1>3. /\ DOMAIN bound' = Handle /\ DOMAIN bound'[h] = SessionFields
      /\ bound'[h].session = bound[h].session /\ bound'[h].seen = bound[h].seen
      /\ bound'[h].accepted = bound[h].accepted
      /\ bound'[h].acknowledged = bound[h].acknowledged
      /\ bound'[h].transcript = transcript /\ bound'[h].revealed = TRUE
      /\ \A g \in Handle \ {h} : bound'[g] = bound[g]
  BY <1>1, <1>2 DEF SessionFields
<1>4. Live' \subseteq Live
  BY <1>1, <1>3 DEF Live
<1> DEFINE Typed(b) == /\ DOMAIN b = SessionFields
                       /\ b.session \in Session \ {<<>>}
                       /\ b.seen \in Seq(Event)
                       /\ b.accepted = Digest(b.seen)
                       /\ b.revealed \in BOOLEAN
                       /\ b.acknowledged \in BOOLEAN
                       /\ IF b.revealed THEN b.transcript \in Transcript
                                        ELSE b.transcript = None
<1>5. ASSUME NEW g \in Live
      PROVE  Typed(bound'[g])
  <2>1. CASE g = h
    BY <1>1, <1>3, <2>1 DEF JournalInv, TypeOK
  <2>2. CASE g # h
    <3>1. bound'[g] = bound[g]
      BY <1>3, <2>2 DEF Live
    <3>2. Typed(bound[g])
      BY DEF JournalInv, TypeOK
    <3> QED
      BY <3>1, <3>2
  <2> QED
    BY <2>1, <2>2
<1>6. TypeOK'
  <2>1. \A g \in Live' : Typed(bound'[g])
    <3> HIDE DEF Typed
    <3> QED
      BY <1>4, <1>5
  <2>2. /\ events' \in Seq(Event)
        /\ \A i \in DOMAIN events' : events'[i].session # <<>> /\ events'[i].reason # <<>>
    BY <1>1 DEF JournalInv, TypeOK
  <2> QED
    BY <1>3, <2>1, <2>2 DEF TypeOK
<1>7. ASSUME NEW g \in Live', bound'[g].seen # <<>>
      PROVE  bound'[g].acknowledged
  BY <1>1, <1>3, <1>4, <1>7 DEF JournalInv, Live
<1> QED
  BY <1>6, <1>7 DEF JournalInv

-----------------------------------------------------------------------------
(***************************************************************************)
(* The inductive invariant.                                                *)
(***************************************************************************)

LEMMA JournalInit == Init => JournalInv /\ OneEventEach
BY DEF Init, JournalInv, TypeOK, Live, OneEventEach

LEMMA JournalStep ==
    JournalInv /\ OneEventEach /\ [Next]_vars => JournalInv' /\ OneEventEach'
<1> SUFFICES ASSUME JournalInv, OneEventEach, [Next]_vars
             PROVE  JournalInv' /\ OneEventEach'
  OBVIOUS
<1>1. TypeOK
  BY DEF JournalInv
<1>2. CASE UNCHANGED vars
  BY <1>2 DEF vars, JournalInv, TypeOK, Live, OneEventEach
<1>3. ASSUME NEW session \in Session, NEW reason \in Reason,
             Record(session, reason), UNCHANGED bound
      PROVE  JournalInv' /\ OneEventEach'
  BY <1>1, <1>3, RecordAppends DEF JournalInv, TypeOK, Live
<1>4. ASSUME NEW h \in Handle, NEW session \in Session, NEW acknowledge \in BOOLEAN,
             CreateSession(h, session, acknowledge)
      PROVE  JournalInv' /\ OneEventEach'
  BY <1>4, CreateKeeps DEF CreateSession, OneEventEach
<1>5. ASSUME NEW h \in Handle, NEW transcript \in Transcript, AcceptHostReveal(h, transcript)
      PROVE  JournalInv' /\ OneEventEach'
  BY <1>5, RevealKeeps DEF AcceptHostReveal, OneEventEach
<1> QED
  BY <1>1, <1>2, <1>3, <1>4, <1>5, StepCases

\* The journal and every session object are well formed, and a session's digest is that
\* of the journal it was created against.
THEOREM TypeCorrect == Spec => []TypeOK
<1>1. JournalInv => TypeOK
  BY DEF JournalInv
<1> QED
  BY <1>1, JournalInit, JournalStep, PTL DEF Spec

\* OneEventEach: however often a session's abort is reported, and by whom, it is on
\* record once (WalletAbortJournal.record).
THEOREM RecordedOnce == Spec => []OneEventEach
BY JournalInit, JournalStep, PTL DEF Spec

\* HistoryKept: no call drops, reorders or rewrites an event on record
\* (WalletAbortJournal.record).
THEOREM HistoryAppended == Spec => HistoryKept
<1>1. JournalInv /\ [Next]_vars => [IsPrefix(events, events')]_vars
  <2> SUFFICES ASSUME JournalInv, [Next]_vars, ~UNCHANGED vars
               PROVE  IsPrefix(events, events')
    OBVIOUS
  <2>1. TypeOK /\ events \in Seq(Event)
    BY DEF JournalInv, TypeOK
  <2>2. UNCHANGED events => IsPrefix(events, events')
    BY <2>1 DEF IsPrefix
  <2> QED
    BY <2>1, <2>2, StepCases, RecordAppends DEF CreateSession, AcceptHostReveal
<1> QED
  BY <1>1, JournalInit, JournalStep, PTL DEF Spec, HistoryKept

\* UnseenAbortRevokes: a session that has not revealed is revoked by every abort
\* recorded since its creation, of whichever session, and existing aborts had to be
\* acknowledged (AbortBoundSession.accept_host_reveal).
THEOREM UnseenAbortsRevoke == Spec => UnseenAbortRevokes
<1> DEFINE Revokes ==
        \A h \in Live :
            (bound'[h].revealed /\ ~bound[h].revealed) =>
                /\ bound[h].seen = events
                /\ events # <<>> => bound[h].acknowledged
<1>1. JournalInv /\ [Next]_vars => [Revokes]_vars
  <2> SUFFICES ASSUME JournalInv, [Next]_vars, ~UNCHANGED vars, NEW g \in Live,
                      bound'[g].revealed, ~bound[g].revealed
               PROVE  bound[g].seen = events /\ (events # <<>> => bound[g].acknowledged)
    OBVIOUS
  <2>1. TypeOK /\ g \in Handle /\ DOMAIN bound = Handle
    BY DEF JournalInv, TypeOK, Live
  <2>2. PICK h \in Handle, transcript \in Transcript : AcceptHostReveal(h, transcript)
    <3>1. bound' # bound
      OBVIOUS
    <3>2. ASSUME NEW h \in Handle, NEW session \in Session, NEW acknowledge \in BOOLEAN,
                 CreateSession(h, session, acknowledge)
          PROVE  bound'[g] = bound[g]
      BY <2>1, <3>2 DEF CreateSession, Live
    <3> QED
      BY <2>1, <3>1, <3>2, StepCases
  <2>3. g = h
    BY <2>1, <2>2 DEF AcceptHostReveal
  <2>4. Digest(events) = bound[g].accepted
    BY <2>2, <2>3 DEF AcceptHostReveal, MayReveal
  <2>5. /\ events \in Seq(Event) /\ bound[g].seen \in Seq(Event)
        /\ bound[g].accepted = Digest(bound[g].seen)
    BY <2>1 DEF TypeOK
  <2>6. bound[g].seen = events
    BY <2>4, <2>5, DigestInjective
  <2> QED
    BY <2>6 DEF JournalInv
<1> QED
  BY <1>1, JournalInit, JournalStep, PTL DEF Spec, UnseenAbortRevokes

\* RetryExact: once it has revealed, a session discloses for that transcript and no
\* other, and never stops doing so (AbortBoundSession.accept_host_reveal).
THEOREM RetriesExact == Spec => []RetryExact
<1>1. JournalInv => RetryExact
  BY JournalAssumption DEF JournalInv, TypeOK, RetryExact, MayReveal
<1> QED
  BY <1>1, JournalInit, JournalStep, PTL DEF Spec

\* DigestSeparates: a digest a session holds is that of no other history than the one it
\* was created against, so that comparing digests is comparing histories
\* (WalletAbortJournal.digest).
THEOREM DigestsSeparate == Spec => []DigestSeparates
<1>1. JournalInv => DigestSeparates
  <2> SUFFICES ASSUME JournalInv, NEW h \in Live, NEW e \in Histories,
                      Digest(e) = bound[h].accepted
               PROVE  e = bound[h].seen
    BY DEF DigestSeparates
  <2>1. bound[h].seen \in Seq(Event) /\ bound[h].accepted = Digest(bound[h].seen)
    BY DEF JournalInv, TypeOK
  <2>2. e \in Seq(Event)
    <3>1. PICK n \in 0..Cardinality(Session) :
              e \in [1..n -> [session : Session \ {<<>>}, reason : Reason \ {<<>>}]]
      BY DEF Histories
    <3>2. n \in Nat /\ e \in [1..n -> Event]
      BY <3>1 DEF Event
    <3> QED
      BY <3>2
  <2> QED
    BY <2>1, <2>2, DigestInjective
<1> QED
  BY <1>1, JournalInit, JournalStep, PTL DEF Spec
=============================================================================
