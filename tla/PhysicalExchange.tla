--------------------------- MODULE PhysicalExchange ---------------------------
(***************************************************************************)
(* The file exchange with a signer on a card (physical_workflow.py): the   *)
(* host commands prepare, reveal and verify, each on a local run directory *)
(* and the one exchange directory of the card, and the signer that reads   *)
(* the card when it boots (seedsigner_adapter.py behind a boot script that *)
(* is not part of the repository).                                         *)
(*                                                                         *)
(* Host commands run one at a time and may be killed before any write; the *)
(* card is with the host or with the signer and moves between commands;    *)
(* a command may be given the run directory of another exchange.  The      *)
(* session underneath is the one of psbt_workflow.py, its writes included. *)
(* The fixture PSBT is the same in every run, so a session is known by its *)
(* identifier and commitment only.                                         *)
(***************************************************************************)
EXTENDS AntiExfilCrypto, Naturals, Sequences

CONSTANTS
    Run,         \* local run directories; prepare draws one session for each
    MaxFaults,   \* bound: crashes, failed marker updates and failing signers
    MaxClears    \* bound: times the exchange directory is removed from the card

ASSUME ExchangeAssumption == MaxFaults \in Nat /\ MaxClears \in Nat

VARIABLES
    local,    \* [Run -> [existing files -> contents]]: the run directories
    card,     \* [existing files -> contents]: the card's exchange directory
    host,     \* the host command under way
    holder,   \* who has the card: "host" or "signer"
    pending,  \* the exit code the signer's boot script is about to write
    faults,   \* faults so far
    clears    \* removals of the exchange directory so far

vars == <<local, card, host, holder, pending, faults, clears>>

-----------------------------------------------------------------------------
(***************************************************************************)
(* Messages and outputs.  The fixture fixes the key and the hash.          *)
(***************************************************************************)

HOST_COMMIT       == 1
SIGNER_OPENINGS   == 2
HOST_REVEAL       == 3
SIGNER_SIGNATURES == 4

Key == "key"
Hash == "hash"

\* os.urandom never repeats, so rho is named by the run that draws it.
Message1(r) ==
    [stage |-> HOST_COMMIT, session |-> r, commitment |-> HostCommit(r),
     opening |-> Absent, rho |-> Absent, signature |-> Absent]

Opening(m) == NoncePoint(Key, Hash, m.commitment, 0)

InitialState(r) ==
    [phase |-> "COMMITMENTS_CREATED", session |-> r, rho |-> r,
     commitment |-> HostCommit(r), opening |-> Absent, signature |-> Absent, rung |-> "B"]

\* The names of files; "." stands for a directory itself.
MessageFile == <<"message-1", "message-2", "message-3", "message-4">>
ExitFile(stage) == IF stage = HOST_COMMIT THEN "exit-1" ELSE "exit-3"

-----------------------------------------------------------------------------
(***************************************************************************)
(* A host command: the writes it has to do before its next decision, and   *)
(* the decision.  Nothing but files outlives it.                           *)
(***************************************************************************)

Idle == [at |-> "idle"]

Doing(r, writes, next) == [at |-> "writing", run |-> r, writes |-> writes, next |-> next]

\* write_exact, or a save that replaces the file whatever it holds.
Exact(place, file, data)   == [place |-> place, file |-> file, data |-> data, exact |-> TRUE]
Replace(place, file, data) == [Exact(place, file, data) EXCEPT !.exact = FALSE]

Has(place, r, file) == IF place = "card" THEN file \in DOMAIN card ELSE file \in DOMAIN local[r]
Read(place, r, file) == IF place = "card" THEN card[file] ELSE local[r][file]

With(files, file, data) == [f \in DOMAIN files \union {file} |->
                               IF f = file THEN data ELSE files[f]]

Init ==
    /\ local = [r \in Run |-> << >>]
    /\ card = << >>
    /\ host = Idle
    /\ holder = "host"
    /\ pending = Absent
    /\ faults = 0
    /\ clears = 0

\* (Fault: a file that is already there is refused, whatever it holds.)
MayWriteNewOnly(w, r) == w.exact => ~Has(w.place, r, w.file)

\* What write_exact lets through: a new file, or the same content again.
MayWrite(w, r) ==
    w.exact /\ Has(w.place, r, w.file) => Read(w.place, r, w.file) = w.data

\* The next write of the command; when none is left the command goes on.
Write ==
    /\ host.at = "writing"
    /\ host.writes # << >>
    /\ LET w == Head(host.writes)
       IN  /\ MayWrite(w, host.run)
           /\ IF w.place = "card"
              THEN card' = With(card, w.file, w.data) /\ UNCHANGED local
              ELSE /\ local' = [local EXCEPT ![host.run] = With(local[host.run], w.file, w.data)]
                   /\ UNCHANGED card
    /\ host' = IF Len(host.writes) = 1
               THEN IF host.next = "done" THEN Idle
                    ELSE [Doing(host.run, << >>, host.next) EXCEPT !.at = host.next]
               ELSE [host EXCEPT !.writes = Tail(host.writes)]
    /\ UNCHANGED <<holder, pending, faults, clears>>

\* OUTPUT_EXISTS.
RefuseWrite ==
    /\ host.at = "writing"
    /\ host.writes # << >>
    /\ ~MayWrite(Head(host.writes), host.run)
    /\ host' = Idle
    /\ UNCHANGED <<local, card, holder, pending, faults, clears>>

\* A command that finds the card away, or a result or message missing, changes nothing.
MayStart == host.at = "idle" /\ holder = "host"

-----------------------------------------------------------------------------
(***************************************************************************)
(* prepare                                                                 *)
(***************************************************************************)

\* Everything prepare writes, in its order: both directories, the fixture, the session
\* (host_init_psbt: state, message 1, the state bound to the PSBT, the original), the card.
PrepareWrites(r) ==
    << Exact("local", ".", "directory"), Exact("card", ".", "directory"),
       Exact("local", "request.psbt", "fixture"),
       Replace("local", "state.json", InitialState(r)),
       Exact("local", "message-1", Message1(r)),
       Replace("local", "state.json", [InitialState(r) EXCEPT !.rung = "C"]),
       Exact("local", "original.psbt", "fixture"),
       Exact("card", "request.psbt", "fixture"),
       Exact("card", "message-1", Message1(r)),
       Exact("card", "marker", HOST_COMMIT),
       Exact("local", "prepare-receipt", "prepared") >>

Prepare(r) ==
    /\ MayStart
    /\ local[r] = << >>
    /\ "." \notin DOMAIN card
    /\ host' = Doing(r, PrepareWrites(r), "done")
    /\ UNCHANGED <<local, card, holder, pending, faults, clears>>

-----------------------------------------------------------------------------
(***************************************************************************)
(* reveal                                                                  *)
(***************************************************************************)

\* _read_success_code, then the card's message into the run directory.
Fetch(r, stage, next) ==
    /\ MayStart
    /\ ExitFile(stage) \in DOMAIN card
    /\ card[ExitFile(stage)] = "0"
    /\ MessageFile[stage + 1] \in DOMAIN card
    /\ host' = Doing(r, <<Exact("local", MessageFile[stage + 1], card[MessageFile[stage + 1]])>>,
                     next)
    /\ UNCHANGED <<local, card, holder, pending, faults, clears>>

Reveal(r) == Fetch(r, HOST_COMMIT, "accept")

\* (Fault: the session of the response is not compared.)
SameContextAny(s, m) == TRUE

\* _require_state_context.
SameContext(s, m) == m.session = s.session /\ m.commitment = s.commitment

\* host_reveal's checks on the state and on message 2.
OpeningAccepted(r, m) ==
    /\ "state.json" \in DOMAIN local[r]
    /\ m.stage = SIGNER_OPENINGS
    /\ SameContext(local[r]["state.json"], m)
    /\ local[r]["state.json"].opening \in {Absent, m.opening}

RevealOf(s, m) == [m EXCEPT !.stage = HOST_REVEAL, !.rho = s.rho]

\* (Fault: the reveal goes out before the accepted opening is saved.)
AcceptWritesUnsaved(r, m) ==
    LET s == local[r]["state.json"]
    IN  << Exact("local", "message-3", RevealOf(s, m)),
           Exact("card", "message-3", RevealOf(s, m)),
           Replace("local", "state.json",
                [s EXCEPT !.opening = m.opening,
                          !.phase = IF s.phase = "COMPLETE" THEN "COMPLETE"
                                                            ELSE "OPENINGS_ACCEPTED"]) >>

\* The state is saved on the first acceptance only; a retry rewrites what it holds.
AcceptWrites(r, m) ==
    LET s == local[r]["state.json"]
    IN  << Replace("local", "state.json",
                [s EXCEPT !.opening = m.opening,
                          !.phase = IF s.phase = "COMPLETE" THEN "COMPLETE"
                                                            ELSE "OPENINGS_ACCEPTED"]),
           Exact("local", "message-3", RevealOf(s, m)),
           Exact("card", "message-3", RevealOf(s, m)) >>

Accept ==
    /\ host.at = "accept"
    /\ LET m == local[host.run]["message-2"]
       IN  /\ OpeningAccepted(host.run, m)
           /\ host' = Doing(host.run, AcceptWrites(host.run, m), "mark")
    /\ UNCHANGED <<local, card, holder, pending, faults, clears>>

\* _replace_stage_marker up to the temporary file.
Mark ==
    /\ host.at = "mark"
    /\ card["marker"] = HOST_COMMIT
    /\ "marker.tmp" \notin DOMAIN card
    /\ card' = With(card, "marker.tmp", HOST_REVEAL)
    /\ host' = [host EXCEPT !.at = "replace"]
    /\ UNCHANGED <<local, holder, pending, faults, clears>>

Without(files, file) == [f \in DOMAIN files \ {file} |-> files[f]]

ReplaceMarker ==
    /\ host.at = "replace"
    /\ card' = With(Without(card, "marker.tmp"), "marker", card["marker.tmp"])
    /\ host' = Idle
    /\ UNCHANGED <<local, holder, pending, faults, clears>>

\* A write or replace that fails is undone: the temporary file is removed.
MarkerFails ==
    /\ host.at = "replace"
    /\ faults < MaxFaults
    /\ card' = Without(card, "marker.tmp")
    /\ host' = Idle
    /\ faults' = faults + 1
    /\ UNCHANGED <<local, holder, pending, clears>>

-----------------------------------------------------------------------------
(***************************************************************************)
(* verify                                                                  *)
(***************************************************************************)

Verify(r) == Fetch(r, HOST_REVEAL, "complete")

\* host_verify_psbt's checks, those of host_verify included.
SignatureAccepted(r, m) ==
    /\ {"state.json", "original.psbt"} \subseteq DOMAIN local[r]
    /\ LET s == local[r]["state.json"]
       IN  /\ s.rung = "C"
           /\ m.stage = SIGNER_SIGNATURES
           /\ SameContext(s, m)
           /\ s.phase # "COMMITMENTS_CREATED"
           /\ m.opening = s.opening
           /\ m.rho = s.rho
           /\ VerifyAntiExfil(Key, Hash, m.rho, m.opening, m.signature)
           /\ s.signature \in {Absent, m.signature}

\* (Fault: the receipt is written before what it certifies.)
CompleteWritesReceiptFirst(r, m) ==
    << Replace("local", "state.json",
            [local[r]["state.json"] EXCEPT !.phase = "COMPLETE", !.signature = m.signature]),
       Exact("local", "verified-receipt", m),
       Exact("local", "anti-exfil-receipt", m),
       Exact("local", "signed.psbt", m.signature),
       Exact("local", "transaction.raw", m.signature) >>

CompleteWrites(r, m) ==
    << Replace("local", "state.json",
            [local[r]["state.json"] EXCEPT !.phase = "COMPLETE", !.signature = m.signature]),
       Exact("local", "anti-exfil-receipt", m),
       Exact("local", "signed.psbt", m.signature),
       Exact("local", "transaction.raw", m.signature),
       Exact("local", "verified-receipt", m) >>

Complete ==
    /\ host.at = "complete"
    /\ LET m == local[host.run]["message-4"]
       IN  /\ SignatureAccepted(host.run, m)
           /\ host' = Doing(host.run, CompleteWrites(host.run, m), "done")
    /\ UNCHANGED <<local, card, holder, pending, faults, clears>>

\* WRONG_STAGE, OUTPUT_EXISTS, or a response that is refused.
Refuse ==
    /\ \/ host.at = "accept" /\ ~OpeningAccepted(host.run, local[host.run]["message-2"])
       \/ host.at = "complete" /\ ~SignatureAccepted(host.run, local[host.run]["message-4"])
       \/ /\ host.at = "mark"
          /\ card["marker"] # HOST_COMMIT \/ "marker.tmp" \in DOMAIN card
    /\ host' = Idle
    /\ UNCHANGED <<local, card, holder, pending, faults, clears>>

Crash ==
    /\ host.at # "idle"
    /\ faults < MaxFaults
    /\ host' = Idle
    /\ faults' = faults + 1
    /\ UNCHANGED <<local, card, holder, pending, clears>>

-----------------------------------------------------------------------------
(***************************************************************************)
(* The signer.  Its boot script runs the stage the marker names, unless a  *)
(* response or an exit code of that stage is on the card already, and then *)
(* writes the exit code.                                                   *)
(***************************************************************************)

Requested(stage) ==
    /\ holder = "signer"
    /\ pending = Absent
    /\ "marker" \in DOMAIN card
    /\ card["marker"] = stage
    /\ {ExitFile(stage), MessageFile[stage + 1]} \intersect DOMAIN card = {}

Respond(stage, m) ==
    /\ card' = With(card, MessageFile[stage + 1], m)
    /\ pending' = [stage |-> stage, code |-> "0"]
    /\ UNCHANGED <<local, host, holder, faults, clears>>

\* signer_commit_seedsigner.
SignerCommit ==
    /\ Requested(HOST_COMMIT)
    /\ {"message-1", "request.psbt"} \subseteq DOMAIN card
    /\ card["message-1"].stage = HOST_COMMIT
    /\ LET m == card["message-1"]
       IN  Respond(HOST_COMMIT, [m EXCEPT !.stage = SIGNER_OPENINGS, !.opening = Opening(m)])

\* signer_sign_seedsigner: the commitment and the recomputed opening must agree.
Signable(m) ==
    /\ m.stage = HOST_REVEAL
    /\ HostCommit(m.rho) = m.commitment
    /\ m.opening = Opening(m)

SignerSign ==
    /\ Requested(HOST_REVEAL)
    /\ {"message-3", "request.psbt"} \subseteq DOMAIN card
    /\ Signable(card["message-3"])
    /\ LET m == card["message-3"]
       IN  Respond(HOST_REVEAL,
                [m EXCEPT !.stage = SIGNER_SIGNATURES,
                          !.signature = AntiExfilSignature(Key, Hash, m.rho, m.opening)])

\* A stage that fails, for want of a library or of what it needs on the card.
SignerFails ==
    /\ faults < MaxFaults
    /\ \E stage \in {HOST_COMMIT, HOST_REVEAL} :
          /\ Requested(stage)
          /\ pending' = [stage |-> stage, code |-> "1"]
    /\ faults' = faults + 1
    /\ UNCHANGED <<local, card, host, holder, clears>>

SignerReports ==
    /\ pending # Absent
    /\ card' = With(card, ExitFile(pending.stage), pending.code)
    /\ pending' = Absent
    /\ UNCHANGED <<local, host, holder, faults, clears>>

\* Power is cut before the exit code is written.
SignerPowerLoss ==
    /\ pending # Absent
    /\ faults < MaxFaults
    /\ pending' = Absent
    /\ faults' = faults + 1
    /\ UNCHANGED <<local, card, host, holder, clears>>

-----------------------------------------------------------------------------
(***************************************************************************)
(* The operator.                                                           *)
(***************************************************************************)

MoveCard ==
    /\ host.at = "idle"
    /\ pending = Absent
    /\ holder' = IF holder = "host" THEN "signer" ELSE "host"
    /\ UNCHANGED <<local, card, host, pending, faults, clears>>

\* The exchange directory is removed, or the card flashed again.
ClearCard ==
    /\ MayStart
    /\ clears < MaxClears
    /\ card # << >>
    /\ card' = << >>
    /\ clears' = clears + 1
    /\ UNCHANGED <<local, host, holder, pending, faults>>

Command(r) == Prepare(r) \/ Reveal(r) \/ Verify(r)

HostStep == Write \/ RefuseWrite \/ Accept \/ Mark \/ ReplaceMarker \/ Complete \/ Refuse

SignerStep == SignerCommit \/ SignerSign \/ SignerReports

Next ==
    \/ \E r \in Run : Command(r)
    \/ HostStep
    \/ SignerStep
    \/ MarkerFails \/ Crash \/ SignerFails \/ SignerPowerLoss
    \/ MoveCard \/ ClearCard

Spec == Init /\ [][Next]_vars

-----------------------------------------------------------------------------
(***************************************************************************)
(* Properties                                                              *)
(***************************************************************************)

\* Message n of session r answers message n - 1: one commitment, opening and rho throughout.
Chain(r, files, stage) ==
    /\ \A n \in 1..stage : MessageFile[n] \in DOMAIN files
    /\ \A n \in 1..stage : files[MessageFile[n]].stage = n /\ files[MessageFile[n]].session = r
    /\ \A n \in 1..stage : files[MessageFile[n]].commitment = HostCommit(r)
    /\ \A n \in 2..stage : files[MessageFile[n]].opening = files[MessageFile[2]].opening
    /\ \A n \in 3..stage : HostCommit(files[MessageFile[n]].rho) = HostCommit(r)

\* Whenever the card leaves the host, killed commands, a wrong run directory and earlier
\* exchanges included, what the marker asks of the signer can be done from the card alone:
\* the PSBT and every message up to that stage are on it and belong to one session.
MarkerAnnounces ==
    "marker" \in DOMAIN card =>
        /\ "request.psbt" \in DOMAIN card
        /\ \E r \in Run : Chain(r, card, card["marker"])
        /\ card["marker"] = HOST_REVEAL => ExitFile(HOST_COMMIT) \in DOMAIN card

\* No rho reaches the card, or the run directory's message 3, unless the session's state
\* durably holds the opening it is revealed for (host_reveal within reveal).
RevealBacked ==
    \A files \in {card} \union {local[r] : r \in Run} :
        "message-3" \in DOMAIN files =>
            LET m == files["message-3"]
            IN  \E r \in Run :
                    /\ "state.json" \in DOMAIN local[r]
                    /\ local[r]["state.json"].session = m.session
                    /\ local[r]["state.json"].rho = m.rho
                    /\ local[r]["state.json"].opening = m.opening

\* A verified receipt stands for a whole exchange kept in its run directory: the four
\* messages of one session, a signature that verifies, the signed PSBT and transaction.
ReceiptsAgree ==
    \A r \in Run : "verified-receipt" \in DOMAIN local[r] =>
        /\ Chain(r, local[r], SIGNER_SIGNATURES)
        /\ local[r]["verified-receipt"] = local[r]["message-4"]
        /\ VerifyAntiExfil(Key, Hash, r, local[r]["message-2"].opening,
                            local[r]["message-4"].signature)
        /\ {"signed.psbt", "transaction.raw", "anti-exfil-receipt"} \subseteq DOMAIN local[r]

-----------------------------------------------------------------------------
(***************************************************************************)
(* Progress.  Commands and boots run on to an end (of the finitely many    *)
(* faults, some end them); the operator keeps carrying the card and keeps  *)
(* retrying reveal and verify for the run the card was prepared with.      *)
(***************************************************************************)

Fairness ==
    /\ WF_vars(HostStep)
    /\ WF_vars(SignerReports)
    /\ SF_vars(SignerCommit) /\ SF_vars(SignerSign)
    /\ SF_vars(MoveCard)
    /\ \A r \in Run : SF_vars(Reveal(r)) /\ SF_vars(Verify(r))

FairSpec == Spec /\ Fairness

\* The card is prepared for run r.
Prepared(r) == "marker" \in DOMAIN card /\ card["message-1"] = Message1(r)

\* A temporary marker left by a kill, which _replace_stage_marker refuses for ever.
MarkerStuck == "marker.tmp" \in DOMAIN card /\ host.at # "replace"

\* A signer stage that failed, or answered without a report: it is not run again.
SignerStuck ==
    \E stage \in {HOST_COMMIT, HOST_REVEAL} :
        \/ ExitFile(stage) \in DOMAIN card /\ card[ExitFile(stage)] # "0"
        \/ /\ MessageFile[stage + 1] \in DOMAIN card
           /\ ExitFile(stage) \notin DOMAIN card /\ pending = Absent

\* The run directory took a message of another session, which write_exact never replaces.
Misfetched(r) ==
    \E n \in {SIGNER_OPENINGS, SIGNER_SIGNATURES} :
        MessageFile[n] \in DOMAIN local[r] /\ local[r][MessageFile[n]].session # r

\* Kills at any other point cost nothing: an exchange whose marker is on the card reaches
\* its verified receipt, unless the card is cleared or one of the three lasting traps closes.
ExchangesFinish ==
    \A r \in Run :
        Prepared(r) ~> \/ "verified-receipt" \in DOMAIN local[r]
                       \/ ~Prepared(r)
                       \/ MarkerStuck \/ SignerStuck \/ Misfetched(r)
=============================================================================
