--------------------------- MODULE CameraReceiver ---------------------------
(***************************************************************************)
(* The live QR receiver (camera_receiver.py, receive_package, with the     *)
(* accumulator of transport.py).  A bridge process reads the camera and    *)
(* reports QR symbols; each animated UR message on view is a candidate     *)
(* that collects its own fragments; the first complete package of the      *)
(* expected stage and network is written to the output files.              *)
(*                                                                         *)
(* A stream is one animated UR message, known by its candidate key.  What  *)
(* the receiver reads of it is one fragment at a time, in any order and    *)
(* again and again; a mixed fountain part stands for the fragment it       *)
(* recovers.  Records that only change what is logged (OPENED, STATUS,     *)
(* symbols of other types, malformed symbols) are not steps.  One receiver *)
(* runs at a time; the files outlive it, and so does the bridge of a       *)
(* receiver that is killed.  A bridge is the launcher with the child that  *)
(* owns the camera, as _stop_bridge_process takes them: terminate, or kill *)
(* after its timeout, ends both.                                           *)
(***************************************************************************)
EXTENDS TransportEnvelope, FiniteSets, Functions

CONSTANTS
    Stream,           \* animated UR messages that come into view
    Fragments,        \* [Stream -> number of fragments]
    Content,          \* [Stream -> payload, or NotByteString]
    NotByteString,    \* CBOR that is not one definite byte string
    Shown,            \* the symbols <<stream, fragment>> that the camera gets to see
    Arguments,        \* argument lists the receiver is started with
    MaxCandidates,    \* MAX_FOUNTAIN_CANDIDATES
    MaxScans          \* bound: how often the receiver is started

File == {"package", "message", "psbt"}

ASSUME ReceiverAssumption ==
    /\ IsFiniteSet(Stream)
    /\ Fragments \in [Stream -> Nat \ {0}]
    /\ Content \in [Stream -> Payload \cup {NotByteString}]
    /\ Rejected \notin Packages(Bytes)
    /\ Absent \notin Stream \cup Message \cup Payload
    /\ Shown \subseteq UNION {{s} \X (1..Fragments[s]) : s \in Stream}
    /\ Arguments \subseteq [protocol : {"rung_b", "v1"},
                            expected_stage : Stages \cup {Absent},
                            expected_network : Network \cup {Absent},
                            message_output : BOOLEAN, psbt_output : BOOLEAN]
    /\ MaxCandidates \in Nat \ {0} /\ MaxScans \in Nat

VARIABLES
    pc,            \* where receive_package is; an element of File: that output is next
    arguments,     \* of the present scan
    bridges,       \* the scans whose camera bridge process (with its child) runs
    orphans,       \* of these, the ones that a killed receiver left behind
    accumulators,  \* the fragments each candidate has collected
    ignored,       \* ignored_candidates
    selected,      \* the stream of selected_package, or Absent
    disk,          \* [File -> Absent or what the output file holds]
    scans          \* how often the receiver was started

scanVars == <<accumulators, ignored, selected>>
vars == <<pc, arguments, bridges, orphans, scanVars, disk, scans>>

-----------------------------------------------------------------------------
(***************************************************************************)
(* Candidates                                                              *)
(***************************************************************************)

Candidates == DOMAIN accumulators

\* (Fault: off by one.)
ReceivesOneMore(s) ==
    /\ s \notin ignored
    /\ s \in Candidates \/ Cardinality(Candidates) <= MaxCandidates

\* A symbol reaches an accumulator unless its candidate is ignored or the table is full.
Receives(s) ==
    /\ s \notin ignored
    /\ s \in Candidates \/ Cardinality(Candidates) < MaxCandidates

Collected(s, i) == (IF s \in Candidates THEN accumulators[s] ELSE {}) \cup {i}

\* is_complete: the payload of a finished stream that is no CBOR byte string is never set.
Complete(s, fragments) == fragments = 1..Fragments[s] /\ Content[s] # NotByteString

PackageOf(s) == Decode(arguments.protocol, Content[s])

Matches(p) ==
    /\ arguments.expected_stage \in {Absent, p.message.stage}
    /\ arguments.expected_network \in {Absent, p.network}

-----------------------------------------------------------------------------
(***************************************************************************)
(* The scan                                                                *)
(***************************************************************************)

Init ==
    /\ pc = "idle" /\ arguments \in Arguments
    /\ bridges = {} /\ orphans = {}
    /\ accumulators = <<>> /\ ignored = {} /\ selected = Absent
    /\ disk = [f \in File |-> Absent]
    /\ scans = 0

\* A bridge is started whether or not one of a killed receiver still holds the camera; one
\* that cannot open it ends its output (EndScan).
Start ==
    /\ pc \in {"idle", "done", "failed", "killed"} /\ scans < MaxScans
    /\ pc' = "scanning"
    /\ arguments' \in Arguments
    /\ scans' = scans + 1
    /\ bridges' = bridges \cup {scans + 1}
    /\ accumulators' = <<>> /\ ignored' = {} /\ selected' = Absent
    /\ UNCHANGED <<orphans, disk>>

\* What every symbol that reaches an accumulator does: its candidate has one fragment more.
ReceivePart(s, i) ==
    /\ pc = "scanning" /\ <<s, i>> \in Shown /\ Receives(s)
    /\ UNCHANGED <<arguments, bridges, orphans, disk, scans>>

With(s, i) == [t \in Candidates \cup {s} |-> IF t = s THEN Collected(s, i) ELSE accumulators[t]]

CollectPart(s, i) ==
    /\ ReceivePart(s, i)
    /\ ~Complete(s, Collected(s, i))
    /\ accumulators' = With(s, i)
    /\ UNCHANGED <<pc, ignored, selected>>

SelectPackage(s, i) ==
    /\ ReceivePart(s, i)
    /\ Complete(s, Collected(s, i))
    /\ PackageOf(s) # Rejected /\ Matches(PackageOf(s))
    /\ selected' = s /\ pc' = "stopping"
    /\ accumulators' = With(s, i)
    /\ UNCHANGED ignored

\* (Fault: an ignored candidate is dropped and not remembered.)
IgnorePackageForgets(s, i) ==
    /\ ReceivePart(s, i)
    /\ Complete(s, Collected(s, i))
    /\ PackageOf(s) # Rejected /\ ~Matches(PackageOf(s))
    /\ accumulators' = Restrict(accumulators, Candidates \ {s})
    /\ UNCHANGED <<pc, ignored, selected>>

IgnorePackage(s, i) ==
    /\ ReceivePart(s, i)
    /\ Complete(s, Collected(s, i))
    /\ PackageOf(s) # Rejected /\ ~Matches(PackageOf(s))
    /\ ignored' = ignored \cup {s}
    /\ accumulators' = Restrict(accumulators, Candidates \ {s})
    /\ UNCHANGED <<pc, selected>>

\* Package or message decoding raises out of the loop, whatever else is being collected.
RefusePackage(s, i) ==
    /\ ReceivePart(s, i)
    /\ Complete(s, Collected(s, i))
    /\ PackageOf(s) = Rejected
    /\ pc' = "stopping"
    /\ accumulators' = With(s, i)
    /\ UNCHANGED <<ignored, selected>>

BridgeExits ==
    /\ \E n \in bridges : bridges' = bridges \ {n} /\ orphans' = orphans \ {n}
    /\ UNCHANGED <<pc, arguments, scanVars, disk, scans>>

\* The bridge's output ends (its timeout, its window closed, a crash, or its output closed
\* while it still runs), or holds a record that parse_bridge_line refuses.
EndScan ==
    /\ pc = "scanning"
    /\ pc' = "stopping"
    /\ UNCHANGED <<arguments, bridges, orphans, scanVars, disk, scans>>

\* (Fault: the bridge is stopped after a successful scan only.)
StopBridgeOnSuccess ==
    /\ pc = "stopping"
    /\ bridges' = IF selected = Absent THEN bridges ELSE bridges \ {scans}
    /\ pc' = IF selected = Absent THEN "failed" ELSE "package"
    /\ UNCHANGED <<arguments, orphans, scanVars, disk, scans>>

\* The finally clause, _stop_bridge_process; then the exception goes on, or the outputs.
StopBridge ==
    /\ pc = "stopping"
    /\ bridges' = bridges \ {scans}
    /\ pc' = IF selected = Absent THEN "failed" ELSE "package"
    /\ UNCHANGED <<arguments, orphans, scanVars, disk, scans>>

-----------------------------------------------------------------------------
(***************************************************************************)
(* The output files                                                        *)
(***************************************************************************)

Data(file) ==
    CASE file = "package" -> Content[selected]
      [] file = "message" -> PackageOf(selected).message
      [] file = "psbt"    -> PackageOf(selected).psbt

NextOutput(file) ==
    IF file = "package" /\ arguments.message_output THEN "message"
    ELSE IF file # "psbt" /\ arguments.psbt_output THEN "psbt"
    ELSE "done"

\* (Fault: a file that exists is taken for the one to be written.)
WriteExactKeeps(file, data) ==
    disk' = [disk EXCEPT ![file] = IF disk[file] = Absent THEN data ELSE disk[file]]

\* (Fault: a file that exists is replaced.)
WriteExactReplaces(file, data) == disk' = [disk EXCEPT ![file] = data]

\* write_exact: a new file, or the same content again.
WriteExact(file, data) ==
    /\ disk[file] \in {Absent, data}
    /\ disk' = [disk EXCEPT ![file] = data]

WriteOutput(file) ==
    /\ pc = file
    /\ Data(file) # Absent
    /\ WriteExact(file, Data(file))
    /\ pc' = NextOutput(file)
    /\ UNCHANGED <<arguments, bridges, orphans, scanVars, scans>>

\* The file exists with other content, or there is no PSBT to write.
RefuseOutput(file) ==
    /\ pc = file
    /\ Data(file) = Absent \/ disk[file] \notin {Absent, Data(file)}
    /\ pc' = "failed"
    /\ UNCHANGED <<arguments, bridges, orphans, scanVars, disk, scans>>

\* The receiver process is killed: in the loop or while it stops the bridge, which then runs
\* on until it exits by itself (no finally clause is run), or between two outputs.
Kill ==
    /\ pc \in {"scanning", "stopping"} \cup File
    /\ pc' = "killed"
    /\ orphans' = IF pc \in File THEN orphans ELSE orphans \cup (bridges \cap {scans})
    /\ UNCHANGED <<arguments, bridges, scanVars, disk, scans>>

\* A symbol that is read.
ReadSymbol(s, i) ==
    CollectPart(s, i) \/ SelectPackage(s, i) \/ IgnorePackage(s, i) \/ RefusePackage(s, i)

Output == \E file \in File : WriteOutput(file) \/ RefuseOutput(file)

Next ==
    \/ Start \/ BridgeExits \/ EndScan \/ StopBridge \/ Kill \/ Output
    \/ \E s \in Stream : \E i \in 1..Fragments[s] : ReadSymbol(s, i)

Spec == Init /\ [][Next]_vars

-----------------------------------------------------------------------------
(***************************************************************************)
(* Properties                                                              *)
(***************************************************************************)

\* The receiver's variables have their shape; outputs begin only with a selected package
\* (receive_package raises before them otherwise).
TypeOK ==
    /\ pc \in {"idle", "scanning", "stopping", "done", "failed", "killed"} \cup File
    /\ arguments \in Arguments
    /\ bridges \subseteq 1..scans /\ orphans \subseteq 1..scans
    /\ Candidates \subseteq Stream
    /\ \A s \in Candidates : accumulators[s] \subseteq 1..Fragments[s]
    /\ ignored \subseteq Stream
    /\ selected \in Stream \cup {Absent}
    /\ pc \in File \cup {"done"} => selected # Absent
    /\ DOMAIN disk = File
    /\ scans \in 0..MaxScans

\* No slot of the table is wasted: never more candidates than the limit, and while the scan
\* goes on each of them still lacks a fragment or can never be read; a stream that was
\* read and did not match is out of the table for the rest of the scan.
CandidatesWait ==
    /\ Cardinality(Candidates) <= MaxCandidates
    /\ ignored \cap Candidates = {}
    /\ pc = "scanning" =>
          \A s \in Candidates : ~Complete(s, accumulators[s])

\* _stop_bridge_process stops the bridge "on every exit path", returns and exceptions alike:
\* over repeated scans the only bridge that runs is that of the scan, or the stop, going on.
\* The exception is a receiver killed before its finally clause had run: its bridge keeps
\* the camera, in later scans too, until it exits by itself.
CameraReleased ==
    \A n \in bridges \ orphans : n = scans /\ pc \in {"scanning", "stopping"}

\* However scans fail, are killed and are repeated with other arguments, the files of
\* one set of output paths never mix two packages: a message or PSBT file belongs to
\* the package file (its write_exact comes first and guards the others).
OutputsAgree ==
    \A file \in {"message", "psbt"} : disk[file] # Absent =>
        \E protocol \in {"rung_b", "v1"} :
            /\ disk["package"] # Absent
            /\ Decode(protocol, disk["package"]) # Rejected
            /\ disk[file] = Decode(protocol, disk["package"])[file]

\* What a scan reports as complete is on disk: the package of the stage and network asked
\* for, with its message and PSBT where they were asked for.
CompleteMeansWritten ==
    pc = "done" =>
        LET p == Decode(arguments.protocol, disk["package"])
        IN  /\ p # Rejected
            /\ arguments.expected_stage # Absent => p.message.stage = arguments.expected_stage
            /\ arguments.expected_network # Absent => p.network = arguments.expected_network
            /\ arguments.message_output => disk["message"] = p.message
            /\ arguments.psbt_output => disk["psbt"] = p.psbt /\ p.psbt # Absent

-----------------------------------------------------------------------------
(***************************************************************************)
(* Progress.  Animated displays repeat (docs/transport-aext.md, section 4),*)
(* so a symbol of theirs is read again and again while the scan goes on; a *)
(* symbol that finds the table full is lost.  Of a display that stands     *)
(* still the bridge reports one symbol: nothing is assumed of it.          *)
(***************************************************************************)

Animated(s) == Fragments[s] > 1

Fairness ==
    /\ WF_vars(StopBridge) /\ WF_vars(Output)
    /\ \A s \in Stream : \A i \in 1..Fragments[s] :
          Animated(s) => WF_vars(ReadSymbol(s, i))

ProgressSpec == Spec /\ Fairness

\* A stream that may hold a slot for ever: it cannot be read, or part of it is not shown.
Lasting(s) ==
    \/ Content[s] = NotByteString
    \/ \E i \in 1..Fragments[s] : <<s, i>> \notin Shown

Wanted(s) ==
    /\ Animated(s) /\ ~Lasting(s)
    /\ PackageOf(s) # Rejected /\ Matches(PackageOf(s))

\* However stale and foreign packages compete for the table, a scan with the package it was
\* started for in view does not go on for ever, as long as one slot is not held by a
\* stream that never leaves it: it is cut short or killed, refuses a package that does not
\* decode, or finds its own.
ScansComplete ==
    /\ pc = "scanning"
    /\ Cardinality({s \in Stream : Lasting(s)}) < MaxCandidates
    /\ \E s \in Stream : Wanted(s)
    ~> pc \in {"done", "failed", "killed"}
=============================================================================
