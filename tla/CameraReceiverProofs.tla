------------------------ MODULE CameraReceiverProofs ------------------------
(***************************************************************************)
(* Theorems about the camera receiver, for any streams, packages and       *)
(* argument lists: the table of candidates, the bridge, and the output     *)
(* files over repeated and interrupted scans.                              *)
(***************************************************************************)
EXTENDS CameraReceiver, FiniteSetTheorems, TLAPS

\* A selected stream holds a package of the stage and network asked for.
SelectionInv ==
    /\ pc = "scanning" => selected = Absent
    /\ selected # Absent =>
          /\ Content[selected] \in Payload
          /\ PackageOf(selected) # Rejected /\ Matches(PackageOf(selected))

\* The files that the present scan is past hold what it selected.
OutputInv ==
    /\ pc \in {"message", "psbt", "done"} => disk["package"] = Content[selected]
    /\ pc \in {"psbt", "done"} /\ arguments.message_output =>
          disk["message"] = PackageOf(selected).message
    /\ pc = "done" /\ arguments.psbt_output =>
          disk["psbt"] = PackageOf(selected).psbt /\ disk["psbt"] # Absent

\* The inductive invariant.
ReceiverInv ==
    /\ TypeOK /\ CandidatesWait /\ CameraReleased
    /\ SelectionInv /\ OutputInv /\ OutputsAgree

-----------------------------------------------------------------------------
(***************************************************************************)
(* The table of candidates                                                 *)
(***************************************************************************)

\* One symbol: the table grows within its limit, by fragments of the stream.
LEMMA TableGrows ==
    ASSUME ReceiverInv, NEW s, NEW i, <<s, i>> \in Shown, Receives(s), pc = "scanning",
           accumulators' = With(s, i)
    PROVE  /\ Candidates' = Candidates \cup {s} /\ Candidates' \subseteq Stream
           /\ \A t \in Candidates' : accumulators'[t] \subseteq 1..Fragments[t]
           /\ \A t \in Candidates' \ {s} : accumulators'[t] = accumulators[t]
           /\ accumulators'[s] = Collected(s, i)
           /\ Cardinality(Candidates') <= MaxCandidates
           /\ ignored \cap Candidates' = {}
<1>1. s \in Stream /\ i \in 1..Fragments[s]
  BY ReceiverAssumption
<1>2. Candidates \subseteq Stream /\ IsFiniteSet(Candidates)
  BY ReceiverAssumption, FS_Subset DEF ReceiverInv, TypeOK
<1>3. /\ Candidates' = Candidates \cup {s}
      /\ accumulators'[s] = Collected(s, i)
      /\ \A t \in Candidates' \ {s} : accumulators'[t] = accumulators[t]
  BY DEF With, Candidates
<1>4. Collected(s, i) \subseteq 1..Fragments[s]
  BY <1>1 DEF ReceiverInv, TypeOK, Collected
<1>5. \A t \in Candidates' : accumulators'[t] \subseteq 1..Fragments[t]
  BY <1>3, <1>4 DEF ReceiverInv, TypeOK
<1>6. Cardinality(Candidates') <= MaxCandidates
  <2>1. CASE s \in Candidates
    <3>1. Candidates' = Candidates
      BY <1>3, <2>1
    <3> QED
      BY <3>1 DEF ReceiverInv, CandidatesWait
  <2>2. CASE s \notin Candidates
    <3>1. Cardinality(Candidates) < MaxCandidates
      BY <2>2 DEF Receives
    <3>2. Cardinality(Candidates \cup {s}) = Cardinality(Candidates) + 1
      BY <1>2, <2>2, FS_AddElement
    <3>3. Cardinality(Candidates) \in Nat
      BY <1>2, FS_CardinalityType
    <3> QED
      BY <1>3, <3>1, <3>2, <3>3, ReceiverAssumption
  <2> QED
    BY <2>1, <2>2
<1>7. ignored \cap Candidates' = {}
  BY <1>3 DEF ReceiverInv, CandidatesWait, Receives
<1> QED
  BY <1>1, <1>2, <1>3, <1>5, <1>6, <1>7

\* What leaves the files and the arguments alone and selects nothing new.
LEMMA FilesUntouched ==
    ASSUME ReceiverInv, UNCHANGED <<arguments, disk>>,
           pc' \in {"scanning", "stopping", "failed", "killed"}
    PROVE  OutputInv' /\ OutputsAgree'
  BY DEF ReceiverInv, OutputInv, OutputsAgree

LEMMA CollectKeeps ==
    ASSUME ReceiverInv, NEW s, NEW i, CollectPart(s, i)
    PROVE  ReceiverInv'
<1>1. /\ pc = "scanning" /\ <<s, i>> \in Shown /\ Receives(s) /\ accumulators' = With(s, i)
      /\ ~Complete(s, Collected(s, i))
      /\ UNCHANGED <<arguments, bridges, orphans, disk, scans, pc, ignored, selected>>
  BY DEF CollectPart, ReceivePart
<1>2. /\ Candidates' = Candidates \cup {s} /\ Candidates' \subseteq Stream
      /\ \A t \in Candidates' : accumulators'[t] \subseteq 1..Fragments[t]
      /\ \A t \in Candidates' \ {s} : accumulators'[t] = accumulators[t]
      /\ accumulators'[s] = Collected(s, i)
      /\ Cardinality(Candidates') <= MaxCandidates
      /\ ignored \cap Candidates' = {}
  BY <1>1, TableGrows
<1>3. TypeOK'
  BY <1>1, <1>2 DEF ReceiverInv, TypeOK
<1>4. \A t \in Candidates' : ~Complete(t, accumulators'[t])
  BY <1>1, <1>2 DEF ReceiverInv, CandidatesWait
<1>5. CandidatesWait'
  BY <1>1, <1>2, <1>4 DEF CandidatesWait, Complete
<1>6. CameraReleased' /\ SelectionInv'
  BY <1>1 DEF ReceiverInv, CameraReleased, SelectionInv
<1>7. OutputInv' /\ OutputsAgree'
  BY <1>1, FilesUntouched
<1> QED
  BY <1>3, <1>5, <1>6, <1>7 DEF ReceiverInv

LEMMA SelectKeeps ==
    ASSUME ReceiverInv, NEW s, NEW i, SelectPackage(s, i)
    PROVE  ReceiverInv'
<1>1. /\ pc = "scanning" /\ <<s, i>> \in Shown /\ Receives(s) /\ accumulators' = With(s, i)
      /\ Complete(s, Collected(s, i)) /\ PackageOf(s) # Rejected /\ Matches(PackageOf(s))
      /\ selected' = s /\ pc' = "stopping"
      /\ UNCHANGED <<arguments, bridges, orphans, disk, scans, ignored>>
  BY DEF SelectPackage, ReceivePart
<1>2. /\ Candidates' \subseteq Stream
      /\ \A t \in Candidates' : accumulators'[t] \subseteq 1..Fragments[t]
      /\ Cardinality(Candidates') <= MaxCandidates
      /\ ignored \cap Candidates' = {}
  BY <1>1, TableGrows
<1>3. s \in Stream /\ Content[s] \in Payload
  BY <1>1, ReceiverAssumption DEF Complete
<1>4. TypeOK'
  BY <1>1, <1>2, <1>3 DEF ReceiverInv, TypeOK, File
<1>5. CandidatesWait' /\ CameraReleased'
  BY <1>1, <1>2 DEF ReceiverInv, CandidatesWait, CameraReleased
<1>6. SelectionInv'
  BY <1>1, <1>3 DEF SelectionInv, PackageOf, Matches
<1>7. OutputInv' /\ OutputsAgree'
  BY <1>1, FilesUntouched
<1> QED
  BY <1>4, <1>5, <1>6, <1>7 DEF ReceiverInv

LEMMA IgnoreKeeps ==
    ASSUME ReceiverInv, NEW s, NEW i, IgnorePackage(s, i)
    PROVE  ReceiverInv'
<1>1. /\ pc = "scanning" /\ <<s, i>> \in Shown /\ ignored' = ignored \cup {s}
      /\ accumulators' = Restrict(accumulators, Candidates \ {s})
      /\ UNCHANGED <<arguments, bridges, orphans, disk, scans, pc, selected>>
  BY DEF IgnorePackage, ReceivePart
<1>2. Candidates' = Candidates \ {s} /\ \A t \in Candidates' : accumulators'[t] = accumulators[t]
  BY <1>1 DEF Restrict, Candidates
<1>3. Candidates \subseteq Stream /\ IsFiniteSet(Candidates) /\ s \in Stream
  BY <1>1, ReceiverAssumption, FS_Subset DEF ReceiverInv, TypeOK
<1>4. Cardinality(Candidates') <= MaxCandidates
  <2>1. /\ Cardinality(Candidates') <= Cardinality(Candidates)
        /\ Cardinality(Candidates') \in Nat /\ Cardinality(Candidates) \in Nat
    BY <1>2, <1>3, FS_Subset, FS_CardinalityType
  <2> QED
    BY <2>1, ReceiverAssumption DEF ReceiverInv, CandidatesWait
<1>5. TypeOK'
  BY <1>1, <1>2, <1>3 DEF ReceiverInv, TypeOK
<1>6. CandidatesWait'
  BY <1>1, <1>2, <1>4 DEF ReceiverInv, CandidatesWait, Complete
<1>7. CameraReleased' /\ SelectionInv'
  BY <1>1 DEF ReceiverInv, CameraReleased, SelectionInv
<1>8. OutputInv' /\ OutputsAgree'
  BY <1>1, FilesUntouched
<1> QED
  BY <1>5, <1>6, <1>7, <1>8 DEF ReceiverInv

LEMMA RefuseKeeps ==
    ASSUME ReceiverInv, NEW s, NEW i, RefusePackage(s, i)
    PROVE  ReceiverInv'
<1>1. /\ pc = "scanning" /\ <<s, i>> \in Shown /\ Receives(s) /\ accumulators' = With(s, i) /\ pc' = "stopping"
      /\ UNCHANGED <<arguments, bridges, orphans, disk, scans, ignored, selected>>
  BY DEF RefusePackage, ReceivePart
<1>2. /\ Candidates' \subseteq Stream
      /\ \A t \in Candidates' : accumulators'[t] \subseteq 1..Fragments[t]
      /\ Cardinality(Candidates') <= MaxCandidates
      /\ ignored \cap Candidates' = {}
  BY <1>1, TableGrows
<1>3. TypeOK'
  BY <1>1, <1>2 DEF ReceiverInv, TypeOK, File
<1>4. CandidatesWait' /\ CameraReleased'
  BY <1>1, <1>2 DEF ReceiverInv, CandidatesWait, CameraReleased
<1>5. SelectionInv'
  BY <1>1 DEF ReceiverInv, SelectionInv
<1>6. OutputInv' /\ OutputsAgree'
  BY <1>1, FilesUntouched
<1> QED
  BY <1>3, <1>4, <1>5, <1>6 DEF ReceiverInv

-----------------------------------------------------------------------------
(***************************************************************************)
(* The scan                                                                *)
(***************************************************************************)

LEMMA ReceiverInit == Init => ReceiverInv
<1> SUFFICES ASSUME Init PROVE ReceiverInv
  OBVIOUS
<1>1. Candidates = {}
  BY DEF Init, Candidates
<1>2. TypeOK
  BY <1>1, ReceiverAssumption DEF Init, TypeOK, File
<1>3. CandidatesWait
  BY <1>1, FS_EmptySet, ReceiverAssumption DEF Init, CandidatesWait
<1>4. CameraReleased /\ SelectionInv /\ OutputInv /\ OutputsAgree
  BY DEF Init, CameraReleased, SelectionInv, OutputInv, OutputsAgree, File
<1> QED
  BY <1>2, <1>3, <1>4 DEF ReceiverInv

LEMMA StartKeeps == ASSUME ReceiverInv, Start PROVE ReceiverInv'
<1>1. Candidates' = {}
  BY DEF Start, Candidates
<1>2. TypeOK'
  BY <1>1, ReceiverAssumption DEF Start, ReceiverInv, TypeOK, File
<1>3. CandidatesWait'
  BY <1>1, FS_EmptySet, ReceiverAssumption DEF Start, CandidatesWait
<1>4. CameraReleased' /\ SelectionInv' /\ OutputInv' /\ OutputsAgree'
  BY DEF Start, ReceiverInv, CameraReleased, SelectionInv, OutputInv, OutputsAgree
<1> QED
  BY <1>2, <1>3, <1>4 DEF ReceiverInv

\* No step that ends a scan leaves its bridge running, but a kill, which orphans it.
LEMMA EndReleases ==
    ASSUME CameraReleased, UNCHANGED scans, BridgeExits \/ EndScan \/ StopBridge \/ Kill
    PROVE  CameraReleased'
<1> SUFFICES ASSUME NEW n \in bridges' \ orphans'
             PROVE  n = scans /\ pc' \in {"scanning", "stopping"}
  BY DEF CameraReleased
<1>1. CASE BridgeExits
  BY <1>1 DEF BridgeExits, CameraReleased
<1>2. CASE EndScan
  BY <1>2 DEF EndScan, CameraReleased
<1>3. CASE StopBridge
  BY <1>3 DEF StopBridge, CameraReleased
<1>4. CASE Kill
  BY <1>4 DEF Kill, CameraReleased, File
<1> QED
  BY <1>1, <1>2, <1>3, <1>4

\* The steps that end a scan, or the outputs after it, without a symbol or a file.
LEMMA EndKeeps ==
    ASSUME ReceiverInv, BridgeExits \/ EndScan \/ StopBridge \/ Kill
    PROVE  ReceiverInv'
<1>1. UNCHANGED <<arguments, scanVars, disk, scans>>
  BY DEF BridgeExits, EndScan, StopBridge, Kill
<1>2. /\ pc' \in {pc, "stopping", "failed", "killed", "package"}
      /\ pc' = "scanning" => pc = "scanning"
      /\ pc' \in File \cup {"done"} => selected # Absent
  BY DEF BridgeExits, EndScan, StopBridge, Kill, ReceiverInv, TypeOK, File
<1>3. bridges' \subseteq bridges /\ orphans' \subseteq orphans \cup bridges
  BY DEF BridgeExits, EndScan, StopBridge, Kill
<1>4. TypeOK'
  <2>1. bridges' \subseteq 1..scans' /\ orphans' \subseteq 1..scans'
    BY <1>1, <1>3 DEF ReceiverInv, TypeOK
  <2> QED
    BY <1>1, <1>2, <2>1 DEF ReceiverInv, TypeOK, File, scanVars, Candidates
<1>5. CandidatesWait'
  BY <1>1, <1>2 DEF ReceiverInv, CandidatesWait, scanVars, Candidates, Complete
<1>6. CameraReleased'
  BY <1>1, EndReleases DEF ReceiverInv
<1>7. SelectionInv'
  BY <1>1, <1>2 DEF ReceiverInv, SelectionInv, PackageOf, Matches, scanVars
<1>8. OutputInv' /\ OutputsAgree'
  BY <1>1, <1>2 DEF ReceiverInv, OutputInv, OutputsAgree, PackageOf, scanVars
<1> QED
  BY <1>4, <1>5, <1>6, <1>7, <1>8 DEF ReceiverInv

-----------------------------------------------------------------------------
(***************************************************************************)
(* The output files                                                        *)
(***************************************************************************)

\* What of the invariant is not about the files survives every step of the outputs.
LEMMA OutputKeepsScan ==
    ASSUME ReceiverInv, pc \in File, pc' \in File \cup {"done", "failed"},
           UNCHANGED <<arguments, bridges, orphans, scanVars, scans>>, DOMAIN disk' = File
    PROVE  TypeOK' /\ CandidatesWait' /\ CameraReleased' /\ SelectionInv'
<1>1. selected # Absent
  BY DEF ReceiverInv, TypeOK
<1>2. TypeOK'
  BY <1>1 DEF ReceiverInv, TypeOK, File, scanVars, Candidates
<1>3. CandidatesWait'
  BY DEF ReceiverInv, CandidatesWait, scanVars, Candidates, File
<1>4. CameraReleased' /\ SelectionInv'
  BY DEF ReceiverInv, CameraReleased, SelectionInv, PackageOf, Matches, scanVars, File
<1> QED
  BY <1>2, <1>3, <1>4

LEMMA RefuseOutputKeeps ==
    ASSUME ReceiverInv, NEW file \in File, RefuseOutput(file)
    PROVE  ReceiverInv'
<1>1. /\ pc \in File /\ pc' = "failed"
      /\ UNCHANGED <<arguments, bridges, orphans, scanVars, disk, scans>>
  BY DEF RefuseOutput
<1>2. DOMAIN disk' = File
  BY <1>1 DEF ReceiverInv, TypeOK
<1> QED
  BY <1>1, <1>2, OutputKeepsScan, FilesUntouched DEF ReceiverInv

\* A write adds one file, the one that is next, and changes none that exists.
LEMMA WriteAdds ==
    ASSUME ReceiverInv, NEW file \in File, WriteOutput(file)
    PROVE  /\ pc = file /\ pc' = NextOutput(file)
           /\ UNCHANGED <<arguments, bridges, orphans, scanVars, scans>>
           /\ DOMAIN disk' = File
           /\ disk'[file] = Data(file) /\ Data(file) # Absent
           /\ \A f \in File : disk[f] # Absent => disk'[f] = disk[f]
           /\ \A f \in File \ {file} : disk'[f] = disk[f]
  BY DEF WriteOutput, WriteExact, ReceiverInv, TypeOK

LEMMA WriteOutputKeeps ==
    ASSUME ReceiverInv, NEW file \in File, WriteOutput(file)
    PROVE  ReceiverInv'
<1>1. /\ pc = file /\ pc' = NextOutput(file)
      /\ UNCHANGED <<arguments, bridges, orphans, scanVars, scans>>
      /\ DOMAIN disk' = File
      /\ disk'[file] = Data(file) /\ Data(file) # Absent
      /\ \A f \in File : disk[f] # Absent => disk'[f] = disk[f]
      /\ \A f \in File \ {file} : disk'[f] = disk[f]
  BY WriteAdds
<1>2. pc' \in File \cup {"done"} /\ pc' # "package"
  BY <1>1 DEF NextOutput, File
<1>3. selected # Absent /\ arguments \in Arguments
  BY <1>1 DEF ReceiverInv, TypeOK
<1>4. Content[selected] \in Payload /\ PackageOf(selected) # Rejected
  BY <1>3 DEF ReceiverInv, SelectionInv
<1>5. disk'["package"] = Content[selected] /\ Content[selected] # Absent
  <2>1. Content[selected] # Absent
    BY <1>4, ReceiverAssumption
  <2>2. CASE file = "package"
    BY <1>1, <2>1, <2>2 DEF Data
  <2>3. CASE file # "package"
    <3>1. disk["package"] = Content[selected]
      BY <1>1, <2>3 DEF ReceiverInv, OutputInv, File
    <3> QED
      BY <1>1, <2>1, <2>3, <3>1 DEF File
  <2> QED
    BY <2>2, <2>3
<1>6. OutputInv'
  <2>1. selected' = selected /\ arguments' = arguments
    BY <1>1 DEF scanVars
  <2>2. PackageOf(selected)' = PackageOf(selected)
    BY <2>1 DEF PackageOf
  <2>3. CASE file = "package"
    BY <1>1, <1>5, <2>1, <2>3 DEF OutputInv, NextOutput
  <2>4. CASE file = "message"
    BY <1>1, <1>5, <2>1, <2>2, <2>4 DEF OutputInv, NextOutput, Data
  <2>5. CASE file = "psbt"
    <3>1. arguments.message_output => disk'["message"] = PackageOf(selected).message
      BY <1>1, <2>5 DEF ReceiverInv, OutputInv, File
    <3>2. disk'["psbt"] = PackageOf(selected).psbt /\ disk'["psbt"] # Absent
      BY <1>1, <2>5 DEF Data
    <3> QED
      BY <1>5, <2>1, <2>2, <3>1, <3>2 DEF OutputInv
  <2> QED
    BY <2>3, <2>4, <2>5 DEF File
<1>7. OutputsAgree'
  <2> SUFFICES ASSUME NEW f \in {"message", "psbt"}, disk'[f] # Absent
               PROVE  \E protocol \in {"rung_b", "v1"} :
                         /\ disk'["package"] # Absent
                         /\ Decode(protocol, disk'["package"]) # Rejected
                         /\ disk'[f] = Decode(protocol, disk'["package"])[f]
    BY DEF OutputsAgree
  <2>1. CASE f = file
    <3>1. arguments.protocol \in {"rung_b", "v1"}
      BY <1>3, ReceiverAssumption
    <3>2. disk'[f] = PackageOf(selected)[f]
      BY <1>1, <2>1 DEF Data
    <3> QED
      BY <1>4, <1>5, <3>1, <3>2 DEF PackageOf
  <2>2. CASE f # file
    <3>1. f \in File /\ disk[f] = disk'[f]
      BY <1>1, <2>2 DEF File
    <3>2. PICK protocol \in {"rung_b", "v1"} :
             /\ disk["package"] # Absent
             /\ Decode(protocol, disk["package"]) # Rejected
             /\ disk[f] = Decode(protocol, disk["package"])[f]
      BY <3>1 DEF ReceiverInv, OutputsAgree
    <3>3. disk'["package"] = disk["package"]
      BY <1>1, <3>2 DEF File
    <3> QED
      BY <3>1, <3>2, <3>3
  <2> QED
    BY <2>1, <2>2
<1>8. TypeOK' /\ CandidatesWait' /\ CameraReleased' /\ SelectionInv'
  BY <1>1, <1>2, OutputKeepsScan
<1> QED
  BY <1>6, <1>7, <1>8 DEF ReceiverInv

LEMMA ReceiverStep == ReceiverInv /\ [Next]_vars => ReceiverInv'
<1> SUFFICES ASSUME ReceiverInv, [Next]_vars PROVE ReceiverInv'
  OBVIOUS
<1>1. CASE UNCHANGED vars
  BY <1>1 DEF vars, scanVars, ReceiverInv, TypeOK, CandidatesWait, CameraReleased, SelectionInv,
              OutputInv, OutputsAgree, Candidates, Complete, PackageOf, Matches
<1>2. CASE Start
  BY <1>2, StartKeeps
<1>3. CASE BridgeExits \/ EndScan \/ StopBridge \/ Kill
  BY <1>3, EndKeeps
<1>4. CASE Output
  BY <1>4, WriteOutputKeeps, RefuseOutputKeeps DEF Output
<1>5. ASSUME NEW s \in Stream, NEW i \in 1..Fragments[s], ReadSymbol(s, i)
      PROVE  ReceiverInv'
  BY <1>5, CollectKeeps, SelectKeeps, IgnoreKeeps, RefuseKeeps DEF ReadSymbol
<1> QED
  BY <1>1, <1>2, <1>3, <1>4, <1>5 DEF Next

THEOREM ReceiverInvHolds == Spec => []ReceiverInv
  BY ReceiverInit, ReceiverStep, PTL DEF Spec

-----------------------------------------------------------------------------
(***************************************************************************)
(* The theorems                                                            *)
(***************************************************************************)

\* The receiver's variables have their shape; outputs begin only with a selected package.
THEOREM TypeCorrect == Spec => []TypeOK
<1>1. ReceiverInv => TypeOK
  BY DEF ReceiverInv
<1> QED
  BY <1>1, ReceiverInvHolds, PTL

\* The table stays within its limit, and holds only candidates that still wait
\* (camera_receiver.py, MAX_FOUNTAIN_CANDIDATES).
THEOREM TableBounded == Spec => []CandidatesWait
<1>1. ReceiverInv => CandidatesWait
  BY DEF ReceiverInv
<1> QED
  BY <1>1, ReceiverInvHolds, PTL

\* However scans end and are repeated, a bridge that runs is that of the scan going on, or
\* one left by a receiver killed before its finally clause (_stop_bridge_process).
THEOREM CameraGivenBack == Spec => []CameraReleased
<1>1. ReceiverInv => CameraReleased
  BY DEF ReceiverInv
<1> QED
  BY <1>1, ReceiverInvHolds, PTL

\* Output files of repeated and interrupted scans never mix two packages.
THEOREM OneSetOfOutputs == Spec => []OutputsAgree
<1>1. ReceiverInv => OutputsAgree
  BY DEF ReceiverInv
<1> QED
  BY <1>1, ReceiverInvHolds, PTL

\* A scan reported as complete has left the package asked for, and its parts, on disk.
THEOREM CompletionWritten == Spec => []CompleteMeansWritten
<1>1. ASSUME ReceiverInv, pc = "done"
      PROVE  LET p == Decode(arguments.protocol, disk["package"])
             IN  /\ p # Rejected
                 /\ arguments.expected_stage # Absent =>
                       p.message.stage = arguments.expected_stage
                 /\ arguments.expected_network # Absent =>
                       p.network = arguments.expected_network
                 /\ arguments.message_output => disk["message"] = p.message
                 /\ arguments.psbt_output => disk["psbt"] = p.psbt /\ p.psbt # Absent
  <2>1. selected # Absent
    BY <1>1 DEF ReceiverInv, TypeOK
  <2>2. PackageOf(selected) # Rejected /\ Matches(PackageOf(selected))
    BY <1>1, <2>1 DEF ReceiverInv, SelectionInv
  <2>3. Decode(arguments.protocol, disk["package"]) = PackageOf(selected)
    BY <1>1 DEF ReceiverInv, OutputInv, PackageOf
  <2>4. /\ arguments.message_output => disk["message"] = PackageOf(selected).message
        /\ arguments.psbt_output =>
              disk["psbt"] = PackageOf(selected).psbt /\ disk["psbt"] # Absent
    BY <1>1 DEF ReceiverInv, OutputInv
  <2> QED
    BY <2>2, <2>3, <2>4 DEF Matches
<1>2. ReceiverInv => CompleteMeansWritten
  BY <1>1 DEF CompleteMeansWritten
<1> QED
  BY <1>2, ReceiverInvHolds, PTL
=============================================================================
