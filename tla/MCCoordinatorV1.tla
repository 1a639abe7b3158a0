--------------------------- MODULE MCCoordinatorV1 ---------------------------
(***************************************************************************)
(* Small instances of CoordinatorV1 for TLC.                               *)
(***************************************************************************)
EXTENDS CoordinatorCeremony, TLC

CONSTANTS q1, q2        \* the PSBTs of the instance

\* q1 has two inputs of one signer key; q2 one input.
MCSlotsOf == [q \in Psbt |-> IF q = q1 THEN {<<0, 1>>, <<1, 1>>} ELSE {<<0, 1>>}]

\* One path for each output, and a second one for the reveal, the output a retry
\* could change.
OnePath  == [k \in Kinds |-> {<<k, 1>>}]
TwoPaths == [OnePath EXCEPT !["package3"] = {<<"package3", 1>>, <<"package3", 2>>}]

\* Directories and session identifiers are interchangeable.
DirSessionSymmetry == Permutations(Dir) \union Permutations(Session)
DirSessionProcSymmetry == DirSessionSymmetry \union Permutations(Proc)
=============================================================================
