--------------------------- MODULE MCPsbtWorkflow ---------------------------
(***************************************************************************)
(* Small instances of PsbtWorkflow for TLC.                                *)
(***************************************************************************)
EXTENDS PsbtCeremony, TLC

CONSTANTS q1, q2, q3        \* the PSBTs of an instance

\* q1 and q2 are one transaction: their slots hash alike, but q2 is not Importable.  q3 is
\* another transaction.  q1 and q3 have their slot at different inputs.
MCSlotsOf == [q \in Psbt |->
    IF q = q3 THEN {[input |-> 1, key |-> "k", hash |-> "h3"]}
              ELSE {[input |-> 0, key |-> "k", hash |-> "h1"]}]

DirSessionSymmetry     == Permutations(Dir) \union Permutations(Session)
SessionProcSymmetry    == Permutations(Session) \union Permutations(Proc)
=============================================================================
