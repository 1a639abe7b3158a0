--------------------------- MODULE MCAbortJournal ---------------------------
(***************************************************************************)
(* A small instance of AbortJournal for TLC.                               *)
(***************************************************************************)
EXTENDS AbortJournal

\* One byte value: strings differ in length only, and an event's bytes can be split in
\* several ways unless they are framed.
MCSession == {<<>>, <<1>>, <<1, 1>>}
MCReason  == {<<>>, <<1>>, <<1, 1>>, <<1, 1, 1>>}
MCSignatureRejected == <<1>>

HandleSymmetry == Permutations(Handle)
=============================================================================
