------------------------- MODULE MCPhysicalExchange -------------------------
(***************************************************************************)
(* A small instance of PhysicalExchange for TLC.                           *)
(***************************************************************************)
EXTENDS PhysicalExchange, TLC

CONSTANTS r1, r2        \* run directories
=============================================================================
