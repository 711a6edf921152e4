--------------------------- MODULE MCProcessTeam ---------------------------
(***************************************************************************)
(* Instances of ProcessTeam for TLC.                                       *)
(***************************************************************************)
EXTENDS ProcessTeam
=============================================================================
