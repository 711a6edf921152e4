------------------------------- MODULE MCStorage -------------------------------
(***************************************************************************)
(* An instance of Storage for TLC: sectors of 4 bytes stand for 512, an    *)
(* EPM block of 3 for 496, a superblock of 4 for 512 and a catalog of 5    *)
(* for 514, which starts inside a sector.                                  *)
(***************************************************************************)
EXTENDS Storage, TLC

CONSTANTS epm, super, cat

MCAddress == (epm :> 0) @@ (super :> 8) @@ (cat :> 17)
MCSize == (epm :> 3) @@ (super :> 4) @@ (cat :> 5)
================================================================================
