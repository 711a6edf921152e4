------------------------------ MODULE MCBitMap ------------------------------
(***************************************************************************)
(* Instances of BitMap for TLC.                                            *)
(***************************************************************************)
EXTENDS BitMap, TLC

(* What a pool nobody cleared may hold where a header will be.             *)
Leftovers == {[size |-> 0, used |-> TRUE], [size |-> 2, used |-> FALSE]}

(* Nothing tells the callers apart.                                        *)
CallerSymmetry == Permutations(Callers)
=============================================================================
