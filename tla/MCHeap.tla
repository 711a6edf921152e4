------------------------------- MODULE MCHeap -------------------------------
(***************************************************************************)
(* Instances of Heap for TLC, with the sizes of the AMD64 build.           *)
(***************************************************************************)
EXTENDS Heap

(* What a pool nobody cleared may hold where a header will be.             *)
Leftovers == {[size |-> 7, used |-> TRUE]}
=============================================================================
