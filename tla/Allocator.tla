----------------------------- MODULE Allocator -----------------------------
(***************************************************************************)
(* What a block allocator promises its callers: each request is answered   *)
(* by exactly one block, which is nobody else's until it is given back.    *)
(* BitMap.tla is shown to implement it as long as one caller at a time is  *)
(* inside the allocator.                                                   *)
(***************************************************************************)
CONSTANT Callers

VARIABLES
  held,     \* the blocks handed out and not given back
  asking    \* the callers waiting for a block

vars == <<held, asking>>

Init == held = {} /\ asking = {}

Ask ==
  /\ \E c \in Callers \ asking : asking' = asking \cup {c}
  /\ UNCHANGED held

Alloc ==
  /\ \E c \in asking : asking' = asking \ {c}
  /\ \E b \in held' : b \notin held /\ held' = held \cup {b}

Release ==
  /\ \E b \in held : held' = held \ {b}
  /\ UNCHANGED asking

Next == Ask \/ Alloc \/ Release

Spec == Init /\ [][Next]_vars
=============================================================================
