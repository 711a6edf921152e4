------------------------------ MODULE MCFiles ------------------------------
(* Files with a journal and a swap file's path, on disks with few forks.   *)
EXTENDS Files

CONSTANTS j, w

MCRestricts == {<<"r", "b">>, <<"r", "w">>, <<"w">>}

MCFork(n, c, z, next) == [created |-> TRUE, name |-> n, catalog |-> c, size |-> z, next |-> next]

\* A blank disk; one fork each; two forks of one file behind the other's; a fork
\* of the wrong size.
MCDisks ==
  {<<Blank, Blank, Blank>>,
   <<Blank, MCFork(MainData, w, 1, 0), MCFork(MainData, j, 1, 0)>>,
   <<MCFork(MainData, j, 1, 0), MCFork("rsrc", j, 1, 1), MCFork(MainData, w, 1, 2)>>,
   <<MCFork(MainData, w, 2, 0), MCFork(MainData, j, 1, 1), MCFork("rsrc", w, 1, 2)>>}
=============================================================================
