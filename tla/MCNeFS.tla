------------------------------ MODULE MCNeFS ------------------------------
(***************************************************************************)
(* Instances of NeFS for TLC: a root, a directory and a file the installer *)
(* creates, a user's file whose directory may be missing, and the          *)
(* directory.                                                              *)
(***************************************************************************)
EXTENDS NeFS, TLC

CONSTANTS none, root, etc, journal, dir, file

MCNames == {root, etc, journal, dir, file}

MCParent == (root :> none) @@ (etc :> root) @@ (journal :> etc)
              @@ (dir :> root) @@ (file :> dir)

MCFolders == <<root, etc, journal>>
===========================================================================
