-------------------------------- MODULE Files --------------------------------
(***************************************************************************)
(* Files: the mounted file system (FileMgr.cc), the streams on it          *)
(* (FileMgr.h), the nodes they carry (OpenNeFS+FileMgr.cc), the forks a    *)
(* catalog's contents are in (OpenNeFS.cc), the journal (OpenNeFS.h) and   *)
(* the swap file (SwapDisk.cc).                                            *)
(* NeFS shows that a name leads to one entry for good, so a catalog is     *)
(* known here by its path.  A fork's address counts down from the end of   *)
(* the disk; its data lies before it and its sibling before that           *)
(* (CreateFork), so that every chain ends.  The disk may come with forks   *)
(* some other system made; this one adds none, as CreateFork refuses.      *)
(* Nothing calls the file system from two places at once: a call is one    *)
(* step.                                                                   *)
(***************************************************************************)
EXTENDS Integers, Sequences, SequencesExt

CONSTANTS
  Paths,          \* absolute paths
  Stamp,          \* the journal's
  kSwapPageFile,  \* the swap file's
  MainData,       \* the name of the fork nodes are read and written in
  ForkNames, Data, Streams,
  Restricts,      \* what streams are opened with, as sequences of characters
  kNeFSForkSize,  \* the most a node reads or writes at once
  Forks,          \* a bound of the model: addresses 1..Forks
  Disks           \* what the disk may come with

None == "none"

ASSUME FilesAssumption == /\ {Stamp, kSwapPageFile} \subseteq Paths
                          /\ MainData \in ForkNames /\ None \notin ForkNames
                          /\ Restricts \subseteq Seq(STRING)
                          /\ kNeFSForkSize \in Nat \ {0} /\ Forks \in Nat \ {0}

VARIABLES
  mounted,    \* is a file system mounted?
  readOnly,   \* is the drive?
  cat,        \* per path: its catalog, or NoCatalog
  slots,      \* catalogs so far
  disk,       \* per address: the fork there
  data,       \* per address: the data of the fork there
  stream,     \* per stream: its mode and its node, or Closed
  journal,    \* the journal's node
  written     \* per path and fork: what was written to it last

vars == <<mounted, readOnly, cat, slots, disk, data, stream, journal, written>>

ForkAddr == 1..Forks

\* (A directory's path ends with a separator, no other's does.)
Kinds == {"file", "alias", "page"}

\* The address of a catalog's forks goes with its slot.
NoCatalog == [kind |-> None, fork |-> 0]
Catalogs == [kind : Kinds, fork : ForkAddr] \union {NoCatalog}

Blank == [created |-> FALSE, name |-> None, catalog |-> None, size |-> 0, next |-> 0]
Fork == [created : {TRUE}, name : ForkNames, catalog : Paths, size : 1..kNeFSForkSize,
         next : 0..(Forks - 1)] \union {Blank}

\* A node is a copy of a catalog as it was when it was looked up.
NullNode == [path |-> None, kind |-> None, fork |-> 0]
BlankNode == [path |-> "", kind |-> None, fork |-> 0]
NodeOf(path) == IF cat[path] = NoCatalog THEN NullNode
                ELSE [path |-> path, kind |-> cat[path].kind, fork |-> cat[path].fork]

Closed == [mode |-> None, node |-> NullNode]

\* What a fork's name and catalog say is said once in a chain.
Tidy(d) ==
  /\ \A a \in ForkAddr : d[a].next < a
  /\ \A a, b \in ForkAddr : d[a].created /\ d[a].name = d[b].name /\ d[a].catalog = d[b].catalog
       => a = b

ASSUME DisksAssumption == \A d \in Disks : d \in [ForkAddr -> Fork] /\ Tidy(d)

Init ==
  /\ mounted = FALSE /\ readOnly \in BOOLEAN
  /\ cat = [p \in Paths |-> NoCatalog] /\ slots = 0
  /\ disk \in Disks
  /\ \E d \in Data : data = [a \in ForkAddr |-> d]
  /\ stream = [s \in Streams |-> Closed]
  /\ journal = NullNode
  /\ written = [p \in Paths |-> [n \in ForkNames |-> None]]

-----------------------------------------------------------------------------
(* Forks.                                                                  *)

\* The forks' addresses from one on; an address below the catalogs' ends them.
Chain(from) ==
  LET chain[a \in 0..Forks] == IF a = 0 THEN <<>> ELSE <<a>> \o chain[disk[a].next]
  IN  chain[from]

FirstIn(chain, Test(_)) ==
  LET i == SelectInSeq(chain, Test) IN IF i = 0 THEN 0 ELSE chain[i]

\* WriteCatalog looks the catalog up again, by the node's name ...
WriteCatalog(path, size, name) ==
  IF cat[path] = NoCatalog THEN 0
  ELSE FirstIn(Chain(cat[path].fork),
               LAMBDA a : /\ disk[a].created /\ disk[a].name = name
                          /\ disk[a].catalog = path /\ disk[a].size = size)

\* Mutant: the fork's catalog is not looked at.
ReadCatalog_ByName(node, name) ==
  {disk[a] : a \in {FirstIn(Chain(node.fork), LAMBDA a : disk[a].name = name)} \ {0}}

\* ... while ReadCatalog follows the node's own copy and asks for no size. The block
\* it answers, if any, holds the fork itself: what lies at the fork's DataOffset is
\* never read.
ReadCatalog(node, name) ==
  {disk[a] : a \in {FirstIn(Chain(node.fork),
                            LAMBDA a : /\ disk[a].name = name
                                       /\ disk[a].catalog = node.path)} \ {0}}

\* The data fork's address must be below the first catalog, where no fork is: in
\* the model, below 1.
CreateFork(path) == cat[path] # NoCatalog /\ cat[path].fork < 1

-----------------------------------------------------------------------------
(* Nodes.                                                                  *)

\* Whether a node's bytes may be moved: only a file's, and not too many.
Moves(node, size) == size # 0 /\ size =< kNeFSForkSize /\ node.kind = "file"

\* The address a write through a node goes to, if any.
NodeWrite(node, name, size) ==
  IF Moves(node, size) THEN WriteCatalog(node.path, size, name) ELSE 0

NodeRead(node, name, size) == IF Moves(node, size) THEN ReadCatalog(node, name) ELSE {}

\* Output to a read-only drive is dropped, and nobody is told.
Store(node, name, size, d) ==
  LET a == NodeWrite(node, name, size) IN
  IF a = 0 \/ readOnly THEN UNCHANGED <<data, written>>
  ELSE /\ data' = [data EXCEPT ![a] = d]
       /\ written' = [written EXCEPT ![node.path][name] = d]

\* A catalog that is there is not created again; nor is one that was removed, which
\* still passes for created (see NeFS), so that removing changes nothing here.
Refused(path) == cat[path] # NoCatalog

\* CreateCatalog answers the entry as it was before, a blank one.
Created(path, kind) ==
  IF Refused(path) \/ readOnly
  THEN UNCHANGED <<cat, slots>>
  ELSE /\ slots' = slots + 1
       /\ cat' = [cat EXCEPT ![path] = [kind |-> kind, fork |-> Forks - slots]]

Create(path, kind) ==
  /\ slots < Forks
  /\ Created(path, kind)
  /\ UNCHANGED <<mounted, readOnly, disk, data, stream, journal, written>>

-----------------------------------------------------------------------------
(* The mounted file system and its streams.                                *)

\* A file system is mounted over whichever there is.
Mount == /\ mounted' = TRUE
         /\ UNCHANGED <<readOnly, cat, slots, disk, data, stream, journal, written>>
Unmount == /\ mounted' = FALSE
           /\ UNCHANGED <<readOnly, cat, slots, disk, data, stream, journal, written>>

kRestrictList == <<
  [fRestrict |-> <<"r">>, fMappedTo |-> "read"],
  [fRestrict |-> <<"r", "b">>, fMappedTo |-> "readBinary"],
  [fRestrict |-> <<"r", "w", "b">>, fMappedTo |-> "readWriteBinary"],
  [fRestrict |-> <<"w">>, fMappedTo |-> "write"],
  [fRestrict |-> <<"r", "w">>, fMappedTo |-> "readWrite"]>>

\* Only the entry's own length is compared: "r" comes first and takes all that
\* begin with it.
ModeOf(restrict) ==
  LET i == SelectInSeq(kRestrictList, LAMBDA e : IsPrefix(e.fRestrict, restrict))
  IN  IF i = 0 THEN "readBinary" ELSE kRestrictList[i].fMappedTo

MayRead(mode) == mode \in {"readWrite", "readWriteBinary", "read", "readBinary"}

\* Mutant: the mode is not looked at.
MayWrite_Any(mode) == mode # None

MayWrite(mode) == mode \in {"readWrite", "readWriteBinary", "write", "writeBinary"}

\* A stream on a path without catalog has a null node. Without a mounted file
\* system the constructor calls through a null pointer.
Open(s, path, restrict) ==
  /\ mounted /\ stream[s] = Closed
  /\ stream' = [stream EXCEPT ![s] = [mode |-> ModeOf(restrict), node |-> NodeOf(path)]]
  /\ UNCHANGED <<mounted, readOnly, cat, slots, disk, data, journal, written>>

Close(s) ==
  /\ stream[s] # Closed
  /\ stream' = [stream EXCEPT ![s] = Closed]
  /\ UNCHANGED <<mounted, readOnly, cat, slots, disk, data, journal, written>>

\* Whatever becomes of the data, a stream that may write answers success. (A null
\* node has no name to look up.)
StreamWrite(s, name, size, d) ==
  /\ stream[s] # Closed
  /\ IF MayWrite(stream[s].mode) /\ mounted THEN Store(stream[s].node, name, size, d)
     ELSE UNCHANGED <<data, written>>
  /\ UNCHANGED <<mounted, readOnly, cat, slots, disk, stream, journal>>

\* Reading at an offset seeks, which does nothing, and reads the main fork; reading
\* by name passes on a size of 0, with which a node answers nothing. What is
\* answered is a fork, in a set of its own.
StreamRead(s, size) ==
  IF MayRead(stream[s].mode) /\ mounted THEN NodeRead(stream[s].node, MainData, size) ELSE {}
StreamReadNamed(s, name) ==
  IF MayRead(stream[s].mode) /\ mounted THEN NodeRead(stream[s].node, name, 0) ELSE {}

-----------------------------------------------------------------------------
(* The swap file and the journal.                                          *)

\* A stream of its own for every call. A swap file made by CreateSwapFile is a
\* page file, into which nothing is written; the caller is told YES.
SwapWrite(name, size, d) ==
  /\ mounted
  /\ Store(NodeOf(kSwapPageFile), name, size, d)
  /\ UNCHANGED <<mounted, readOnly, cat, slots, disk, stream, journal>>

SwapRead(name) == NodeRead(NodeOf(kSwapPageFile), name, 0)

GetJournal ==
  /\ journal = NullNode /\ cat[Stamp] # NoCatalog
  /\ journal' = NodeOf(Stamp)
  /\ UNCHANGED <<mounted, readOnly, cat, slots, disk, data, stream, written>>

\* (The directory made first has a catalog of its own, not counted in slots.)
CreateJournal ==
  /\ journal = NullNode /\ slots < Forks
  /\ journal' = IF Refused(Stamp) THEN NullNode ELSE BlankNode
  /\ Created(Stamp, "file")
  /\ UNCHANGED <<mounted, readOnly, disk, data, stream, written>>

\* The fork the journal's data would be written to is refused.
CommitJournal(size, name, d) ==
  /\ journal # NullNode
  /\ IF CreateFork(Stamp) THEN Store(NodeOf(Stamp), name, size, d)
     ELSE UNCHANGED <<data, written>>
  /\ UNCHANGED <<mounted, readOnly, cat, slots, disk, stream, journal>>

ReleaseJournal ==
  /\ journal # NullNode /\ journal' = NullNode
  /\ UNCHANGED <<mounted, readOnly, cat, slots, disk, data, stream, written>>

-----------------------------------------------------------------------------

Next ==
  \/ Mount \/ Unmount
  \/ \E p \in Paths, k \in Kinds : Create(p, k)
  \/ \E s \in Streams : \/ Close(s)
                        \/ \E p \in Paths, r \in Restricts : Open(s, p, r)
                        \/ \E n \in ForkNames, z \in 0..(kNeFSForkSize + 1), d \in Data :
                             StreamWrite(s, n, z, d)
  \/ \E n \in ForkNames, z \in 1..(kNeFSForkSize + 1), d \in Data :
       SwapWrite(n, z, d) \/ CommitJournal(z, n, d)
  \/ GetJournal \/ CreateJournal \/ ReleaseJournal

Spec == Init /\ [][Next]_vars
-----------------------------------------------------------------------------

TypeOK ==
  /\ mounted \in BOOLEAN /\ readOnly \in BOOLEAN /\ slots \in 0..Forks
  /\ cat \in [Paths -> Catalogs] /\ disk \in [ForkAddr -> Fork] /\ data \in [ForkAddr -> Data]
  /\ \A s \in Streams : stream[s].node.fork \in 0..Forks

\* Readers and writers meet: what was written to a file's fork through one stream
\* still lies behind the fork that every other stream on that file is answered, also
\* one that was opened earlier, with a copy of the catalog as it was then; and files
\* with a chain each do not write into one another. The answer is the fork and not
\* what was written, which no call of the file system reads back.
\* (OpenNeFS.cc:640, :953, :975-989)
ForkOfWritersIsRead ==
  \A s \in Streams, p \in Paths :
    stream[s].node.path = p /\ written[p][MainData] # None /\ mounted
      /\ stream[s].node.kind = "file" /\ MayRead(stream[s].mode) =>
        \E a \in ForkAddr : /\ StreamRead(s, 1) = {disk[a]}
                             /\ disk[a].name = MainData /\ disk[a].catalog = p
                             /\ data[a] = written[p][MainData]

FilesKept == TypeOK /\ ForkOfWritersIsRead

\* Data changes only through a stream that was opened with w on the file the fork
\* belongs to, or in the swap file when that is a file; and never on a read-only
\* drive. A stream opened with rw or rwb, which the list of modes declares
\* read-write, changes nothing: r stands before them in the list and takes them.
\* (FileMgr.h:237, :348-379)
OnlyWritersWrite ==
  [][\A a \in ForkAddr : data'[a] # data[a] =>
       /\ ~readOnly /\ mounted /\ disk[a].created
       /\ cat[disk[a].catalog].kind = "file"
       /\ \/ disk[a].catalog = kSwapPageFile
          \/ \E s \in Streams : /\ stream[s].node.path = disk[a].catalog
                                /\ stream[s].mode = "write"]_vars
=============================================================================
