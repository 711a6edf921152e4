-------------------------------- MODULE NeFS --------------------------------
(***************************************************************************)
(* The catalogs of the New extended File System (src/FS/OpenNeFS.cc) on    *)
(* the drive that holds them (DriveMgr.cc), formatted by the bootloader    *)
(* (Boot/BootKit/BootKit.h) and filled by the kernel's installer           *)
(* (KernelMain.cc), with power lost between any two disk writes.           *)
(* A catalog slot stands for the address StartCatalog + 4 * 514 * (slot-1) *)
(* of its entry; address 0 is slot 0.  One output packet writes one        *)
(* structure; what was written is read back.  Nothing calls the file       *)
(* system from two places at once, so the reads of a call are one step     *)
(* with the next write's preparation.                                      *)
(* CreateFork is left out: MUST_TRY(lba < kNeFSCatalogStartAddress) turns  *)
(* down every catalog of a disk of 4 GiB or more, so there are no forks.   *)
(***************************************************************************)
EXTENDS Integers, FiniteSets, Sequences

CONSTANTS
  Names,       \* absolute paths, directories with their trailing '/'
  NoName,      \* the empty name of a blank entry
  Root,        \* "/"
  Parent,      \* the path CreateCatalog cuts out of each name, if any
  Folders,     \* what the installer creates, in order
  Total,       \* FreeCatalog of a fresh partition
  MaxCrashes   \* bound of the model: how often power is lost

ASSUME NeFSAssumption ==
  /\ Root \in Names /\ NoName \notin Names
  /\ IsFiniteSet(Names)
  /\ Parent \in [Names -> Names \cup {NoName}]
  /\ Folders \in Seq(Names)
  /\ Total \in Nat /\ MaxCrashes \in Nat

VARIABLES
  cat,         \* the catalog entries on disk
  super,       \* the superblock on disk
  epm,         \* does block 0 hold the EPM magic?
  readOnly,    \* fPacketReadOnly of the mounted drive
  op,          \* the call under way and its next disk write
  todo,        \* where the installer is in Folders
  promised,    \* names reported as created, and not removed since
  crashes

vars == <<cat, super, epm, readOnly, op, todo, promised, crashes>>

(* One slot more than catalogs with distinct names can take.               *)
Slots == 1 .. (Cardinality(Names) + 1)

(* Flags is tested with `& kNeFSFlagCreated': 70 & 71 is not 0 either.     *)
Unallocated == 0
Deleted == 70
Created == 71
IsCreated(s) == cat[s].flags \in {Created, Deleted}

Entry == [name : Names \cup {NoName},
          flags : {Unallocated, Deleted, Created},
          next : 0 .. (Cardinality(Names) + 2)]

Blank == [name |-> NoName, flags |-> Unallocated, next |-> 0]

Ops == [at : {"boot", "epm", "mount", "idle", "entry", "mark",
              "countUp", "countDown", "lost"},
        name : Names \cup {NoName},
        slot : Slots \cup {0}]

At(p) == [at |-> p, name |-> NoName, slot |-> 0]

TypeOK ==
  /\ cat \in [Slots -> Entry]
  /\ super \in [valid : BOOLEAN, free : Nat]
  /\ epm \in BOOLEAN
  /\ readOnly \in BOOLEAN
  /\ op \in Ops
  /\ todo \in 1 .. (Len(Folders) + 1)
  /\ promised \subseteq Names
  /\ crashes \in 0 .. MaxCrashes
-----------------------------------------------------------------------------
(* FindCatalog follows NextSibling from the first slot; an address below   *)
(* StartCatalog ends the walk.                                             *)
Reached == {s \in Slots : \A r \in 1 .. (s - 1) : cat[r].next = r + 1}

(* Mutated forms of Matches, NewEntry, Marked and Counted.                 *)
MatchesCreated(n) == {s \in Reached : cat[s].name = n /\ cat[s].flags = Created}
EntryUnlinked(n, s) == [name |-> n, flags |-> Created, next |-> 0]
MarkedSum(e) == [e EXCEPT !.flags = @ + Deleted]
CountedAlways(up) == [super EXCEPT !.free = @ - 1]

Matches(n) == {s \in Reached : cat[s].name = n /\ IsCreated(s)}

Exists(n) == Matches(n) # {}

SlotOf(n) == CHOOSE s \in Matches(n) : \A r \in Matches(n) : s <= r

(* CreateCatalog looks for room from its parent's slot on, or, without one *)
(* on the disk, from the first; the loop also stops at an entry of the     *)
(* same name.                                                              *)
From(n) == IF Parent[n] # NoName /\ Exists(Parent[n])
           THEN SlotOf(Parent[n]) ELSE 1

Stops(s, n) == ~IsCreated(s) \/ cat[s].name = n

IsRoom(s, n) ==
  /\ s >= From(n) /\ Stops(s, n)
  /\ \A r \in From(n) .. (s - 1) : ~Stops(r, n)

NewEntry(n, s) == [name |-> n, flags |-> Created, next |-> s + 1]

Marked(e) == [e EXCEPT !.flags = Deleted]

(* CatalogCount and FreeSectors go up and down as well, but nothing ever   *)
(* reads them to decide; removal leaves FreeCatalog alone.                 *)
Counted(up) == IF up THEN [super EXCEPT !.free = @ - 1] ELSE super
-----------------------------------------------------------------------------
Init ==
  /\ cat = [s \in Slots |-> Blank]
  /\ super = [valid |-> FALSE, free |-> 0]
  /\ epm = FALSE
  /\ readOnly = FALSE
  /\ op = At("boot")
  /\ todo = 1
  /\ promised = {}
  /\ crashes = 0

(* Without a valid superblock the bootloader formats: it writes the        *)
(* superblock, then block 0.  The root catalog is not written, and the     *)
(* others stay.  (IsPartitionValid compares eight characters with a        *)
(* literal of seven: the eighth is the byte that lies behind the literal,  *)
(* and as memcpy moves words it is also the one Format wrote.)             *)
FormatSuper ==
  /\ op.at = "boot" /\ ~super.valid
  /\ super' = [valid |-> TRUE, free |-> Total]
  /\ op' = At("epm")
  /\ UNCHANGED <<cat, epm, readOnly, todo, promised, crashes>>

FormatEpm ==
  /\ op.at = "epm"
  /\ epm' = TRUE
  /\ op' = At("mount")
  /\ UNCHANGED <<cat, super, readOnly, todo, promised, crashes>>

Healthy ==
  /\ op.at = "boot" /\ super.valid
  /\ op' = At("mount")
  /\ UNCHANGED <<cat, super, epm, readOnly, todo, promised, crashes>>

(* Mount, mutated: the installer goes on where it was.                     *)
MountResumes ==
  /\ op.at = "mount"
  /\ readOnly' = ~epm
  /\ op' = At("idle")
  /\ UNCHANGED <<cat, super, epm, todo, promised, crashes>>

(* io_detect_drive: a drive without the EPM magic is mounted read-only,    *)
(* and io_drv_output returns silently on such a drive.                     *)
Mount ==
  /\ op.at = "mount"
  /\ readOnly' = ~epm
  /\ todo' = 1
  /\ op' = At("idle")
  /\ UNCHANGED <<cat, super, epm, promised, crashes>>

CreateCatalog(n) ==
  /\ op.at = "idle"
  /\ ~Exists(n)
  /\ super.free >= 1
  /\ \E s \in Slots : /\ IsRoom(s, n) /\ ~IsCreated(s)
                      /\ op' = [at |-> "entry", name |-> n, slot |-> s]
  /\ UNCHANGED <<cat, super, epm, readOnly, promised, crashes>>

(* To find the parent, CreateCatalog cuts two characters off and walks     *)
(* back to a separator.  In the root's name, and in that of a file of one  *)
(* letter in the root, none is left: the index falls below zero, and the   *)
(* stack in front of parent_name is zeroed up to a byte that is a '/'.     *)
(* With one nearby CreateCatalog goes on, without a parent, as the name    *)
(* has been emptied; otherwise the kernel does not come back.              *)
Stray(n) ==
  /\ op.at = "idle" /\ ~Exists(n) /\ Parent[n] = NoName
  /\ op' = At("lost")
  /\ UNCHANGED <<cat, super, epm, readOnly, promised, crashes>>

WriteEntry ==
  /\ op.at = "entry"
  /\ IF readOnly THEN UNCHANGED cat
     ELSE cat' = [cat EXCEPT ![op.slot] = NewEntry(op.name, op.slot)]
  /\ op' = [op EXCEPT !.at = "countUp"]
  /\ UNCHANGED <<super, epm, readOnly, todo, promised, crashes>>

(* RemoveCatalog refuses the root.  With a name it does not find it tests  *)
(* the Flags of a null catalog: when the bits at that address pass for     *)
(* created it goes on and writes to block 0, the outcome modelled here;    *)
(* otherwise it changes nothing, or faults like a crash.                   *)
RemoveCatalog(n) ==
  /\ op.at = "idle" /\ todo > Len(Folders)
  /\ n # Root
  /\ op' = [at |-> "mark", name |-> n,
            slot |-> IF Exists(n) THEN SlotOf(n) ELSE 0]
  /\ promised' = promised \ {n}
  /\ UNCHANGED <<cat, super, epm, readOnly, todo, crashes>>

MarkRemoved ==
  /\ op.at = "mark"
  /\ cat' = IF readOnly \/ op.slot = 0 THEN cat
            ELSE [cat EXCEPT ![op.slot] = Marked(@)]
  /\ epm' = (epm /\ (readOnly \/ op.slot # 0))
  /\ op' = [op EXCEPT !.at = "countDown"]
  /\ UNCHANGED <<super, readOnly, todo, promised, crashes>>

(* Both calls end with a rewritten superblock, and report success.         *)
WriteCounts ==
  /\ op.at \in {"countUp", "countDown"}
  /\ super' = IF readOnly THEN super ELSE Counted(op.at = "countUp")
  /\ promised' = IF op.at = "countUp" THEN promised \cup {op.name}
                                      ELSE promised
  /\ op' = At("idle")
  /\ UNCHANGED <<cat, epm, readOnly, todo, crashes>>

(* A catalog is neither created nor written when it is found, when there   *)
(* are no catalogs left, or when the scan meets its name after all.        *)
Passed(n) == \/ Exists(n)
             \/ super.free < 1
             \/ \E s \in Slots : IsRoom(s, n) /\ IsCreated(s)

(* NeFilesystemInstaller creates what it does not find, one after the      *)
(* other, and goes on whatever the answer.  (The journal and its           *)
(* directory come last: CreateJournal is called when the file is missing.) *)
InstallNext ==
  /\ op.at = "idle" /\ todo <= Len(Folders)
  /\ todo' = todo + 1
  /\ \/ CreateCatalog(Folders[todo]) \/ Stray(Folders[todo])
     \/ /\ Passed(Folders[todo])
        /\ UNCHANGED <<cat, super, epm, readOnly, op, promised, crashes>>

UserCreate(n) ==
  /\ todo > Len(Folders)
  /\ CreateCatalog(n) \/ Stray(n)
  /\ UNCHANGED todo

Crash ==
  /\ crashes < MaxCrashes
  /\ crashes' = crashes + 1
  /\ op' = At("boot")
  /\ UNCHANGED <<cat, super, epm, readOnly, todo, promised>>

(* Whoever is lost stays so until power is.                                *)
Lost == op.at = "lost" /\ UNCHANGED vars

Booting == FormatSuper \/ FormatEpm \/ Healthy \/ Mount
Writing == WriteEntry \/ MarkRemoved \/ WriteCounts

Next ==
  \/ Booting
  \/ InstallNext
  \/ Writing
  \/ \E n \in Names : UserCreate(n) \/ RemoveCatalog(n)
  \/ Crash
  \/ Lost

Spec == Init /\ [][Next]_vars

(* The boot path and the calls themselves run on; nobody has to call.      *)
FairSpec == Spec /\ WF_vars(Booting) /\ WF_vars(InstallNext)
                 /\ WF_vars(Writing)
-----------------------------------------------------------------------------
(* No two live entries carry one name, though the scan for room starts at  *)
(* the parent and may pass an older entry by (CreateCatalog, 352-436).     *)
UniqueNames ==
  \A s, t \in Slots :
    IsCreated(s) /\ IsCreated(t) /\ cat[s].name = cat[t].name => s = t

(* Every entry on disk is met by FindCatalog's walk, whatever was lost.    *)
NothingStranded == \A s \in Slots : IsCreated(s) => s \in Reached

(* A name leads to its one entry.                                          *)
NamesLead == UniqueNames /\ NothingStranded

(* FreeCatalog, which decides whether a catalog may be created, is never   *)
(* too low, and too high by at most the one count a power loss can drop.   *)
FreeAlmostExact ==
  LET live == Cardinality({s \in Slots : IsCreated(s)})
      lost == crashes + IF op.at = "countUp" THEN 1 ELSE 0
  IN super.valid =>
       super.free + live - Total \in 0 .. lost

(* What was reported created is found until it is removed, also after      *)
(* power was lost, unless the drive was mounted read-only.                 *)
PromiseKept == readOnly \/ \A n \in promised : Exists(n)

(* However often it is interrupted, the installer has all its folders on   *)
(* the disk in the end, unless the kernel is lost looking for the root's   *)
(* parent, or block 0 is not whole under a superblock that is: such a      *)
(* drive is never formatted again.                                         *)
Installed ==
  \/ <>[](\A i \in 1 .. Len(Folders) : Exists(Folders[i]))
  \/ <>[](op.at = "lost")
  \/ <>[](super.valid /\ ~epm)
=============================================================================
