--------------------------------- MODULE Boot ---------------------------------
(***************************************************************************)
(* The EFI bootloader from its entry to the kernel's (Boot/src/HEL/AMD64/  *)
(* EFIBootStartup.cc, BootFileReader.cc, BootThread.cc; the kernel's       *)
(* HALKit/AMD64/HalKernelMain.cc).  It runs two images, one after the      *)
(* other: the recovery check syschk.sys and the kernel; each is read into  *)
(* a pool, laid out in memory section by section, and jumped to.           *)
(* The unit of size is one cell.  memset and memcpy move a 4-byte word for *)
(* every byte they are asked for (BootSupport.cc), so that an operation on *)
(* n cells touches WordSize * n; pages are asked for in units of 512       *)
(* bytes and given in units of 4096, PageRatio times the image's size.     *)
(* The firmware may fail any call, MaxFailures times in all.  A call or a  *)
(* jump through a pointer nobody set ends in "lost".                       *)
(* The drive's part in the recovery check and in formatting is Storage's   *)
(* and NeFS's; here they have an outcome.                                  *)
(***************************************************************************)
EXTENDS Integers, Sequences

CONSTANTS
  Images,       \* what can be found under a file's name
  Chunk,        \* cells ReadAll asks for at a time
  Cells,        \* bound of the model: cells of memory behind an image's base
  MaxFailures   \* bound of the model: calls the firmware fails

WordSize == 4
PageSize == 512
PageRatio == 4096 \div PageSize

(* Raw cells of a section are in the file; bss more are in memory only.    *)
Sections == [name : {".text", "undotted", ".ldr", "other"}, va : Nat, raw : Nat,
             bss : Nat, ptr : Nat, stamped : BOOLEAN]
Kinds == {"absent", "unknown", "foreign", "pe"}

ASSUME BootAssumption ==
  /\ \A f \in Images : /\ f.kind \in Kinds /\ f.size \in Nat /\ f.image \in Nat
                       /\ f.sections \in Seq(Sections)
  /\ Chunk \in Nat \ {0} /\ Cells \in Nat /\ MaxFailures \in Nat

(* An image made by the linker: what its sections hold is in the file and  *)
(* in the image, one section behind the other.  (It fits into the model's  *)
(* memory.)                                                                *)
WellLinked(f) ==
  /\ f.size <= Cells
  /\ \A n \in 1 .. Len(f.sections) :
       LET s == f.sections[n]
       IN  /\ s.ptr + s.raw <= f.size
           /\ s.va + s.raw + s.bss <= f.image /\ s.va + s.raw + s.bss <= Cells
           /\ \A m \in 1 .. (n - 1) :
                LET t == f.sections[m] IN t.va + t.raw + t.bss <= s.va

ASSUME ImagesAssumption == \A f \in Images : f.kind = "pe" => WellLinked(f)

None == -1        \* a cell nobody has written
Zero == -2        \* a cell that was cleared
Other == -3       \* what lies behind the file in the pool
Files == {"syschk", "kernel"}
Ends == {"returned", "stopped", "lost", "running"}

VARIABLES
  disk,       \* the image found under each name
  pc, file,   \* where Main is, and the file it deals with
  read,       \* the reader: szCnt, the file's position, bufSize
  blob,       \* mBlob: the place in the file each cell came from
  overrun,    \* the reader has written behind the blob
  misread,    \* a read has failed
  mem,        \* the memory behind the image's base
  thread,     \* the section at work, fStartAddress, fStack; were pages given?
  header,     \* the handover header
  drive,      \* what is known of the partition
  firmware,   \* is the map key good, has the firmware left?
  failures

reader == <<read, blob, overrun, misread>>
image == <<mem, thread>>
vars == <<disk, pc, file, reader, image, header, drive, firmware, failures>>

Empty == [c \in 0 .. (Cells - 1) |-> None]
NoThread == [section |-> 0, start |-> FALSE, stack |-> FALSE, given |-> FALSE]
Closed == [count |-> 0, at |-> 0, buf |-> Chunk]

This == disk[file]

TypeOK ==
  /\ disk \in [Files -> Images]
  /\ pc \in Ends \cup {"entry", "map", "bitmap", "open", "size", "read", "load",
                       "sections", "stack", "start", "check", "fill", "exit",
                       "jump", "platform"}
  /\ file \in Files
  /\ read \in [count : Nat, at : Nat, buf : 0 .. Chunk]
  /\ pc = "read" => read.at <= This.size
  /\ blob \in [0 .. (Cells - 1) -> Nat \cup {None}]
  /\ overrun \in BOOLEAN /\ misread \in BOOLEAN
  /\ mem \in [0 .. (Cells - 1) -> Nat \cup {None, Zero, Other}]
  /\ thread \in [section : Nat, start : BOOLEAN, stack : BOOLEAN, given : BOOLEAN]
  /\ header \in [bitmap : BOOLEAN, magic : BOOLEAN, tables : BOOLEAN,
                 image : Files \cup {"none"}]
  /\ drive \in {"unknown", "checked", "formatted"}
  /\ firmware \in [key : BOOLEAN, left : BOOLEAN]
  /\ failures \in 0 .. MaxFailures
-----------------------------------------------------------------------------
Init ==
  /\ disk \in [Files -> Images]
  /\ pc = "entry" /\ file = "syschk"
  /\ read = Closed /\ blob = Empty /\ overrun = FALSE /\ misread = FALSE
  /\ mem = Empty /\ thread = NoThread
  /\ header = [bitmap |-> FALSE, magic |-> FALSE, tables |-> FALSE, image |-> "none"]
  /\ drive = "unknown"
  /\ firmware = [key |-> FALSE, left |-> FALSE]
  /\ failures = 0

Fails == failures < MaxFailures /\ failures' = failures + 1
Works == UNCHANGED failures

(* A pool may be carved from pages the firmware holds already, or change   *)
(* the memory map; whole pages always do.                                  *)
Pool == firmware' \in {firmware, [firmware EXCEPT !.key = FALSE]}
Pages == firmware' = [firmware EXCEPT !.key = FALSE]

(* Without a display, or one of its mode, Main returns to the firmware.    *)
Entry ==
  /\ pc = "entry"
  /\ \/ Works /\ pc' = "map"
     \/ Fails /\ pc' = "returned"
  /\ UNCHANGED <<disk, file, reader, image, header, drive, firmware>>

(* The map is asked for twice, as its size is not known at first; what is  *)
(* looked for in it is not used.  (The table has room for as many entries  *)
(* as an entry has bytes; the firmware may write behind it.)               *)
GetMemoryMap ==
  /\ pc = "map"
  /\ firmware' = [firmware EXCEPT !.key = TRUE]
  /\ \/ pc' = "bitmap" /\ Works
     \/ pc' = "lost" /\ Fails
  /\ UNCHANGED <<disk, file, reader, image, header, drive>>

(* The pool for the kernel's memory is asked for until there is one.  The  *)
(* size, 4 GiB, is 0 in the 32 bits of AllocatePool.                       *)
AllocateBitMap ==
  /\ pc = "bitmap"
  /\ \/ /\ Works /\ Pool
        /\ header' = [header EXCEPT !.bitmap = TRUE, !.tables = TRUE]
        /\ pc' = "open"
     \/ Fails /\ UNCHANGED <<header, pc, firmware>>
  /\ UNCHANGED <<disk, file, reader, image, drive>>

(* BFileReader: whatever fails leaves mFile null, and ReadAll asks it for  *)
(* the file's size.                                                        *)
OpenFile ==
  /\ pc = "open"
  /\ \/ Works /\ pc' = IF This.kind = "absent" THEN "lost" ELSE "size"
     \/ Fails /\ pc' = "lost"
  /\ read' = Closed /\ blob' = Empty /\ overrun' = FALSE /\ misread' = FALSE
  /\ UNCHANGED <<disk, file, image, header, drive, firmware>>

(* Mutated forms of Took and StartKernel.                                  *)
TookWhole(n) == [count |-> read.count + n, at |-> read.at + Chunk, buf |-> n]
TookUncounted(n) == [count |-> read.count, at |-> read.at + n, buf |-> n]
StartAnyway ==
  /\ pc = "jump" /\ pc' = "platform"
  /\ UNCHANGED <<disk, file, reader, image, header, drive, firmware, failures>>

(* Main looks whether there is a blob: a kernel without one stops, but the *)
(* recovery check's thread is null then and is started all the same.  What *)
(* lies at its fStartAddress is zero or not.                               *)
NoBlob == IF file = "kernel" THEN {"stopped"} ELSE {"stopped", "lost"}

(* ReadAll: no size, or a file of none, and there is no blob; no pool for  *)
(* it, and ThrowError stops.                                               *)
AllocateBlob ==
  /\ pc = "size"
  /\ \/ Works /\ This.size = 0 /\ pc' \in NoBlob /\ UNCHANGED firmware
     \/ Works /\ This.size > 0 /\ pc' = "read" /\ Pages
     \/ Fails /\ pc' \in NoBlob /\ UNCHANGED firmware
  /\ UNCHANGED <<disk, file, reader, image, header, drive>>

Least(m, n) == IF m < n THEN m ELSE n

(* One turn of ReadAll's loop: the file gives what it has, and the next    *)
(* turn asks for as much as this one got.  (The firmware's error codes are *)
(* not the one the loop compares with.)                                    *)
Took(n) == [count |-> read.count + n, at |-> read.at + n, buf |-> n]

ReadChunk ==
  /\ pc = "read" /\ read.count < This.size
  /\ LET n == Least(read.buf, This.size - read.at)
     IN /\ Works
        /\ read' = Took(n)
        /\ blob' = [c \in DOMAIN blob |->
                      IF c \in read.count .. (read.count + n - 1)
                      THEN read.at + (c - read.count) ELSE blob[c]]
        /\ overrun' = (overrun \/ read.count + n > This.size)
  /\ UNCHANGED <<disk, pc, file, misread, image, header, drive, firmware>>

(* A read that failed counts as one that read everything.                  *)
ReadFails ==
  /\ pc = "read" /\ read.count < This.size
  /\ Fails
  /\ misread' = TRUE
  /\ read' = [read EXCEPT !.count = @ + read.buf]
  /\ UNCHANGED <<disk, pc, file, blob, overrun, image, header, drive, firmware>>
-----------------------------------------------------------------------------
PagesFor(f) == f.image * PageRatio
Granted == 0 .. (PagesFor(This) - 1)

(* BootThread looks for the PE headers; an image for another machine or    *)
(* subsystem has no stack either.  Whether the pages were given, at the     *)
(* image's base, is not asked.                                             *)
(* Without a pool for the thread itself it lies at address zero, and is    *)
(* not followed any further.                                               *)
Load ==
  /\ pc = "read" /\ read.count >= This.size
  /\ mem' = Empty
  /\ \/ /\ Works /\ This.kind \in {"unknown", "foreign"} /\ Pool
        /\ pc' = IF This.kind = "unknown" THEN "stack" ELSE "start"
        /\ thread' = NoThread
     \/ /\ This.kind = "pe" /\ pc' = "sections"
        /\ \E given \in BOOLEAN :
             /\ IF given THEN Works /\ Pages ELSE Fails /\ Pool
             /\ thread' = [NoThread EXCEPT !.section = 1, !.given = given]
     \/ Fails /\ pc' = "lost" /\ UNCHANGED <<thread, firmware>>
  /\ UNCHANGED <<disk, file, reader, header, drive>>

(* strcmp gives the place of the first difference, and 0 for equal: a name *)
(* that does not begin with a dot is the code's as well.                   *)
IsCode(s) == s.name \in {".text", "undotted"}
Touched(s) == s.va .. (s.va + WordSize * s.raw - 1)
Byte(p) == IF p \in DOMAIN blob /\ p < This.size THEN blob[p] ELSE Other

(* A section is cleared and then copied, both word by word.                *)
Laid(s) == [c \in DOMAIN mem |->
              IF c \in Touched(s) THEN Byte(s.ptr + (c - s.va)) ELSE mem[c]]

(* LoadSection, mutated: the last section first.                           *)
LoadBackwards ==
  /\ pc = "sections" /\ thread.section <= Len(This.sections)
  /\ LET s == This.sections[Len(This.sections) + 1 - thread.section]
     IN /\ mem' = Laid(s)
        /\ thread' = [thread EXCEPT !.section = @ + 1, !.start = @ \/ IsCode(s)]
  /\ UNCHANGED <<disk, pc, file, reader, header, drive, firmware, failures>>

(* Pages that were not given are the firmware's own, or no memory at all.  *)
LoadSection ==
  /\ pc = "sections" /\ thread.section <= Len(This.sections)
  /\ LET s == This.sections[thread.section]
     IN IF s.name = ".ldr" /\ ~s.stamped
        THEN pc' = "stopped" /\ UNCHANGED <<mem, thread>>
        ELSE /\ mem' = Laid(s) \/ (~thread.given /\ mem' = mem)
             /\ thread' = [thread EXCEPT !.section = @ + 1,
                                         !.start = @ \/ IsCode(s)]
             /\ pc' = pc \/ (~thread.given /\ pc' = "lost")
  /\ UNCHANGED <<disk, file, reader, header, drive, firmware, failures>>

AllocateStack ==
  /\ \/ pc = "stack"
     \/ pc = "sections" /\ thread.section > Len(This.sections)
  /\ pc' = "start"
  /\ \/ Works /\ Pages /\ thread' = [thread EXCEPT !.stack = TRUE]
     \/ Fails /\ UNCHANGED <<thread, firmware>>
  /\ UNCHANGED <<disk, file, reader, mem, header, drive>>
-----------------------------------------------------------------------------
(* Start(handover, NO): the check runs on the bootloader's stack; it looks *)
(* at the partition and answers.                                           *)
StartCheck ==
  /\ pc = "start" /\ file = "syschk"
  /\ IF ~thread.start
     THEN pc' = "stopped" /\ UNCHANGED <<drive, firmware, thread>>
     ELSE /\ thread' = [thread EXCEPT !.stack = FALSE]
          /\ IF thread.stack THEN Pages ELSE UNCHANGED firmware
          /\ \/ pc' = "fill" /\ drive' = "checked"
             \/ pc' = "check" /\ UNCHANGED drive
  /\ UNCHANGED <<disk, file, reader, mem, header, failures>>

(* When the check fails, the partition is looked at once more, and made    *)
(* when it is not valid; a drive too small for it stops.                   *)
CheckPartition ==
  /\ pc = "check"
  /\ \/ pc' = "fill" /\ drive' \in {"checked", "formatted"}
     \/ pc' = "stopped" /\ UNCHANGED drive
  /\ UNCHANGED <<disk, file, reader, image, header, firmware, failures>>

(* The firmware's tables are taken out of the header, which is marked.     *)
(* (The kernel's image has another base: the memory is looked at anew.)    *)
Fill ==
  /\ pc = "fill"
  /\ header' = [header EXCEPT !.tables = FALSE, !.magic = TRUE]
  /\ file' = "kernel" /\ pc' = "open" /\ mem' = Empty
  /\ UNCHANGED <<disk, reader, thread, drive, firmware, failures>>

(* ExitBootServices turns an old map key down; no one asks.                *)
ExitBootServices ==
  /\ pc = "start" /\ file = "kernel"
  /\ header' = [header EXCEPT !.image = "kernel"]
  /\ firmware' = [firmware EXCEPT !.left = firmware.key]
  /\ pc' = "jump"
  /\ UNCHANGED <<disk, file, reader, image, drive, failures>>

(* Start(handover, YES) jumps, on a stack of the kernel's own.             *)
StartKernel ==
  /\ pc = "jump"
  /\ pc' = IF thread.start THEN "platform" ELSE "stopped"
  /\ UNCHANGED <<disk, file, reader, image, header, drive, firmware, failures>>

(* Code that was not read whole, or lies in memory that was not given, may *)
(* do anything once it is jumped to.                                       *)
RunAstray ==
  /\ \/ pc = "start" /\ file = "syschk"
     \/ pc = "jump"
  /\ thread.start /\ (misread \/ ~thread.given)
  /\ pc' = "lost"
  /\ UNCHANGED <<disk, file, reader, image, header, drive, firmware, failures>>

(* hal_init_platform goes back to nowhere only when magic and version are  *)
(* both wrong; it empties the team and loads the descriptors, from where   *)
(* hal_real_init mounts the drive and lets interrupts in.                  *)
InitPlatform ==
  /\ pc = "platform"
  /\ pc' = IF header.magic THEN "running" ELSE "lost"
  /\ UNCHANGED <<disk, file, reader, image, header, drive, firmware, failures>>

End == pc \in Ends /\ UNCHANGED vars

Reading == AllocateBlob \/ ReadChunk \/ ReadFails
Loading == Load \/ LoadSection \/ AllocateStack
Main == \/ Entry \/ GetMemoryMap \/ AllocateBitMap \/ OpenFile \/ StartCheck
        \/ CheckPartition \/ Fill \/ ExitBootServices \/ StartKernel
        \/ RunAstray \/ InitPlatform

Next == Main \/ Reading \/ Loading \/ End

Spec == Init /\ [][Next]_vars
FairSpec == Spec /\ WF_vars(Main \/ Reading \/ Loading)
-----------------------------------------------------------------------------
Began == pc \in {"platform", "running"}

(* Whatever fails on the way, the kernel starts only from an image that    *)
(* has code, with the header marked, its memory's start in it and the      *)
(* firmware's tables out of it, and after the drive was found good or      *)
(* formatted (EFIBootStartup.cc:211-302).                                  *)
HandoverWhole ==
  Began => /\ disk["kernel"].kind = "pe" /\ thread.start
           /\ header = [bitmap |-> TRUE, magic |-> TRUE, tables |-> FALSE,
                        image |-> "kernel"]
           /\ drive \in {"checked", "formatted"}

(* What the file has of every section is at its place when an image is     *)
(* jumped to, although each was copied over four times its length: the     *)
(* sections behind it came later.  A read that failed and pages that were  *)
(* not given are the only excuses.                                         *)
SectionsWhole ==
  pc = "start" /\ thread.start /\ ~misread /\ thread.given =>
    \A n \in 1 .. Len(This.sections) :
      LET s == This.sections[n]
      IN \A k \in 0 .. (s.raw - 1) : mem[s.va + k] = s.ptr + k

(* What the file has not is never cleared, against BootThread.cc:21: it is *)
(* as the firmware left it, but for what copying its own section or one in *)
(* front of it ran over.                                                   *)
BssAsFound ==
  pc = "start" /\ thread.start =>
    \A n \in 1 .. Len(This.sections) :
      LET s == This.sections[n]
      IN \A c \in (s.va + s.raw) .. (s.va + s.raw + s.bss - 1) :
           mem[c] = None \/ \E m \in 1 .. n : c \in Touched(This.sections[m])

(* Loading writes no memory behind the pages that were given: the four     *)
(* times too many bytes lie in the eight times too many pages.             *)
LoadInside == thread.given => \A c \in DOMAIN mem : mem[c] # None => c \in Granted

(* The reader writes behind its pool only after a read that failed: the    *)
(* count goes ahead of the file's position then (BootFileReader.cc:175).   *)
BlobInside == overrun => misread

(* The image is as the file has it, and nothing else was touched.          *)
ImageWhole == SectionsWhole /\ BssAsFound /\ LoadInside /\ BlobInside

(* A boot comes to an end: the kernel runs, the loader stops or returns,   *)
(* or nobody knows; the loops over pools and reads do not last.            *)
BootEnds == <>(pc \in Ends)

(* The kernel has the machine to itself.                                   *)
KernelAlone == Began => firmware.left
=============================================================================
