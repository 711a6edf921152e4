# TLA+ verification of the OpenNE kernel

OpenNE (`src/dev`) is an operating system: an EFI bootloader, a kernel with a
hardware abstraction layer per processor, and a handful of system libraries.
This directory holds TLA+ models of the bootloader and the kernel, TLC
configurations that check them on small instances, and proofs of the results
that hold for every instance.

The build that is modelled is the AMD64 release one (`-O0`, PIO disks, no
`__OPENNE_VIRTUAL_MEMORY_SUPPORT__`, no `OPENNE_EPM_SUPPORT`); the driver of the
`__AHCI__` build is modelled as well. In a release build `MUST_PASS` is a cast
and drops the answer; `MUST_TRY` returns `NO` when its condition is false. (In a
`__DEBUG__` build `Exit`'s `MUST_PASS(mm_delete_heap(...))` panics on every block
that was freed, as success is 0.) Paths below are relative to `src/dev/Kernel`
unless they start with `Boot/` or `Mod/`.

To run: `tlc -config heap_safe.cfg MCHeap.tla`, `tlapm HeapProofs.tla`.

## 1. Inventory

| Component | State | Operations | Who calls it |
|---|---|---|---|
| Bootloader (`Boot/src/HEL/AMD64/EFIBootStartup.cc`, `BootFileReader.cc`, `BootThread.cc`) | the pool a file is read into, the image's pages, the handover header, the firmware's map key | read, lay out, start the recovery check and the kernel, leave the firmware | the firmware |
| Formatter (`Boot/BootKit/BootKit.h`) | superblock and EPM block on disk | `Format`, `IsPartitionValid` | the bootloader, the recovery check |
| Bitmap allocator, page manager (`src/BitMapMgr.cc`, `src/PageMgr.cc`) | three header words (magic, size, used) in front of each block, nothing else | `FindBitMap`, `FreeBitMap` through `PageMgr::Request`, `Free` | the heap, `Pmm`, `Exit` |
| Kernel heap (`src/Heap.cc`) | a heap information block (HIB) in front of the data | `mm_new_heap`, `mm_delete_heap`, `mm_make_page`, `mm_make_flags`, `mm_protect_heap`, `mm_is_valid_heap` | `new`, `delete`, processes |
| Process team and scheduler (`src/UserProcessScheduler.cc`, `src/HardwareThreadScheduler.cc`, `src/PEFCodeMgr.cc`) | `mProcessList`, `mProcessCount`, each process's status, pid, stack, `PTime`; per hardware thread a stack and a busy flag | `Spawn`, `Remove`, `Exit`, `Crash`, `Wake`, `Run`, `Switch` | system calls, the timer interrupt, fault handlers |
| Process memory (`UserProcess::New`, `Delete`, `Exit`) | the list `ProcessMemoryHeap`, `UsedMemory` | `New`, `Delete`, the freeing in `Exit` | system calls, thread local storage |
| Interrupt and system call handlers (`HALKit/AMD64/HalInterruptAPI.asm`, `HalCoreInterruptHandlerAMD64.cc`, `HalDescriptorLoader.cc`) | `kIsScheduling`, the retry counter, the system call tables | tick, faults, system calls | the processor |
| Semaphores, timers, locks (`src/Semaphore.cc`, `HALKit/AMD64/HalTimerAMD64.cc`, `src/SoftwareTimer.cc`, `KernelKit/LockDelegate.h`) | a copy of the process that holds the lock, a counter | `Lock`, `Unlock`, `LockOrWait`, `Wait` | nobody in the tree yet |
| SMP boot, ACPI, paging (`HALKit/AMD64/HalApplicationProcessor.cc`, `HalACPIFactoryInterface.cc`, `HalPagingMgrAMD64.cc`, `src/Pmm.cc`) | processors found, stack frames per process, page table entries, the address mapped last | `mp_get_cores`, `mp_register_process`, `Find`, `mm_map_page`, page flags | the kernel's start, the scheduler |
| NeFS catalogs (`src/FS/OpenNeFS.cc`) | superblock and catalog entries on disk | `CreateCatalog`, `FindCatalog`, `RemoveCatalog` | the file manager, the installer in `src/KernelMain.cc` |
| Files (`src/FileMgr.cc`, `KernelKit/FileMgr.h`, `src/FS/OpenNeFS+FileMgr.cc`, `FSKit/OpenNeFS.h`, `src/Storage`, `src/FS`) | the mounted file system, streams and their modes, nodes, forks, the journal, the swap file | open, read, write, `CreateFork`, `ReadCatalog`, `WriteCatalog`, `CommitJournal` | nobody mounts a file system yet |
| Drives and disk drivers (`src/DriveMgr.cc`, `HALKit/AMD64/Storage/ATA.cc`, `SATA.cc`, `Boot/src/HEL/AMD64/BootATA.cc`, `HALKit/AMD64/PCI`) | packets, read-only flag, ATA registers, AHCI tables and command slots | detection, `fInput`, `fOutput`, `fInit` | NeFS, the bootloader |
| Executables, libraries, thread local storage (`src/PEFCodeMgr.cc`, `src/IPEFDylibObject.cc`, `src/ThreadLocalStorage.cc`) | a container's blob, the image a library is mounted on | `FindSymbol`, `rtl_create_process`, `Mount`, `tls_new_ptr` | `Spawn`, `Exit` |
| Texts and memory (`src/Utils.cc`, `src/KString.cc`, `KernelKit`), users, IPC packets, file index (`src/User.cc`, `src/Network`, `src/FS/Indexer*`) | two strings' blocks and cursors; otherwise none that outlives a call | pure functions on one object | everywhere |
| Support: checksum, numbers, JSON, containers, `atexit` (`src/Crc32.cc`, `NewKit`, `src/CxxAbi-AMD64.cc`) | lists and counters | pure functions | everywhere |
| Screen, consoles, panic (`Mod/CoreGfx`, `HALKit/AMD64/HalDebugOutput.cc`, `HalKernelPanic.cc`, `Boot/src/BootTextWriter.cc`) | the frame buffer, the transmit flag | drawing, glyphs, text, numbers | boot, panic, debugging |

How they interact. The bootloader formats the disk the kernel mounts, and both
talk to it through drivers of their own. A process's memory comes from the heap,
the heap's from the bitmap allocator; none of the three takes a lock. The timer
interrupt enters `UserProcessScheduler::Run`, which walks the team's list, hands
processes to `UserProcessHelper::Switch`, and this to a `HardwareThread`. System
calls and fault handlers change the same list (`Exit`, `Crash`, `Remove`). File
streams go through the file system's manager to NeFS, NeFS through packets by
value to the function pointers of the mounted `DriveTrait`.

What is hard in it:

- *Interleaving.* There is no kernel lock around the allocators, the process
  list or `kIsScheduling`, and the documents announce SMP and preemption
  (`doc/SPECIFICATION.md:18`). A read and the write that depends on it are two
  steps everywhere.
- *Overlap in memory.* Allocator headers are found by position and recognised by
  a magic number; AHCI scatter lists are longer than their tables; `memset` and
  `rt_set_memory` move four bytes for one; strings end without a terminator.
- *Slots that are reused.* The team's list is indexed by the process *count*.
- *Crash and restart.* NeFS writes entries and counts in separate packets, the
  formatter its two blocks, a driver its packet in words and sectors; the
  installer starts over on every boot.
- *Errors nobody looks at.* The firmware's, the device's, a read-only drive's.
- *Boundaries.* `<=` against `<`, unsigned counters at zero, the 33rd process.

What makes each correct is stated in section 3; `PROJECT.json` lists the
hazards at their lines with the properties that cover them.

## 2. Modules

| Module | Models | Builds on |
|---|---|---|
| `Allocator` | what an allocator promises (abstract) | |
| `BitMap` | bitmap allocator and page manager | |
| `Heap` | kernel heap, byte ranges of its stores | `EXTENDS BitMap` |
| `ProcessTeam` | team, scheduler, process life cycle | |
| `Current` | one process's memory and status, interrupts, a semaphore | |
| `Hardware` | firmware tables, processors, page tables, timers, as operators | |
| `Drive` | what a drive promises (abstract) | |
| `Storage` | both ATA PIO drivers, the drive manager, devices | implements `Drive` |
| `Ahci` | PCI search, AHCI driver, controller | implements `Drive` |
| `NeFS` | catalogs, formatter, installer, power loss | on the promises of `Drive` |
| `Files` | mounts, streams, nodes, forks, journal, swap file | on the names of `NeFS` |
| `Boot` | the bootloader up to the kernel's entry | |
| `Text`, `Strings` | memory and text helpers; `KString` | `Strings` extends `Text` |
| `Peers` | users, IPC packets, file index, as operators | |
| `Support`, `Screen`, `Loader` | checksum to containers; screen and consoles; executables, libraries, thread storage, as operators | |
| `HeapProofs` | theorems about `BitMap` and `Heap` | both, `TLAPS` |
| `CurrentProofs` | theorems about `Current` and `Hardware` | `MCCurrent`, which puts the two together, `TLAPS` |
| `ReadBackProofs` | theorems about `Files`, `Strings` and `Text` | the three, `TLAPS` |
| `ProcessTeamProofs`, `StorageProofs`, `AhciProofs`, `NeFSProofs`, `BootProofs` | theorems | the module, `TLAPS` |
| `MC*` | instances for TLC | the modules |

**BitMap.** An address carries the magic number exactly when it is in `DOMAIN
hdr`; `hdr[a]` holds its size and used words. `FindBitMap` reads or stores one
word per action, in the order of the source: `Request` (arguments and cursor),
`Look` (95, 96), `LookUsed` (98), `LookMagic` (113), `Advance` (127),
`StoreMagic` (115), `StoreSize` (100, 116), `Take` (101, 117). Nothing keeps
another caller, a processor or an interrupt handler, from coming in between any
two. A magic number makes a header of whatever two words follow it
(`Unwritten`), until their own stores. `Free` is one step: it writes one word.
`held`, what callers own, `raced`, the callers whose block somebody else was given
after they looked, and `grown`, the blocks a larger request was given, are in
the model only. The end of memory is not there because `kKernelBitMpSize` is never
compared with the cursor.

**Heap.** Extends BitMap's state with the HIBs and the pointers handed out.
`NewHeap`, `WalkHeap` (a word of FindBitMap) and `Fill` are `mm_new_heap`. All
stores that can hit a neighbour are byte ranges: `Wiped` removes headers whose
magic lies in the range, `Touched` and `Resummed` make checksums stale. Two
quirks of the code are in these ranges: the data starts 2 x 53 bytes into a
block that was asked for with room for 1 x 53, and `rt_set_memory` clears
4-byte units, 64 bytes for 16. `WriteData` is the owner, who stores up to the end
of its block or to the end of the bytes it asked for, 53 further, which is over
the next block's header; `spilt` remembers the blocks whose header went so. A walk
finds no header there and makes one, over a block somebody has. `crc` says whether
fCRC32 is the checksum of the bytes it covers, instead of computing one (`Support`
does).

**ProcessTeam.** `proc[s]` is the slot's status, pid, whether it has code and a
stack, and the time left. A spawn is four steps, with everything that can see them
in between: `SpawnBegin` (the count taken for the slot), `SpawnRead` and
`SpawnStore` (`++mProcessCount` reads and stores; the code pointer), `SpawnEnd`
(stack, pid, status, time). So is an exit: `ExitBegin` (killed or frozen, by the
exit code), `ExitFree` (stack freed, `finished`, pid 0), `ExitRead` and `ExitStore`
(`--mProcessCount`). `lost` adds up what a store of the count has overwritten of
another processor's. `Run` takes two steps per slot: it looks (`RunSlot`, one of
`Pick` and `PassBy`) and, when the process can be scheduled, switches
(`RunSwitch`). A processor runs one of spawn and exit at a time, and a pass of
`Run` on top of either if it is one of `Timed`: only the boot processor loads the
interrupt table. `SpawnRefused` is the caller that mistakes an error code for a
slot. `thread` is the process the hardware thread runs. Callers also use processes
that have ended or are ending (the pid they hold says nothing of that; the source
itself describes a second `Remove`, `UserProcessScheduler.cc:385-388`), at most
`StaleCalls` times: `stale` counts. `Wake` is called by nobody in the tree and
stands for the external caller. Not modelled is the `delete this` that `Exit` ends
with, which `mm_delete_heap` turns down for an element of an array.

**Current.** The process whose program, faults and timer share one processor:
`New`, `Delete`, `Exit`, `Crash`, `Wake` change its blocks (`heap`, `list`,
`used`) and status; `stack` is the handlers that have been entered, each with a
program counter (`CheckRunning`, `KillProcess`, `Spin`, `SetFlag`,
`RunScheduler`, `ClearFlag`, `Call`, `Iret`), so that an exception may come
between any two of their instructions. No stub drops the error code an exception
may push (`HalInterruptAPI.asm:207-220`): `iretq` then takes it for the return
address, and the handler is `astray` and what it interrupted never resumed. `Lock`,
`LockOrWaitBegin` and `LockOrWaitEnd` are the looks at the semaphore
(`Semaphore.cc:30`), `LockStore` the store behind them (`:33`), which copies the
process with the status it has by then, `Unlock` its end; `torn` remembers that
something came between a look and its store, `silent` that the holder is
`LockOrWait`'s first half, whom nobody told. `CurrentProcess` itself is a `Ref` that refers to nothing, and
assigning to it does nothing (`NewKit/Ref.h:40-47`): the model is what the
calls do to the process they are meant for.

**Hardware.** One operator per function, from the table it is given to its
answer and what it leaves: `Find` and `Checksum` of the firmware's tables,
`mp_get_cores`, `mp_register_process`, `mm_map_page` on page numbers, the page
wrappers, the waits; and of the ARM64 port `arm_mm_map_page`,
`arm_mp_register_process` and the interrupt controller (`mp_initialize_gic`), whose
registers are a record. What is looked for and looked through is in the constants
`Signatures`, `Tables`, `Texts`, `Madts`, `Pages` and `Ticks`, which the theorems
leave open. A MADT is bytes: the kernel steps over it in slots of its own struct's
size (`ListAt`, `Stride`, `IdAt`), whatever lengths the firmware's records tell,
and looks for no end of it.

**Drive, Storage, Ahci.** `Drive` is the abstract drive: `Begin`, `Store` (the
packet's structure and no other changes, to anything on the way), `EndWrite`
and `EndRead` (which require the promise unless the device has failed), `Fail`,
`Restart`. `Storage` moves words: `Command`, then `Take` or `Put` per word with
the device (`Answer`, `Fault`) in between, for the bootloader (`Check`,
`Format`) and the kernel (`Detect`, `Call`) one after the other, with the search
for a device (`Probe`) before each; `PowerLoss` starts over. A kernel that found
no device on either bus goes on all the same (`DriveMgr.cc:77-80`, `:156-165`)
and asks the last one for the EPM block: its wait is `Spin`, a step that changes
nothing, for ever. The bootloader counts sectors in units of the structure, the
kernel in 512 bytes (`Unit`). `Ahci` finds the controller
(`Probe`, `Select`), chooses a port (`ChoosePort`), stops, lays out and starts it,
builds a command table
in a memory of 16-byte cells where a scatter list can run on into its
neighbours (`Build`), issues and waits; the controller follows at its own pace
(`Follow`), moves sectors, fails or drops commands. `iterator[]` answers a
reference to a copy that is gone (`NewKit/Ref.h:35-38`), so that what the driver
reads of a bus is the iterator's entry *or anything* (`sound` says which); and
`EnableMmio` and `BecomeBusMaster` write 1 to BAR5 (`Device.cc:107-117`), which
leaves off what the firmware had not switched on (`firmware`) and moves the
registers to the start of their 64 KiB, where another device may stand
(`neighbour`). The last entry of a list is counted and never written (`Held`
takes it as it was left).

**NeFS.** `cat` is the chain of catalog slots, `super` the superblock, `epm`
whether block 0 is an EPM block, `op` the call under way and the disk write it
does next. Everything a call reads before its next write is one step with it:
nothing calls the file system from two places. `Crash` drops the call and boots
again: `FormatSuper`, `FormatEpm` or `Healthy`, then `Mount` (read-only without
EPM block), then `InstallNext` until the list is done, then a user's
`UserCreate` and `RemoveCatalog`. To cut the parent out of the root's name (or out of
a file's of one letter in the root) the index runs below zero
(`OpenNeFS.cc:286-298`): with a separator in the stack in front of the array
`CreateCatalog` goes on, without one the kernel is lost (`Stray`, `Lost`).
Removing a name that does not exist goes on with a null pointer; the outcome that
writes block 0 is the one modelled.

**Files.** A catalog is known by its path, as `NeFS` shows that a name leads to
one entry. `stream[s]` has the mode and the node, a *copy* of the catalog as it
was when the stream was opened: reads follow the copy (`ReadCatalog`), writes
look the catalog up again (`WriteCatalog`). What a read answers is the block that
`OpenNeFS.cc:953-989` read from the fork's *address*, the fork itself: no call
reads what lies at its `DataOffset`, so that nothing written ever comes back. The
model says which fork is answered, and `data` what lies behind it. Forks are chains of addresses that
count down; the disk may come with forks, as `CreateFork` refuses to make any.
`written` remembers what was written last and is in the model only.

**Boot.** `pc` follows `Main`; every call of the firmware is a disjunction of
`Works` and `Fails`. Memory is counted in cells, so that copying four words for
four bytes (`Touched`) and asking for eight times too many pages (`Granted`)
are ranges. `blob` and `mem` hold the place in the file each cell came from; a
section's `bss` is what it has in memory only, which the loader does not touch.
`thread.given` says whether the image's pages were given, which nobody asks
(`BootThread.cc:90`): a refused image is laid out over whatever is there. Code that
was not read whole, or lies in memory that was not given, may do anything when it
is jumped to (`RunAstray`). Calls through a pointer nobody set end in `lost`.

**Text, Strings, Peers, Support, Screen, Loader.** Functions as operators from
what they read to their answer and what they leave; the loops as recursive
functions or folds. Memory is a function from addresses to characters, where
an access past the end is answered apart. `Strings` is a state machine: two
strings' blocks side by side in that memory, both `+=` and both constructors. An
allocator hands the blocks out (`HandedOut`): they do not overlap, and hold
anything. `touched` and `mixed` are in the model only: the strings a neighbour's
clearing reached or an append left with a wrong cursor, and those into which
characters of another string came, by an append that ran past its block or out of a
source without terminator. `rt_to_string` multiplies its power of ten as an `int`
(`Utils.cc:169`), which wraps (`ToInt`). `Format` and `FromBool` answer a block of
their own frame (`KString.cc:103`, `:162`): what they write to it while they run is
modelled, what a caller finds there is not.
In `Loader` a read answers nothing or what stands in a block, an access through
a null or unset pointer is `Wild`.

## 3. Runs

Bounds are named constants or marked `bound of the model` where they are
defined. Eleven runs pass; `boot_exit` finds a violation.

| Run | Question | Instance and why it is enough |
|---|---|---|
| `bitmap_one` | With one caller inside, do the blocks tile the pool up to the first one that grew, do headers stay and only grow, does every request return, and is every block handed out once (`Allocator`)? | sizes 1 and 3: a smaller and a larger block than the one looked for; 3 blocks, so that a free one has neighbours on both sides; memory that holds a size of 0 marked used, or a size of 2 marked free, where a header will be |
| `bitmap_race` | When is a block given twice? | 2 callers (a race needs two), each word a step of its own, sizes 1 and 3, so that one regrows a block under the other; the same leftovers |
| `heap_safe` | What is left of the heap's order when owners store all the bytes they asked for? | the real layout constants (53, 37, 64); block size 160, above 154 = 37 + 53 + 64 so that clearing the padding stays inside; 3 blocks: one with a neighbour on either side |
| `team_safe` | Is what the scheduler picks whole, which live processes may be missing from the count, and is a runnable one put on the thread? | 2 processors, one of them with a timer, 2 slots and 3 spawns: two spawns, two exits, or one of each, word by word over one count, interleaved with a pass of `Run`; one use of an ended process; `Wrap` 2 stands for the counter's 2^32, so that it wraps |
| `nefs_safe` | With power lost twice anywhere: do names stay unique and lead somewhere, is the free count right up to the losses, are promises kept, what keeps the installer from its end? | root, whose name has no parent, two folders of the installer, a user's directory and a file whose directory may be missing; two losses, so that a recovery is itself interrupted |
| `storage_safe` | Do both ATA drivers implement `Drive`, do they find the same device, is an unformatted medium left alone, is a healthy partition never formatted, do transfers end? | sectors of 4 bytes for 512; an EPM block of 3 (496), a superblock of 4 (512, so one sector too many is asked for) and a catalog of 5 (514, which starts inside a sector); two devices, one, or none; one device error and one loss of power, anywhere in a transfer |
| `ahci_safe` | Is the controller found, are the tables of a command at work intact, does this driver implement `Drive` too, do its transfers end? | 8 machines: the disk on either port, on either bus, none, a lookalike on an earlier bus, a second storage controller, one that the firmware left switched off, one it did not make bus master, one with a neighbour where its registers move; ports left running by the firmware or not; command tables with room for 1 entry and lists of 3, 4 and 6, so that a list reaches the next table; one caller, one failed or dropped command, one loss of power |
| `boot_safe` | Is what the kernel is handed whole, does an image land where its sections say, does the boot end? | absent images, unknown ones with and without bytes, one of another processor, and good ones whose sections are stamped or not, come in another order in the file, lie next to each other, or are .bss that a copy reaches and that none does; two failures of the firmware, so that the answer to one is itself disturbed |
| `boot_exit` | Has the firmware been left when the kernel runs? **Violated**: the map key is read first (`EFIBootStartup.cc:172`), every allocation after it makes it stale, and the refusal (`:296`) is not noticed. | same |
| `current_safe` | Are a process's blocks accounted for, do interrupts keep their order, does a tick end, when does the semaphore exclude, and what is made of the hardware's tables? | 2 blocks, which another user of the heap takes and gives back; vectors of a breakpoint, a page fault (with its error code), the timer and a system call; two handlers deep, two interrupts in all, so that a handler is itself interrupted; 2 callers, each between its look and its store while the other, or the process's end, comes in; tables and texts of up to three entries, and MADTs of real records (8 and 12 bytes) read in slots of 24, looked at in the initial states (`TablesRead`) |
| `files_safe` | Is a reader answered the fork that was last written to, through copies of a catalog taken before, and does only a writer write? | the journal's file and the swap file; two streams, so that one writes under the other's copy; four disks: without forks, with one for each file, with a chain of two behind the other file's, with a fork of the wrong size; three addresses; modes `rb`, `rw` and `w` |
| `library_safe` | Do the helpers answer what they are for, and what do two strings side by side hold? | memory of 7 characters out of three (zero, the format sign, a letter), all contents; blocks of 2 and 5, so that one begins where the other ends and one may be created over the other's clearing; texts up to 4 to 6 characters; a screen of 5 x 3 with one spare pixel per line; 9 as the largest 64-bit number, reached by overflow; an `int` of 2048 values under a `long` of 2^20, so that the power of ten wraps at 10000; see `MCLibrary` |

The properties that take the most to break:

- `Implements` of `storage_safe` and `ahci_safe`: both drivers round sizes and
  counts in their own wrong way (the bootloader divides by the structure's size,
  the kernel adds a whole sector before it divides, AHCI takes bytes for
  sectors), and each ends up writing exactly what it reads back and no other
  structure. An error or power lost in the middle tears that structure only.
- `OnlyEpmWritten`: a kernel whose read of block 0 failed half way could take
  the rest for a magic number; the words that failed read as something else. The
  theorem `EpmGuarded` says this for every layout.
- `HealthyNotFormatted`: a failed read looks like an unformatted disk, and it is
  formatted. It holds against *one* error because the recovery check reads the
  superblock before the bootloader does and both must fail.
- `HandoverWhole`, `ImageWhole`: four times too many bytes are copied into eight
  times too many pages; sections stand because later ones come later, unless a read
  failed or the pages were refused. `BssAsFound` is the part of `ImageWhole` that
  says what becomes of .bss: it is what the firmware left or a copy ran over.
- `RunnableIsWhole`: `Switch` finds a process by its pid a second time, so a slot
  whose pid is another's would be started with the other's stack. As long as nobody
  uses an ended process, it holds in spite of the overwriting spawn because `SpawnEnd` makes a slot startable only
  after pid and stack are written.
- `TwiceOnlyInARace`: two callers do get one block; what holds of any number of them
  is that the second one *looked* before the first one's used word was stored. Who
  comes later never claims a block in use, whatever garbage a half-made header has
  for its size.
- `TilesInFront`: `size <= request` regrows a free block over what follows it. All the
  damage is behind the first block that grew; in front of it none is lost.
- `PointersAndBlocks`, `PointersFresh`: an ordinary store within the size asked for
  destroys the neighbour's header and its block is handed out again. Nothing worse
  happens: every pointer keeps its information block (so that it can be deleted), no
  block leaks, and a pointer is returned twice only after such a store.
- `LiveCounted`: the live processes missing from the count are never more than lost
  updates and uses of ended processes explain, although a slot is counted long
  before it is live and uncounted long after.
- `ChecksumLocal`: the sum runs over 106 bytes of the next block, and only that
  block's operations can make it stale.
- `NamesLead`: the scan for room starts at the parent, so names created before
  their directory lie in front of it; that the first entry of a name is always
  met relies on slots never becoming free again.
- `TickEnds`: a tick comes to its end whatever traps interrupt it, *unless* a page
  fault does, whose stub leaves the error code on the stack.
- `ProcessKept`: lost and dangling entries in the list of blocks never free
  what another owns, unless the process deleted it before and it was handed
  out again; a killed process keeps its blocks for ever. The semaphore has one holder
  as long as nothing comes between a look and its store, and is taken with nobody to
  unlock it only by `LockOrWait`.
- `ForkOfWritersIsRead` (in `FilesKept`): reads go through the catalog as it was
  when the stream was opened, writes through the catalog of the moment.
- `StringsHoldTheirText`: appends run past their block, sources without terminator
  are read on into the next block, and a new string clears words for bytes. All three
  are in the run. A string that no character of another came into still reads as a
  prefix of what was said to it, cut short only by a clearing or a wrong cursor.

**Fairness.** `bitmap_one`: a caller inside FindBitMap goes on (a loop of the
kernel). `team_safe`: each processor's timer interrupt comes and its pass of
`Run` goes on, as the APIC timer is periodic and the handler has no other exit;
nobody has to spawn, wake or exit. `nefs_safe`: a boot and a call once begun run
on; nobody has to create or remove, and power need not fail; `Installed` names the two
other ends a machine may come to, the kernel that is lost over the root's parent
and the drive whose block 0 is not whole under a superblock that is.
`storage_safe`, `ahci_safe`: the driver's loops go on, and a device answers what
it has not failed; `TransfersEnd` names the packets that are waited for for ever. `boot_safe`: the loader's own steps; how often the firmware
fails is bounded. `current_safe`: handlers run on (straight-line code), faults
are bounded.

**Deadlock** is checked in every run but `library_safe`, whose strings end in a
state in which the modelled memory has no room for another append.

## 4. Proofs

All proofs are checked by TLAPS for every value of the constants that satisfies
the modules' named assumptions: sizes, slots, quantum and sectors are positive,
the quantum fits in its counter (`BitMapAssumption`, `HeapAssumption`,
`TeamAssumption`, `CurrentAssumption`, `StorageAssumption`, `AhciAssumption`,
`FilesAssumption`); names and images are what they are called (`NeFSAssumption`,
`BootAssumption`); characters are bytes, zero is one of them, and a text to append
has none inside (`TextAssumption`, `StringsAssumption`); the structures other than the
EPM block lie behind it and what stands for nothing is no word and no packet
(`PlacesAssumption`, `PacketsAssumption`); an image was made by a linker, so that its
sections lie inside it and do not overlap (`ImagesAssumption`); the forks that come
with a disk are linked towards lower addresses, and no two have the name and the
file in common (`DisksAssumption`); what a table of processors is made of are bytes,
and nobody asks for page 0 (`HardwareAssumption`); numbers have some width
(`WidthsAssumption`).

Some theorems have a hypothesis in their statement, which each time is the
state the code is sound in:

- `OneCaller` (BitMap), `Alone` (Ahci): one caller inside at a time. With two, a
  block or a slot is taken twice (section 6). `NoBlockTwice` needs neither: it says of
  any number of callers what such a race takes.
- `Uniform(s)` (Heap): one caller, and requests of one size s in which both headers
  and what is cleared fit (154 bytes with the code's structures). Owners may store
  every byte they asked for. With smaller blocks the clearing of fPadding reaches the
  neighbour's header, with several sizes blocks overlap behind the first one that
  grew, as section 6 says.
- `OneProcessor`, `StaleCalls = 0` (`PickedWhole`): with two processors, what was
  picked may be ended before the switch.
- `LaidOut` (Storage): what a command asks for is on the medium, a structure takes
  half a sector or more, the superblock a sector, the EPM block at most one, and
  no structure lies where another's words are. The code has them at 0 (496
  bytes), 1024 (512) and, 514 bytes each, from 2560 on in steps of 2056 or more.
- `LaidOut` (Ahci): a list holds the structure it is for, and no two structures are
  in the sectors one command moves. The driver takes bytes for sectors, so that
  the steps of 2056 are 2056 sectors, of which a command's list moves some 17.

The instances that `bitmap_one`, `heap_safe`, `storage_safe` and `ahci_safe` check
satisfy these hypotheses, so that runs and theorems are about the same states.

Loops are recursive functions in the models, and a recursive function is only as
good as the proof that there is one. `IterationsExist` (any value stepped n times has
the list of its values), `ChainsExist`, `CopiesExist` and `WalkExists` are such proofs.
Each, like what a loop computes, is by the least counterexample: the set of turns at
which the claim fails has a least element (`LeastOne`, from `WellFoundedInduction`),
which is not 0, and the turn before it makes it hold. That takes the place of the
library's induction rule, which has an operator for its parameter.

| Theorem | Says | Invariant |
|---|---|---|
| `HeapProofs!TypeCorrect` | the allocator's state is typed | `TypeOK` is inductive |
| `HeapProofs!NoBlockTwice` | `TwiceOnlyInARace`, for any number of callers: a block in use is claimed only by a caller that looked before the other's claim was complete | `Exclusion`: with it, that a held block has its header, marked used (`HeldUsed`), and that a caller past its look has a header under its cursor (`OnHeader`). The property alone is not inductive: that a later caller is turned away follows from the used word. |
| `HeapProofs!ImplementsAllocator` | with one caller inside, `Spec` implements `Allocator!Spec`, with `held` for its blocks and the callers inside FindBitMap for those asking | each step is an abstract step or a stutter, by `Exclusion` and `Unraced` (nobody races a caller that is alone); `Request` asks, `Take` answers, and a block already held would be neither a step nor a stutter |
| `HeapProofs!BlocksTile` | with one caller, `TilesInFront`, whatever the sizes and whatever the pool held before | `Tiled`: the property, and that each cursor stands where a block ends (`Reached`), or behind a grown one. Where a walk meets no header in front of all grown ones there is none behind either (`NothingBehind`), so that a new header reaches into nothing; that is by the least header further on |
| `HeapProofs!HeadersOnlyGrow` | with one caller, `HeadersGrow`: a header stays at its address and, once complete, never shrinks | `Claims`: whoever is about to store a size passed line 96 on that header, or made it |
| `HeapProofs!HeapTypeCorrect`, `PointersBackedBlocksOwned`, `PointersAreFresh`, `ChecksumsLocal` | `Uniform(s)` implies `HeapTypeOK`, `PointersAndBlocks`, `PointersFresh` and `ChecksumLocal`, with owners that store over their neighbour's header: every pointer keeps its information block, no block leaks, one is returned twice only where its header was destroyed, and a checksum goes stale by its owner or the block right behind only | `HeapInv(s)`: headers and cursors are on a grid of step s (`Grid`), information blocks in blocks (`HibsInBlocks`), the header of a pointer's block stands unless it was spilt on (`PointersHeld`), no call is at work on a pointer's block unless it was (`CallsInOrder`), and `BlocksOwned`. Stores are byte ranges; `BlocksApart` (multiples of s differ by s) says how far they reach |
| `ProcessTeamProofs!TypeCorrect` | the team's state is typed | `TypeOK` |
| `ProcessTeamProofs!RunnableWhole` | what the scheduler may pick has its slot's pid and a stack, until somebody uses a process that had ended | `LiveIsWhole`: every *live* process has, not only a runnable one, as `Wake` makes the one into the other |
| `ProcessTeamProofs!PickedWhole` | with one processor, a process is still whole when `Run` switches to it, unless callers use ended processes | `PickedHeld` with `LiveIsWhole`: what was looked at was live, so whole, and the one processor takes no step outside its pass of Run until the switch |
| `ProcessTeamProofs!LiveAreCounted` | `LiveCounted`: the count is below the live processes by at most what stores have overwritten (`lost`) and the uses of ended processes (`stale`), for any number of processors | `Covered`: processes kept, spawns that have counted and not filled their slot, and exits that have not counted yet, are together at most `count + lost + stale`. Live ones alone are not enough, as a slot is counted long before it is live and uncounted long after. `UseIsCovered` maps the slots being ended onto the processors that end them (a surjection), for which `ExitsKnown` has each such processor end one |
| `CurrentProofs!HoldersExclude` | `SemaphoreExcludes`: no two callers are told they have the semaphore, unless something came between a look (`Semaphore.cc:30`) and its store (`:33`) | `SemaphoreInv`: whoever was told is the only one *and* the semaphore is taken; every look that passed saw it free, so that a store on which nothing came in finds nobody |
| `CurrentProofs!TickIsAlone` | one tick at most is on the stack, everything that runs inside another handler is an exception, and the flag is up only inside a tick that is past raising it, whichever handlers return into their error code | `InterruptInv`: the same with program counters: only a tick gets to the instructions around the flag, and only an exception comes in while handlers mask interrupts; "at most one tick" follows, as the outermost handler is the only one that need not be an exception |
| `CurrentProofs!ProcessIsKept` | `ProcessKept`: types, blocks, semaphore and the order of interrupts, together | `MemoryInv` (the list's two entries against the blocks that have data, and `used` against their number), `EndedInv` (what an exit in the middle has freed, and that a killed process never gets there), with the two above |
| `CurrentProofs!TablesAreRead` | `TablesRead`: what `Hardware`'s functions answer and leave, for tables, texts, lists, pages and waits of any length and number: the first table of a signature is found; of two tables of one length that differ in one byte at most one passes the checksum; the processors started are the bytes at a number's place in the first slots of one size, whatever records they belong to, and never more than one too many; contexts of processes stay apart; a mapping sets its own entry and leaves the others; a page is reclaimed once; no ARM page is ever mapped and interrupt 32 never signalled | none: `HardwareAgrees` is about operators; a sum or a walk is taken turn by turn (`SumsExist`, `WalkExists`), and one byte changed always shows (`OneByteShows`) |
| `StorageProofs!EpmGuarded` | `OnlyEpmWritten`: the kernel changes a medium only where its first read found an EPM block that is still there | `IInv`: while the kernel reads block 0, each word it has is the medium's or nothing (`Reading`, for which the device's position and the driver's index must agree); once it has looked, the drive is read-only or the block is there (`Looked`); and a write stays at or behind its structure's first sector (`Writing`), because a sector that has become full is made of exactly the words since its start (`SectorFull`, arithmetic on quotients) |
| `StorageProofs!DriversInStep` | `LaidOut` implies `InStep` | `SInv`: `IInv`, with the index of the driver and the device's position and rest adding up to what was asked (`InStepWords`), no position beyond the medium and a device that is absent or in error at rest (`DevicesSound`), and a bus where one is needed (`BusAndPacket`). `CountFits` ((n + S) / S sectors of S / 2 words are at most n words) is why the kernel's device is through before the driver is, and `LastOfSector` why a word's place in its structure is never negative |
| `StorageProofs!StorageImplementsDrive` | `LaidOut` implies `Implements`: bootloader and kernel together are one drive | `RInv`: `SInv` with `Transferred`: unless a device failed, of a write all sectors that are complete are on the medium, and of a read the words so far are in the buffer. A `Put` that fills a sector is `Store`, the end of a packet `EndWrite` or `EndRead`; the search for a device and the handover are `Restart`, since without an error the two find the same device; all else is a stutter |
| `StorageProofs!OneErrorIsSurvived` | `LaidOut` and at most one error in a start imply `HealthyNotFormatted` | `RInv` with `SecondLook`: when the first read of a healthy superblock was wrong, the errors are used up, and the second read follows the medium as if nothing had failed |
| `AhciProofs!DriveIsFound` | `FindsDrive`: a machine whose one storage controller is AHCI with a disk ends neither without it nor lost, for any buses, functions and ports, under three premises that the code does not secure: the driver reads what the iterator found (`sound`), the firmware left the controller on, and nothing stands where its registers move | `DevicesFound`: what the iterator kept of a bus is the last device on it |
| `AhciProofs!CommandsIntact` | with one caller, `TablesIntact` | `IInv`: at most one slot is issued and it is the caller's; its table, counted through `FisCell` and `PrdCell`, is what was written for it (`TablesHold`), because nobody builds while it is at work (`CallsInOrder`) and the tables are laid out while the device rests (`LaidOutInPeace`) |
| `AhciProofs!AhciImplementsDrive` | with one caller and `LaidOut`, `Implements` | `IInv` with `InTransfer`: unless the device failed, of the sectors of the command at work those moved so far are on the medium or in the caller's buffer |
| `NeFSProofs!TypeCorrect`, `NamesLeadToEntries`, `FreeIsAlmostExact`, `PromisesKept` | `TypeOK`, `NamesLead`, `FreeAlmostExact` and `PromiseKept`, for any names, tree and number of power losses | `IInv`: the live entries are a prefix of the chain, each linked to the next (`Linked`), from which a walk meets them all; what a call under way is about to write was read before and is still so (`Pending`), a kernel lost over the root writing nothing more (`StrayStep`); a drive without a superblock is blank and nothing was promised on it (`BlankOrValid`); and how far `FreeCatalog` may be ahead at each step (`CountsFit`) |
| `BootProofs!BootTypeCorrect`, `HandoverIsWhole`, `ImageIsWhole` | `TypeOK`, `HandoverWhole` and `ImageWhole`, for any images and number of calls that fail | `IInv`: what each step before has left in the header (`HeaderSoFar`), that a thread was made of the file at hand (`ThreadOfFile`), that the reader's count, its place in the file and the blob agree until a read fails (`ReaderInStep`), that the sections laid out so far are whole where pages were given (`SectionsSoFar`), which the next one does not undo as they do not overlap (`WellLinked`), and that a cell anything was written to was reached by one of them (`TouchedSoFar`), which is what .bss and the pages' end need |
| `ReadBackProofs!FilesAreKept`, `OnlyWritersDo` | `FilesKept` and `OnlyWritersWrite`, for any disk, paths, streams and forks: the fork a reader is *answered* is the one behind which lies what was written last. That the data comes back is not said, as no call reads it | `IInv`: a stream's node is the catalog its path has now, though it is a copy (`StreamsAgree`, as a catalog once created stays as it is), no two forks have a name and a file in common (`DiskTidy`), and what was written stands behind the first fork of that name on the file's chain (`WrittenStands`), which is the one a read meets. `ModeIsListed`: of the modes there are, none both reads and writes |
| `ReadBackProofs!StringsHold` | `StringsHoldTheirText`, for any memory, blocks, sizes and texts, whatever runs past its block | `StringsInv`: blocks do not overlap (`Blocks`), and in each that no character of another string came into (`mixed`) stand the first j characters of what was appended, for some j, then a zero, and nothing but zeros from the cursor on (`HoldsTo`), with j all of them unless the string was touched (`Whole`). The property alone is not inductive: what stands *behind* the text decides what the next append makes of it |
| `ReadBackProofs!MemoryHelpers` | `CopiesAgree`, `LengthsAgree` and `SearchesAgree`, for every memory: three of the parts of `AgreesWithReference` | none; per loop, what it has done after n turns (`Repeats` for a copy onto what lies ahead, `Moved` for a move), and that a place the search stops at has the needle inside the text (`HitIsPlace`), though its comparison never looks for the end |
| `ReadBackProofs!AddressHelpers` | `AddressesAgree`, for addresses of any length | none; `CountIsOf`: after n characters the counter is four exactly when four in a row had no dot |

Only model-checked: the liveness properties (`RequestReturns`, `RunnableScheduled`,
`Installed`, `TransfersEnd`, `BootEnds`, `TickEnds`), as the prover treats neither
fairness nor ENABLED; and of `AgreesWithReference` the formats, numbers and letters
of `Text` (a number's digits are turned by a quotient per turn, a proof about powers of ten
that is not written) and the operators of `Support`, `Screen`, `Loader` and
`Peers`, many of whose loops are folds of the community modules: a lemma about folds
takes an operator for its parameter, which none of the provers can instantiate.

## 5. Not modelled

- The kernel's own `NeFileSystemParser::Format`: its body is compiled only with
  `OPENNE_EPM_SUPPORT` (`OpenNeFS.cc:450`), which no build defines; it answers
  false.
- `Seek`, `Tell`, `Rewind` (not implemented), `WriteCatalogList` and `DMAWrapper`
  (never called), `LockDelegate` (not instantiated).
- Register writes with no state the kernel reads back: INIT and SIPI, power off
  and reboot, the GDT and IDT loads. A second processor only loops, as it never
  loads an IDT.
- The processor's own walk of the page tables; the build has no virtual memory.
- An AHCI read of 496 bytes that asks for 512 sectors and is spread over 30
  chunks: `TablesIntact` covers where the list goes, not the data.
- Of the ARM64 port all but its page store, stack frames and interrupt
  controller; the POWER, RISC-V, AXP and X86S ports, user libraries and tools, device
  templates: see `PROJECT.json`.

## 6. Facts met while reading

What the code does that has the same answer in every state, or needs a caller
the code does not have. Where a module depends on one, it models it.

**Allocators.** `mm_is_valid_heap` compares the HIB's address with the data's and
says No for every live pointer (`Heap.cc:257-270`). `kKernelBitMpSize` is never
compared with the cursor (`BitMapMgr.cc:89`). `size <= request` (`:96`) regrows a
smaller free block over the next one: with two sizes blocks overlap. Two callers
that pass line 98, or 113, before either has stored its claim get one block; between
115 and 116 a new header has whatever size was in memory. When callers use
all the bytes they asked for, the neighbour's header goes (`Heap.cc:139`) and a
pointer is returned twice; in a block below 154 bytes the clearing of fPadding
(`:146`) does it without them. `Pmm::RequestPage` always fails, `ToggleUser` writes
`fRw`, `mm_map_page` takes its index from the last nine bits.

**Processes.** The limit test in `Spawn` is `>`, so that 33 processes are accepted
in a list of 32 (`UserProcessScheduler.cc:287`). The count is the next slot, so
that after the exit of a lower slot a live process is overwritten. A refused
spawn's error code passes for a slot (`PEFCodeMgr.cc:258`). Removing a process
twice takes the count below the live ones (`:398`), and so does an update that two
processors' `++` and `--` (`:292`, `:272`) lose; below 1, `Run` does nothing. A
process that had ended and is woken while its slot is spawned into is runnable
without a stack. Another processor may end a
process between `CanBeScheduled` (`:442`) and `Switch` (`:452`), which then gets a
freed stack. `Switch` tells a thread it is not busy and then asks it
(`:551-554`). `PTime` is unsigned and decremented at zero (`:461`). After a third
`New` the blocks in between are lost (`:138`), and `Delete` leaves its entry in
the list and answers No when it freed the block (`UserProcessScheduler.inl:35`).
`CurrentProcess` is an empty `Ref`. A killed process is never freed: the fault
handlers set `kKilled` first, and `Crash` returns at once unless the process
runs (`HalCoreInterruptHandlerAMD64.cc:33-35`, `UserProcessScheduler.cc:57`).

**Interrupts.** Vector 3 has the generic handler; those for math, undefined
instructions and breakpoints have no vector; vector 0 does nothing. Error codes
are not dropped before `iret` (`HalInterruptAPI.asm:207-220`), so that no page fault is
returned from: a tick that takes one never lowers `kIsScheduling`. `std` precedes
`iret`. `hal_clear_irq_mask(32)`
clears no bit and the PIT's line is never unmasked. `mp_register_process` always
starts `kAPICLocales[0]`, waits for IPIs without a limit, and writes past
`kAPICLocales` at its limit. `mp_get_cores` steps over a MADT in
slots of 24 bytes, though its records are of 8, 12 and other lengths
(`HalApplicationProcessor.cc:231-264`). `LockOrWait` tells the one who won No, and
nobody can unlock his semaphore; `Lock` looks and stores apart
(`Semaphore.cc:30`, `:33`), so that two may both have it. A semaphore
has a copy of the process, so that a killed holder keeps it. The hardware timer
compares a counter with ticks (`HalTimerAMD64.cc:82`), the software timer never
ends (`SoftwareTimer.cc:33`).

**Boot.** A pool of 4 GiB has size 0 in `AllocatePool`'s 32 bits. The memory map's
buffer is one descriptor long and its stride 40. A missing file is asked for its
size through a null `mFile` (`EFIBootStartup.cc:196`), and the recovery check's
null thread is started. `.bss` is not zeroed, though `BootThread.cc:21` says that it is. Whether the pages were given is not
asked (`BootThread.cc:90`).
The vendor's name goes without a limit into 32 wide characters. Pages are
counted in 512 bytes, allocated in 4096; `memset` and `memcpy` move words.
`hal_init_platform` turns a handover down only if magic *and* version are wrong.

**Disks.** Packets go to the drive by value, so `fPacketGood` never comes back and
`fs_ifs_read` and `fs_ifs_write` answer 0 (`DriveMgr+IO.cc:37`, `:72`). ATA PIO asks
for `(Size + 512) / 512` sectors and moves `Size` words of two bytes
(`ATA.cc:118-134`): of a transfer above 512 bytes the end is lost; a catalog has
514, whose last two are the zero top of `PrevSibling`. `kATAData` is a `Char`.
`ATADeviceInterface` compares `ATA-` with its terminator and never forwards.
With no device on either bus the EPM block is asked for all the same and waited for
for ever (`DriveMgr.cc:77-80`, `:156-165`).
AHCI: `EnableMmio` and `BecomeBusMaster` write the bool 1 into BAR5's low half;
`iterator[]` answers a reference to a copy that is gone (`NewKit/Ref.h:35-38`), and the
entry of a bus without a controller was never written;
a byte address goes for a sector number (`DriveMgr.cc:33`) and 512 for the number
of sectors (`SATA.cc:270-280`); the last entry of a list is counted and never written
(`:242`, `:248`), and is what a longer list left there; the
geometry is read as bytes; `drv_std_init`'s answer is ignored; without a free
slot a call returns as if done; two callers may take the same slot (the model
has one); the error bit asked for is port 30's; `DeviceId` and `VendorId` are
swapped; when the first controller has no disk, the next is not asked.

**Files.** `FindCatalog`'s local search (`OpenNeFS.cc:732-777`) is never asked for. Nobody
mounts a file system, and `FileStream`'s constructor uses the
null one. `Mount` replaces what is mounted; `NeFileSystemMgr`'s constructor fills
a local `mParser`. `CreateFork` turns every catalog down (`OpenNeFS.cc:74`), `ReadCatalog` answers a fork and never its data
(`:953-989`), `CreateCatalog` of the root lets an index run below zero (`:286-298`),
`CreateCatalog` returns the blank entry it overwrote (`:420`), `FindFork` reads
into null and tests the answer the wrong way round, `WriteCatalog` never ends on
a chain that goes round. `Write` always answers success, on a read-only drive
too. A read by name passes size 0 and gives null; a read at an offset has flags
103 & 104, not 0, and so takes the resource fork, at the same address. The modes
`rw` and `rwb`, which the list declares read-write (`FileMgr.h:358-367`), are
read-only, as `r` stands in front of them (`:373`); `ReadWrite` cannot be reached. A removed catalog is
found as before (`:887`: 70 passes `& 71`). The swap file says YES for a page
kind it wrote nothing of. Power lost between `Format`'s two writes leaves a drive
on which created catalogs are reported and not written.

**Loader and libraries.** A container is read at address 0 when the read gives
null; the constructor for a blob leaves `fFile` and `fFatBinary` unset;
`FindSymbol` looks at the first header only, whatever `Count` says, as its loop never
moves the pointer (`PEFCodeMgr.cc:166`), writes a symbol's text past its
block, and leaves names above 20 characters without end; the fat magic is
compared reversed with its terminator, so that `yoJ!` is never recognised.
`rtl_init_dylib` never succeeds and loses its traits; `rtl_fini_dylib` of null goes
on and says true; mounting an image again frees the one in use;
`rtl_create_process` shares the loader's blob, which the loader's destructor
frees. Thread local storage goes through the empty `CurrentProcess`.

**Support.** `ke_calculate_crc32` indexes before its table with characters above
127 (`Crc32.cc:78`). `MutableArray` keeps its first value only; `Array::Empty` is
inverted; `OwnPtr`'s `fCls` is not initialised; a `Ref`'s destructor frees nothing.
`guard_acquire` answers 0, so that function statics are never constructed. All
hardware threads share `busy_timer`. `rt_set_memory` counts words. `KString`:
`Construct` leaves no room for the terminator, a string appended to itself or after
a neighbour that fills its block up to it has a wrong cursor
(`KString.cc:213`; the second showed when `StringsInv` was proved), a right-hand side
that fills its block is read into the neighbour, `!=` is not the negation of `==`,
`FromBool` takes four bytes for `Yes`; `Format` and `FromBool` answer a block of their
own frame, dead when they return (`:103`, `:162`). `rt_to_string`'s power of ten is an
`int` (`Utils.cc:169`), so that from 10^10 on another number is written.
`rt_string_len` with a limit skips the first character, `rt_string_has_char` runs
past an empty text, the wide `Equals` is a prefix test. IP's `operator[]` is off by
one. `User::Save` and `Matches` always say No (`User.cc:97`); a packet fresh from
`ipc_construct_packet` never passes `ipc_sanitize_packet` (`IPCMsg.cc:43`);
`RTL_ENDIAN` is always big; `fs_index_file` swaps its arguments; `RemoveFlag` is
`&= flag`.

**Screen and consoles.** `fb_clear_video` is meant to clear the screen and hands width
and height over swapped (`FBMgr.h:144`), so that it writes past the frame buffer of a
screen wider than high; the models have the drawing it is made of and not the call. `ke_panic` clears 512 bytes of a
block of 128. `ke_io_read` skips everything before `a`, and what is written while
the port transmits is dropped. A number's sign is dropped.

**ARM64.** `mm_map_page` leaves `fStoreOp` up after a page it does not know, so
the second call waits for ever and no page is ever mapped
(`HalPagingMgrARM64.cc:56-67`). Interrupt 32 is given priority 0xFF under a mask
of 0xFF and is never signalled (`ARM64/HalApplicationProcessor.cc:65, 76`).

## 7. What is left

1. Two callers of the AHCI driver, with a slot taken twice; the read that spans
   chunks.
2. The composition of `Current` with `ProcessTeam`'s `Run`, on several processors
   that share `kIsScheduling`.
3. Proofs of the parts of `AgreesWithReference` named above: the folds of `Support`
   and `Loader` written out as recursive functions would bring them within reach
   of `IterationsExist`.
