-------------------------------- MODULE Storage --------------------------------
(***************************************************************************)
(* The ATA drivers in PIO mode of the bootloader (Boot/src/HEL/AMD64/      *)
(* BootATA.cc) and of the kernel (HALKit/AMD64/Storage/ATA.cc) with the    *)
(* kernel's drive on top (src/DriveMgr.cc), and the devices they talk to.  *)
(* The bootloader looks for a device.  The recovery check it starts reads  *)
(* the superblock; when that is not valid the bootloader reads it once     *)
(* more, and formats.  The kernel looks for a device again, reads the EPM  *)
(* block, and then reads and writes structures, one packet at a time.      *)
(* A cell of the medium is one 16-bit word.  Both drivers move one byte of *)
(* a structure in each word, so a structure of n bytes is n cells, and a   *)
(* sector of SectorSz bytes has half as many cells.                        *)
(* Reading the status until a bit changes is a guard; the registers are    *)
(* written in one step, as the device does not look before the command.    *)
(***************************************************************************)
EXTENDS Integers, FiniteSets

CONSTANTS
  SectorSz,     \* kATASectorSize: bytes in a sector
  Sectors,      \* bound of the model: sectors of a medium
  Epm,          \* the place of the EPM block, at address 0
  Super,        \* the place of the superblock
  Places,       \* the structures kept on the drive
  Address,      \* of a place, in bytes
  Size,         \* of a place's structure, in bytes
  Magic,        \* an EPM block as the bootloader writes it
  Values,       \* other structures
  Torn,         \* no whole structure
  NoCall,       \* no packet is under way
  None,         \* no device, or an empty cell
  MaxFaults,    \* bound of the model: device errors per start
  MaxLosses     \* bound of the model: losses of power

Words == SectorSz \div 2
Sector(p, sz) == Address[p] \div sz
Count(p, sz) == (Size[p] + sz) \div sz

ASSUME StorageAssumption ==
  /\ SectorSz \in Nat \ {0, 1} /\ Sectors \in Nat
  /\ {Epm, Super} \subseteq Places /\ IsFiniteSet(Places)
  /\ Address \in [Places -> Nat] /\ Size \in [Places -> Nat \ {0}]
  /\ Address[Epm] = 0
  /\ Magic \notin Values /\ Torn \notin Values \cup {Magic} /\ None \notin Values
  /\ MaxFaults \in Nat /\ MaxLosses \in Nat

Buses == {"primary", "secondary"}
Cells == 0 .. (Sectors * Words - 1)
Bytes == UNION {0 .. (Size[p] - 1) : p \in Places}   \* of a structure
Cell == ((Values \cup {Magic}) \X Bytes) \cup {None}

VARIABLES
  media,     \* the cells of each device
  present,   \* which devices there are
  dev,       \* each device's state, next cell and cells left
  pc,        \* where the one who runs is
  who,       \* "syschk" (SysChk/Module.cc), "boot" or "kernel"
  bus,       \* mBus and mMaster, kATAIO and kATAMaster
  readOnly,  \* fPacketReadOnly
  packet,    \* the packet under way
  i,         \* IndexOff
  buf,       \* what has been read
  got,       \* what the last packet read
  faults, losses

system == <<present, who, bus, readOnly, losses>>
vars == <<media, present, dev, pc, who, bus, readOnly, packet, i, buf, got,
          faults, losses>>

Idle == [state |-> "ready", err |-> FALSE, at |-> 0, left |-> 0]
Write(p, v) == [op |-> "write", at |-> p, value |-> v]
Read(p) == [op |-> "read", at |-> p, value |-> Torn]
Packets == {Write(p, v) : p \in Places, v \in Values \cup {Magic}}
             \cup {Read(p) : p \in Places}

TypeOK ==
  /\ media \in [Buses -> [Cells -> Cell]]
  /\ present \in SUBSET Buses
  /\ dev \in [Buses -> [state : {"ready", "busy", "in", "out"}, err : BOOLEAN,
                        at : 0 .. (Sectors * Words), left : Nat]]
  /\ pc \in {"off", "primary", "secondary", "check", "checked", "epm",
             "detect", "idle", "command", "words"}
  /\ who \in {"syschk", "boot", "kernel"}
  /\ bus \in Buses \cup {None}
  /\ readOnly \in BOOLEAN
  /\ packet \in Packets \cup {NoCall}
  /\ i \in Nat
  /\ buf \in [Bytes -> Cell]
  /\ faults \in 0 .. MaxFaults /\ losses \in 0 .. MaxLosses

(* The bootloader gives the structure's size for the size of a sector; the *)
(* first form is a mutated one.                                            *)
UnitOfPacket == Size[packet.at]
Unit == IF who = "kernel" THEN SectorSz ELSE Size[packet.at]

(* What a transfer of the kernel carries of a structure: its words in the  *)
(* sectors asked for.                                                      *)
Kept(p) == LET asked == Count(p, SectorSz) * Words
           IN IF Size[p] < asked THEN Size[p] ELSE asked

(* The structures lie behind the EPM block, and that on the medium; what   *)
(* stands for nothing is neither a bus, a word nor a packet.               *)
ASSUME PlacesAssumption ==
  /\ Kept(Epm) - 1 \in Cells
  /\ \A p \in Places \ {Epm} : Kept(Epm) =< Sector(p, SectorSz) * Words
  /\ None \notin Buses \cup ((Values \cup {Magic}) \X Bytes)
  /\ NoCall \notin [op : {"read", "write"}, at : Places, value : Values \cup {Magic, Torn}]

ValueOf(p, f) ==
  IF \E v \in Values \cup {Magic} : \A k \in 0 .. (Kept(p) - 1) : f[k] = <<v, k>>
  THEN f[0][1] ELSE Torn

Stored(b, p) ==
  ValueOf(p, [k \in 0 .. (Kept(p) - 1) |->
                media[b][Sector(p, SectorSz) * Words + k]])
-----------------------------------------------------------------------------
Init ==
  /\ media = [b \in Buses |-> [c \in Cells |-> None]]
  /\ present \in SUBSET Buses
  /\ dev = [b \in Buses |-> Idle]
  /\ pc = "off" /\ who = "syschk" /\ bus = None /\ readOnly = FALSE
  /\ packet = NoCall /\ i = 0 /\ buf = [k \in Bytes |-> None] /\ got = NoCall
  /\ faults = 0 /\ losses = 0

(* BootDeviceATA's constructor and io_drv_init start with the primary bus. *)
Start ==
  /\ pc = "off"
  /\ pc' = "primary"
  /\ UNCHANGED <<media, dev, packet, i, buf, got, faults, system>>

(* A word moved: with the last one of a sector the device turns busy, and  *)
(* of a write the sector gets to the medium.                               *)
Moved(d) ==
  [d EXCEPT !.at = @ + 1, !.left = @ - 1,
            !.state = IF (d.left - 1) % Words = 0 THEN "busy" ELSE @]
Written(d) ==
  IF Moved(d).state # "busy" THEN media[bus]
  ELSE [c \in Cells |-> IF c \in (d.at - Words + 1) .. d.at
                        THEN <<packet.value, i - (d.at - c)>>
                        ELSE media[bus][c]]

(* What comes after a packet.                                              *)
After == IF who = "kernel" THEN "idle"
         ELSE IF packet.op = "read" THEN "checked"
         ELSE IF packet.at = Super THEN "epm" ELSE "idle"

(* Mutated forms of Put, Finish, ReadOnlyKind and Format.                  *)
PutAnyTime ==
  /\ pc = "words" /\ packet.op = "write" /\ i < Size[packet.at]
  /\ LET d == dev[bus]
     IN IF d.state = "out"
        THEN /\ media' = [media EXCEPT ![bus] = Written(d)]
             /\ dev' = [dev EXCEPT ![bus] = Moved(d)]
        ELSE UNCHANGED <<media, dev>>
  /\ i' = i + 1
  /\ UNCHANGED <<pc, packet, buf, got, faults, system>>
FinishRetries ==
  /\ pc = "words" /\ i = Size[packet.at] /\ dev[bus].state # "busy"
  /\ LET v == ValueOf(packet.at, buf)
         again == packet.op = "read" /\ v = Torn
     IN /\ got' = IF packet.op = "read" /\ ~again
                  THEN [packet EXCEPT !.value = v] ELSE got
        /\ packet' = IF again THEN packet ELSE NoCall
        /\ pc' = IF again THEN "command" ELSE After
  /\ buf' = [k \in Bytes |-> None] /\ i' = 0
  /\ UNCHANGED <<media, dev, faults, present, who, bus, losses>>
NeverReadOnly(v) == v = None
FormatAtOnce ==
  /\ \/ pc = "checked" /\ got.value = Torn
        /\ who' = "boot" /\ \E v \in Values : packet' = Write(Super, v)
     \/ pc = "epm" /\ packet' = Write(Epm, Magic) /\ UNCHANGED who
  /\ pc' = "command"
  /\ UNCHANGED <<media, dev, i, buf, got, faults, present, bus, readOnly, losses>>

(* drv_std_init: a missing device reads as all ones, which passes for an   *)
(* error, and so does the error of the last command; otherwise IDENTIFY is *)
(* answered and the bus is taken.  When the secondary bus fails, too, the  *)
(* kernel does not ask and goes on with it; the bootloader has found       *)
(* nothing, and all it reads and writes after that returns at once.        *)
Probe(b) ==
  /\ pc = b
  /\ dev[b].state # "busy"
  /\ IF b \in present /\ ~dev[b].err
     THEN /\ bus' = b /\ pc' = IF who = "kernel" THEN "detect" ELSE "check"
          /\ dev' = [dev EXCEPT ![b] = Idle]
     ELSE /\ bus' = "secondary" /\ UNCHANGED dev
          /\ pc' = IF b = "primary" THEN "secondary"
                   ELSE IF who = "kernel" THEN "detect" ELSE "idle"
  /\ UNCHANGED <<media, present, who, readOnly, losses, packet, i, buf,
                 got, faults>>

(* IsPartitionValid reads the superblock, for the recovery check and then, *)
(* if that failed, for the bootloader.  (Both look for a device first, but *)
(* nothing has failed by then, so that they find the same.)  Format writes *)
(* the superblock, then block 0.                                           *)
Check ==
  /\ \/ pc = "check" /\ UNCHANGED who
     \/ pc = "checked" /\ who = "syschk" /\ got.value = Torn /\ who' = "boot"
  /\ packet' = Read(Super) /\ pc' = "command"
  /\ UNCHANGED <<media, dev, i, buf, got, faults, present, bus, readOnly, losses>>

Format ==
  /\ who = "boot"
  /\ \/ pc = "checked" /\ got.value = Torn
        /\ \E v \in Values : packet' = Write(Super, v)
     \/ pc = "epm" /\ packet' = Write(Epm, Magic)
  /\ pc' = "command"
  /\ UNCHANGED <<media, dev, i, buf, got, faults, system>>

HandOver ==
  /\ who # "kernel"
  /\ \/ pc = "idle"
     \/ pc = "checked" /\ got.value # Torn
  /\ who' = "kernel" /\ pc' = "primary" /\ bus' = None /\ got' = NoCall
  /\ UNCHANGED <<media, dev, packet, i, buf, faults, present, readOnly,
                 losses>>

(* io_detect_drive reads the EPM block.                                    *)
Detect ==
  /\ pc = "detect"
  /\ packet' = Read(Epm) /\ pc' = "command"
  /\ UNCHANGED <<media, dev, i, buf, got, faults, system>>

(* fInput, fOutput: output to a read-only drive returns at once.           *)
Call ==
  /\ who = "kernel" /\ pc = "idle"
  /\ \/ \E p \in Places : packet' = Read(p)
     \/ /\ ~readOnly
        /\ \E p \in Places \ {Epm}, v \in Values : packet' = Write(p, v)
  /\ pc' = "command"
  /\ UNCHANGED <<media, dev, i, buf, got, faults, system>>

(* drv_std_read, drv_std_write: address and count in units of the sector   *)
(* size the caller gives, then the command.  The status of a bus without a *)
(* device is all ones, that is busy.                                       *)
Command ==
  /\ pc = "command" /\ bus \in present /\ dev[bus].state # "busy"
  /\ dev' = [dev EXCEPT ![bus] =
               [state |-> "busy", err |-> FALSE,
                at |-> Sector(packet.at, Unit) * Words,
                left |-> Count(packet.at, Unit) * Words]]
  /\ pc' = "words" /\ i' = 0
  /\ UNCHANGED <<media, packet, buf, got, faults, system>>

(* One turn of the loop.  Whether the wait ended in an error is not asked; *)
(* without data to give, the port gives something; without data to take,   *)
(* the word is lost.                                                       *)
Take ==
  /\ pc = "words" /\ packet.op = "read" /\ i < Size[packet.at]
  /\ dev[bus].state # "busy"
  /\ LET d == dev[bus]
     IN IF d.state = "in"
        THEN /\ buf' = [buf EXCEPT ![i] = media[bus][d.at]]
             /\ dev' = [dev EXCEPT ![bus] = Moved(d)]
        ELSE buf' = [buf EXCEPT ![i] = None] /\ UNCHANGED dev
  /\ i' = i + 1
  /\ UNCHANGED <<media, pc, packet, got, faults, system>>

Put ==
  /\ pc = "words" /\ packet.op = "write" /\ i < Size[packet.at]
  /\ dev[bus].state # "busy"
  /\ LET d == dev[bus]
     IN IF d.state = "out"
        THEN /\ media' = [media EXCEPT ![bus] = Written(d)]
             /\ dev' = [dev EXCEPT ![bus] = Moved(d)]
        ELSE UNCHANGED <<media, dev>>
  /\ i' = i + 1
  /\ UNCHANGED <<pc, packet, buf, got, faults, system>>

(* The end of a transfer; of the kernel's first one the drive's kind       *)
(* follows: without the EPM magic it is read-only.                         *)
ReadOnlyKind(v) == v # Magic

Finish ==
  /\ pc = "words" /\ i = Size[packet.at] /\ dev[bus].state # "busy"
  /\ got' = IF packet.op = "read"
            THEN [packet EXCEPT !.value = ValueOf(packet.at, buf)] ELSE got
  /\ packet' = NoCall /\ pc' = After
  /\ buf' = [k \in Bytes |-> None] /\ i' = 0
  /\ UNCHANGED <<media, dev, faults, present, who, bus, losses>>

Mounted ==
  /\ Finish
  /\ readOnly' = IF who = "kernel" /\ got = NoCall
                 THEN ReadOnlyKind(got'.value) ELSE readOnly
-----------------------------------------------------------------------------
(* The device answers, or fails.                                           *)
Answer(b) ==
  /\ dev[b].state = "busy"
  /\ dev' = [dev EXCEPT ![b].state =
               IF dev[b].left = 0 THEN "ready"
               ELSE IF packet.op = "read" THEN "in" ELSE "out"]
  /\ UNCHANGED <<media, pc, packet, i, buf, got, faults, system>>

Fault(b) ==
  /\ dev[b].state = "busy" /\ faults < MaxFaults
  /\ dev' = [dev EXCEPT ![b] = [Idle EXCEPT !.err = TRUE]]
  /\ faults' = faults + 1
  /\ UNCHANGED <<media, pc, packet, i, buf, got, system>>

PowerLoss ==
  /\ losses < MaxLosses
  /\ losses' = losses + 1
  /\ dev' = [b \in Buses |-> Idle]
  /\ pc' = "off" /\ who' = "syschk" /\ bus' = None /\ readOnly' = FALSE
  /\ packet' = NoCall /\ i' = 0 /\ buf' = [k \in Bytes |-> None]
  /\ got' = NoCall /\ faults' = 0
  /\ UNCHANGED <<media, present>>

(* drv_std_wait_io asks a bus without a device for ever.                   *)
Spin == pc = "command" /\ bus \notin present /\ UNCHANGED vars

(* The bootloader and the kernel have copies of the same functions.        *)
BootProbe(b) == who # "kernel" /\ Probe(b)
BootRead == who # "kernel" /\ packet # NoCall /\ packet.op = "read"
              /\ (Command \/ Take \/ Mounted)
BootWrite == who = "boot" /\ packet # NoCall /\ packet.op = "write"
               /\ (Command \/ Put \/ Mounted)
KernelProbe(b) == who = "kernel" /\ Probe(b)
KernelRead == who = "kernel" /\ packet # NoCall /\ packet.op = "read"
                /\ (Command \/ Take \/ Mounted)
KernelWrite == who = "kernel" /\ packet # NoCall /\ packet.op = "write"
                 /\ (Command \/ Put \/ Mounted)

Driver == \/ Start \/ Check \/ Format \/ HandOver \/ Detect
          \/ \E b \in Buses : BootProbe(b) \/ KernelProbe(b)
          \/ BootRead \/ BootWrite \/ KernelRead \/ KernelWrite
Devices == \E b \in Buses : Answer(b)

Next == \/ Driver \/ Call \/ Devices \/ (\E b \in Buses : Fault(b))
        \/ PowerLoss \/ Spin

Spec == Init /\ [][Next]_vars
FairSpec == Spec /\ WF_vars(Driver) /\ WF_vars(Devices)
-----------------------------------------------------------------------------
(* The drive a kernel sees, or the next one will see.                      *)
Medium == IF bus # None THEN bus
          ELSE IF "primary" \in present THEN "primary" ELSE "secondary"

D == INSTANCE Drive WITH
       Values <- Values \cup {Magic},
       store <- [p \in Places |-> Stored(Medium, p)],
       call <- packet,
       failed <- faults > 0

(* What was written is read back, torn only by a loss of power under way,  *)
(* and no packet disturbs another's structure, as Drive promises.          *)
Implements == D!Spec

(* With no device error the kernel uses the device the bootloader          *)
(* formatted: the two look for it in the same order.                       *)
SameDevice ==
  faults = 0 /\ bus # None =>
    bus = IF "primary" \in present THEN "primary" ELSE "secondary"

(* When the kernel gives a command the device wants no data of the last    *)
(* one any more (the 400 reads of the status do not look at DRQ).          *)
NothingOwed ==
  who = "kernel" /\ pc = "command" => dev[bus].state \notin {"in", "out"}

(* The two drivers and the devices are in step.                            *)
InStep == TypeOK /\ SameDevice /\ NothingOwed

(* The kernel changes a medium only when its read of the EPM block found   *)
(* one there, whichever device failed or not.                              *)
OnlyEpmWritten ==
  [][who = "kernel" /\ media' # media => Stored(bus, Epm) = Magic]_vars

(* One device error in a start does not cost a healthy partition: the      *)
(* recovery check and the bootloader would both have to misread it.        *)
HealthyNotFormatted ==
  [][who' = "boot" /\ packet = NoCall /\ packet' \in {Write(Super, v) : v \in Values}
       => Stored(bus, Super) = Torn]_vars

(* A packet under way comes to its end.  One that does not is sent to a    *)
(* bus without a device, which only a machine without any and a start in   *)
(* which a device has failed come to (DriveMgr.cc:77-80, ATA.cc:39-52).    *)
Nowhere == bus \notin present /\ (faults > 0 \/ present = {})
TransfersEnd == (packet # NoCall) ~> (packet = NoCall \/ Nowhere)
================================================================================
