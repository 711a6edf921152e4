---------------------------------- MODULE Ahci ----------------------------------
(***************************************************************************)
(* The AHCI driver (HALKit/AMD64/Storage/SATA.cc, Mod/AHCI/AHCI.h) with    *)
(* the search for its controller on the PCI buses (HALKit/AMD64/PCI), the  *)
(* controller and its disk.  The driver looks for a controller, picks a    *)
(* port with a disk, stops the port, lays its tables out in memory, starts *)
(* it, asks for the disk's geometry, and then reads and writes structures. *)
(* The tables' memory is counted in cells of 16 bytes, what an entry of    *)
(* the scatter list takes; the medium in sectors.  A structure's address   *)
(* in bytes is taken for a sector's number, and the size of a sector in    *)
(* bytes for a count of sectors (DriveMgr.cc:33).  Of the scatter list the *)
(* first entry alone is the caller's structure: what a read puts into the  *)
(* memory the others name, 4 KiB apart behind the buffer, is not followed. *)
(***************************************************************************)
EXTENDS Integers, FiniteSets, FiniteSetsExt

CONSTANTS
  Machines,     \* the machines there are: functions, ports, firmware's traces
  Buses,        \* 0 .. OPENNE_BUS_COUNT - 1
  DeviceField,  \* device numbers that a configuration address has room for
  ErrPort,      \* the port whose bit of the global Is passes for an error: 30
  Slots,        \* slots of a port's command list
  Header,       \* cells of a command table before its scatter list
  Room,         \* entries of a scatter list a command table has room for
  Step,         \* bytes by which an entry is shorter than the one before: 16
  SectorSz,     \* kAHCISectorSize
  IdentifySize, \* bytes of the geometry packet
  Callers,      \* those who send packets
  Places, Address, Size, Values, Torn, NoCall, None,
  MaxFaults,    \* bound of the model: commands the device fails per start
  MaxLosses     \* bound of the model: losses of power

Kinds == {"none", "ahci", "storage", "lookalike"}
Functions == Buses \X (0 .. (DeviceField - 1))

(* What Ssts and Sig say of a port: there is none, no disk, or a disk.     *)
(* (Pi is asked whether it is 0, and is shifted with every port.)          *)
Disks == {"none", "empty", "sata"}

(* What the firmware left the controller able to do: nothing, answer at    *)
(* its registers, or read and write memory, too.                           *)
Powers == {"off", "mmio", "master"}

ASSUME AhciAssumption ==
  /\ IsFiniteSet(Buses) /\ Buses = 0 .. (Cardinality(Buses) - 1)
  /\ \A m \in Machines :
       /\ m.functions \in [Functions -> Kinds]
       /\ m.ports \in [0 .. (Cardinality(DOMAIN m.ports) - 1) -> Disks]
       /\ {m.running, m.interrupts, m.neighbour} \subseteq BOOLEAN
       /\ m.firmware \in Powers
  /\ {DeviceField, Slots, Header, Step, SectorSz, IdentifySize} \subseteq Nat \ {0}
  /\ Room \in Nat
  /\ Address \in [Places -> Nat] /\ Size \in [Places -> Nat \ {0}]
  /\ MaxFaults \in Nat /\ MaxLosses \in Nat

Identify == [op |-> "identify", at |-> None, value |-> Torn]
Read(p) == [op |-> "read", at |-> p, value |-> Torn]
Write(p, v) == [op |-> "write", at |-> p, value |-> v]
Packets == {Identify} \cup {Read(p) : p \in Places}
             \cup {Write(p, v) : p \in Places, v \in Values}

(* What stands for no packet is none.                                      *)
ASSUME PacketsAssumption == NoCall \notin Packets

Bytes(p) == IF p.op = "identify" THEN IdentifySize ELSE Size[p.at]

(* Prdtl: one entry for every Step bytes begun.  All but the last are      *)
(* filled in.                                                              *)
Entries(p) == (Bytes(p) - 1) \div Step + 1
Filled(p) == 0 .. (Entries(p) - 2)

(* Bytes that the filled entries hold, each Step less than the one before, *)
(* and sectors that a command asks for.                                    *)
FilledBytes(p) == LET n == Entries(p) - 1
                  IN n * Bytes(p) - Step * ((n * (n - 1)) \div 2)
Asked(p) == IF p.op = "identify" THEN 1 ELSE SectorSz
Least(m, n) == IF m < n THEN m ELSE n

(* The first sector; the first form is a mutated one.                      *)
LbaDivided(p) == Address[p] \div SectorSz
Lba(p) == Address[p]

(* Sectors of the structure itself.                                        *)
Need(p) == (Size[p] + SectorSz - 1) \div SectorSz

(* Where a slot's table is (Ctba of its header) and an entry of its list;  *)
(* a list may go on behind the last of the tables.                         *)
TableSize == Header + Room
FisCell(s) == s * TableSize
PrdCell(s, k) == s * TableSize + Header + k
Cells == (0 .. (Slots * TableSize - 1))
           \cup {PrdCell(s, k) : s \in 0 .. (Slots - 1), 
                            k \in UNION {0 .. (Entries(p) - 1) : p \in Packets}}

(* The sectors that a command may ask for.                                 *)
Sectors == {Address[p] + k : p \in Places, k \in 0 .. SectorSz}

VARIABLES
  machine,    \* the machine, one of Machines
  devices,    \* fDevices: the function the iterator gives for each bus
  sound,      \* whether the driver read what the iterator had found
  pc,         \* where drv_std_init is, and what came of it
  port,       \* kSATAPortIdx
  engine,     \* PxCMD: ST, FRE, and the device's FR and CR
  tables,     \* the command tables' memory
  ci,         \* PxCI: the slots given to the device
  pending,    \* the port's bit of the global Is
  call,       \* each caller's packet, how far it is, and its slot
  at,         \* sectors moved of the command at work
  medium,     \* the sectors of the disk
  buf,        \* the sectors each caller's buffer was given
  got,        \* what the last packet read
  halted,     \* an error has stopped the device
  faults, losses

bios == <<machine, devices, sound, port>>
device == <<medium, at, buf>>
vars == <<machine, devices, sound, pc, port, engine, tables, ci, pending, call, at,
          medium, buf, got, halted, faults, losses>>

Sector == (Values \X (0 .. SectorSz)) \cup {None}
NoBuffer == [k \in 0 .. (SectorSz - 1) |-> None]
Rest == [at |-> "rest", packet |-> NoCall, slot |-> None]

(* A cell read as an entry has a byte count, one more than what is in it;  *)
(* in a command the count of sectors is there.                             *)
Fis(c, p) == [kind |-> "fis", of |-> c, packet |-> p,
              bytes |-> IF p.op = "identify" THEN 1 ELSE SectorSz + 1]
Prd(c, p, k) == [kind |-> "prd", of |-> c, packet |-> NoCall,
                 bytes |-> Bytes(p) - Step * k]
Zero == [kind |-> "zero", of |-> None, packet |-> NoCall, bytes |-> 1]

(* Of a port's registers, what Cmd says of its engine.                     *)
HbaPort == [st : BOOLEAN, fre : BOOLEAN, fr : BOOLEAN, cr : BOOLEAN]

TypeOK ==
  /\ machine \in Machines
  /\ devices \in [Buses -> Functions \cup {None}]
  /\ sound \in BOOLEAN
  /\ pc \in {"probe", "select", "ports", "stop", "layout", "start", "drive",
             "none", "lost", "panic"}
  /\ port \in DOMAIN machine.ports \cup {None}
  /\ engine \in HbaPort
  /\ \A c \in Cells : /\ tables[c].kind \in {"none", "zero", "fis", "prd"}
                      /\ tables[c].packet \in Packets \cup {NoCall}
                      /\ tables[c].bytes \in Nat
  /\ ci \subseteq 0 .. (Slots - 1)
  /\ pending \in BOOLEAN /\ halted \in BOOLEAN
  /\ \A c \in Callers : /\ call[c].at \in {"rest", "slot", "table", "ready", "wait"}
                        /\ call[c].packet \in Packets \cup {NoCall}
                        /\ call[c].slot \in 0 .. (Slots - 1) \cup {None}
  /\ at \in 0 .. SectorSz
  /\ medium \in [Sectors -> Sector]
  /\ buf \in [Callers -> [0 .. (SectorSz - 1) -> Sector]]
  /\ faults \in 0 .. MaxFaults /\ losses \in 0 .. MaxLosses

NoDevices == [b \in Buses |-> None]
Engine == [bit \in {"st", "fre", "fr", "cr"} |-> machine.running]
NoTables == [c \in Cells |-> [Zero EXCEPT !.kind = "none"]]
AllRest == [c \in Callers |-> Rest]
NoBuffers == [c \in Callers |-> NoBuffer]

Init ==
  /\ machine \in Machines
  /\ devices = NoDevices /\ sound = FALSE /\ pc = "probe" /\ port = None
  /\ engine = Engine /\ tables = NoTables /\ ci = {} /\ pending = FALSE
  /\ call = AllRest /\ at = 0 /\ buf = NoBuffers /\ got = NoCall
  /\ medium = [s \in Sectors |-> None]
  /\ halted = FALSE /\ faults = 0 /\ losses = 0
-----------------------------------------------------------------------------
(* A device number of DeviceField does not fit its field: its low bit goes *)
(* over to the bus, and the address is that of the bus with the bit set.   *)
Target(b, d) == IF d < DeviceField THEN <<b, d>> ELSE <<2 * (b \div 2) + 1, 0>>

Answers(f) == IF f \in DOMAIN machine.functions THEN machine.functions[f] ELSE "none"
Storage(f) == Answers(f) \in {"ahci", "storage"}

(* Of the mass storage controllers of a bus the iterator keeps the last.   *)
Found(b) == {d \in 0 .. DeviceField : Storage(Target(b, d))}
Kept(b, f) == Found(b) # {} /\ f = Target(b, Max(Found(b)))

(* Mutated form of LastOn: one device number short.                        *)
LastOnShort(b) ==
  LET there == Found(b) \ {DeviceField - 1, DeviceField}
  IN IF there = {} THEN Functions \cup {None} ELSE {Target(b, Max(there))}

(* The entry of a bus without one was never written.                       *)
LastOn(b) ==
  IF Found(b) = {} THEN Functions \cup {None} ELSE {Target(b, Max(Found(b)))}

Probe ==
  /\ pc = "probe"
  /\ devices' \in {d \in [Buses -> Functions \cup {None}] :
                     \A b \in Buses : d[b] \in LastOn(b)}
  /\ pc' = "select"
  /\ UNCHANGED <<machine, sound, port, engine, tables, ci, pending, call, device,
                 got, halted, faults, losses>>

(* The first bus whose function has the subclass and interface of AHCI; a  *)
(* function of another class that has them too has no ports to look at.    *)
(* iterator[] answers a reference to a copy that is gone, so that what is  *)
(* seen of a bus is its entry or anything; of an entry that the iterator   *)
(* did not write fBar is anything, too, and the wrong register is written. *)
(* The iterator is not asked again.                                        *)
Select ==
  /\ pc = "select"
  /\ \E seen \in [Buses -> Functions \cup {None}] :
       LET like == {b \in Buses : Answers(seen[b]) \in {"ahci", "lookalike"}}
           first == Min(like)
       IN /\ \/ like = {} /\ pc' = "none"
             \/ like # {} /\ Answers(seen[first]) = "ahci" /\ pc' = "ports"
             \/ like # {} /\ pc' = "lost"
                /\ (Answers(seen[first]) # "ahci" \/ ~Kept(first, seen[first]))
          /\ sound' = /\ \A b \in Buses : Found(b) # {} => seen[b] = devices[b]
                      /\ \A b \in like : Kept(b, seen[b])
  /\ devices' = NoDevices
  /\ UNCHANGED <<machine, port, engine, tables, ci, pending, call, device, got,
                 halted, faults, losses>>

(* The first port with a disk; without one the next controller is not      *)
(* asked.  EnableMmio and BecomeBusMaster write a bool, 1, to the low half *)
(* of BAR5 and not to the command register: the registers move to the      *)
(* start of their 64 KiB, where a neighbour's may stand, and what the      *)
(* firmware did not switch on stays off.  Registers that do not answer     *)
(* read all ones, which is no disk's signature.                            *)
ChoosePort ==
  /\ pc = "ports"
  /\ LET disks == IF machine.firmware = "off" THEN {}
                  ELSE {n \in DOMAIN machine.ports : machine.ports[n] = "sata"}
     IN \/ machine.neighbour /\ pc' = "lost" /\ UNCHANGED port
        \/ ~machine.neighbour /\ disks = {} /\ pc' = "none" /\ UNCHANGED port
        \/ ~machine.neighbour /\ disks # {} /\ pc' = "stop" /\ port' = Min(disks)
  /\ UNCHANGED <<machine, devices, sound, engine, tables, ci, pending, call, device,
                 got, halted, faults, losses>>

StopEngine ==
  /\ pc = "stop" /\ pc' = "layout"
  /\ engine' = [engine EXCEPT !.st = FALSE, !.fre = FALSE]
  /\ UNCHANGED <<bios, tables, ci, pending, call, device, got, halted, faults,
                 losses>>

(* Mutated form of StartEngine: ST is not set.                             *)
StartReceiving ==
  /\ pc = "start" /\ ~engine.cr
  /\ engine' = [engine EXCEPT !.fre = TRUE]
  /\ pc' = "drive"
  /\ \E c \in Callers :
       call' = [call EXCEPT ![c] = [Rest EXCEPT !.at = "slot", !.packet = Identify]]
  /\ UNCHANGED <<bios, tables, ci, pending, device, got, halted, faults, losses>>

(* Once the device has stopped, the list and all its tables are cleared,   *)
(* each four times as far as it is long: rt_set_memory counts words.       *)
LayOut ==
  /\ pc = "layout" /\ ~engine.fr /\ ~engine.cr
  /\ pc' = "start"
  /\ tables' = [c \in Cells |-> IF c < (Slots + 3) * TableSize THEN Zero ELSE tables[c]]
  /\ UNCHANGED <<bios, engine, ci, pending, call, device, got, halted, faults,
                 losses>>

StartEngine ==
  /\ pc = "start" /\ ~engine.cr
  /\ engine' = [engine EXCEPT !.fre = TRUE, !.st = TRUE]
  /\ pc' = "drive"
  /\ \E c \in Callers :
       call' = [call EXCEPT ![c] = [Rest EXCEPT !.at = "slot", !.packet = Identify]]
  /\ UNCHANGED <<bios, tables, ci, pending, device, got, halted, faults, losses>>
-----------------------------------------------------------------------------
(* drv_std_read, drv_std_write.  Nobody asked whether there is a drive:    *)
(* without one the packet goes through a null pointer.                     *)
Call(c) ==
  /\ pc \in {"drive", "none"} /\ call[c] = Rest
  /\ \A d \in Callers : call[d].packet # Identify
  /\ \E p \in Packets \ {Identify} :
       call' = [call EXCEPT ![c] = [Rest EXCEPT !.at = "slot", !.packet = p]]
  /\ pc' = IF pc = "none" THEN "lost" ELSE pc
  /\ UNCHANGED <<bios, engine, tables, ci, pending, device, got, halted, faults,
                 losses>>

(* drv_find_cmd_slot.  With every slot taken the packet is over, undone.   *)
FindSlot(c) ==
  /\ pc = "drive" /\ call[c].at = "slot"
  /\ LET free == (0 .. (Slots - 1)) \ ci
     IN call' = [call EXCEPT ![c] = IF free = {} THEN Rest
                                    ELSE [@ EXCEPT !.at = "table", !.slot = Min(free)]]
  /\ UNCHANGED <<bios, pc, engine, tables, ci, pending, device, got, halted,
                 faults, losses>>

(* The header, the scatter list and the command.  The list goes on into    *)
(* the tables behind it.                                                   *)
Build(c) ==
  /\ pc = "drive" /\ call[c].at = "table"
  /\ LET s == call[c].slot  p == call[c].packet
     IN tables' = [cell \in Cells |->
                     IF cell = FisCell(s) THEN Fis(c, p)
                     ELSE IF \E k \in Filled(p) : cell = PrdCell(s, k)
                          THEN Prd(c, p, cell - PrdCell(s, 0))
                          ELSE tables[cell]]
  /\ call' = [call EXCEPT ![c].at = "ready"]
  /\ UNCHANGED <<bios, pc, engine, ci, pending, device, got, halted, faults,
                 losses>>

(* Mutated form of Issue: the command is not waited for.                   *)
IssueOnly(c) ==
  /\ pc = "drive" /\ call[c].at = "ready"
  /\ ci' = ci \cup {call[c].slot} /\ pending' = FALSE
  /\ call' = [call EXCEPT ![c] = Rest]
  /\ UNCHANGED <<bios, pc, engine, tables, device, got, halted, faults, losses>>

(* The command is given to the device when its task file is idle; an error *)
(* leaves it idle, too.                                                    *)
Issue(c) ==
  /\ pc = "drive" /\ call[c].at = "ready"
  /\ ci' = ci \cup {call[c].slot} /\ pending' = FALSE
  /\ call' = [call EXCEPT ![c].at = "wait"]
  /\ UNCHANGED <<bios, pc, engine, tables, device, got, halted, faults, losses>>

ValueOf(p, f) ==
  IF \E v \in Values : \A k \in 0 .. (Need(p) - 1) : f[k] = <<v, k>>
  THEN f[0][1] ELSE Torn

EndCall(c) ==
  /\ pc = "drive" /\ call[c].at = "wait" /\ call[c].slot \notin ci
  /\ got' = IF call[c].packet.op = "read"
            THEN [call[c].packet EXCEPT !.value = ValueOf(call[c].packet.at, buf[c])]
            ELSE got
  /\ buf' = [buf EXCEPT ![c] = NoBuffer]
  /\ call' = [call EXCEPT ![c] = Rest]
  /\ UNCHANGED <<bios, pc, engine, tables, ci, pending, medium, at, halted,
                 faults, losses>>

(* The bit that is looked at belongs to a port, not to an error.           *)
Panic(c) ==
  /\ pc = "drive" /\ call[c].at = "wait" /\ call[c].slot \in ci
  /\ pending /\ port = ErrPort
  /\ pc' = "panic"
  /\ UNCHANGED <<bios, engine, tables, ci, pending, call, device, got, halted,
                 faults, losses>>
-----------------------------------------------------------------------------
(* The device.  It follows ST and FRE at its own pace.                     *)
Follow ==
  /\ \/ engine.cr # engine.st /\ engine' = [engine EXCEPT !.cr = engine.st]
     \/ engine.fr # engine.fre /\ engine' = [engine EXCEPT !.fr = engine.fre]
  /\ UNCHANGED <<bios, pc, tables, ci, pending, call, device, got, halted,
                 faults, losses>>

(* A controller that was not made bus master fetches no command.           *)
Working(s) == /\ machine.firmware = "master" /\ engine.cr /\ ~halted
              /\ s \in ci /\ (at > 0 => s = Min(ci))
Command(s) == tables[FisCell(s)].packet

(* Sectors for which the list has room.  Its last entry is counted and was *)
(* not written: it is what a longer list left there, or none.              *)
Held(s) == LET p == Command(s)
               last == tables[PrdCell(s, Entries(p) - 1)].bytes
           IN (FilledBytes(p) + last + SectorSz - 1) \div SectorSz
Moves(s) == Least(Asked(Command(s)), Held(s))
Buffer(s) == tables[PrdCell(s, 0)].of
Interrupt == pending' = (pending \/ machine.interrupts)

(* A sector on its way, then the command's end; where the list ends before *)
(* the sectors that were asked for, the device ends the command there.     *)
Move(s) ==
  /\ Working(s)
  /\ LET p == Command(s)
     IN /\ at < Moves(s)
        /\ CASE p.op = "write" ->
                  /\ medium' = [medium EXCEPT ![Lba(p.at) + at] = <<p.value, at>>]
                  /\ UNCHANGED buf
             [] p.op = "read" ->
                  /\ buf' = [buf EXCEPT ![Buffer(s)][at] = medium[Lba(p.at) + at]]
                  /\ UNCHANGED medium
             [] OTHER -> UNCHANGED <<medium, buf>>
  /\ at' = at + 1
  /\ Interrupt
  /\ UNCHANGED <<bios, pc, engine, tables, ci, call, got, halted, faults, losses>>

Complete(s) ==
  /\ Working(s) /\ at = Moves(s)
  /\ ci' = ci \ {s} /\ at' = 0
  /\ Interrupt
  /\ UNCHANGED <<bios, pc, engine, tables, call, medium, buf, got, halted,
                 faults, losses>>

(* A device that fails a command, or takes the short list for an error,    *)
(* stops with the slot still given; one that drops the command goes on.    *)
Fault(s) ==
  /\ Working(s) /\ faults < MaxFaults
  /\ faults' = faults + 1
  /\ \/ halted' = TRUE /\ UNCHANGED <<ci, at>>
     \/ UNCHANGED halted /\ ci' = ci \ {s} /\ at' = 0
  /\ Interrupt
  /\ UNCHANGED <<bios, pc, engine, tables, call, medium, buf, got, losses>>

PowerLoss ==
  /\ losses < MaxLosses /\ losses' = losses + 1
  /\ devices' = NoDevices /\ sound' = FALSE /\ pc' = "probe" /\ port' = None
  /\ engine' = Engine /\ tables' = NoTables /\ ci' = {} /\ pending' = FALSE
  /\ call' = AllRest /\ at' = 0 /\ buf' = NoBuffers /\ got' = NoCall
  /\ halted' = FALSE /\ faults' = 0
  /\ UNCHANGED <<machine, medium>>

(* The driver asks the device again, a stopped one for ever.               *)
Ask ==
  /\ \/ pc \in {"lost", "panic"}
     \/ pc \in {"layout", "start"} /\ (engine.fr \/ engine.cr)
     \/ \E c \in Callers : call[c].at = "wait" /\ call[c].slot \in ci
  /\ UNCHANGED vars

Mount == Probe \/ Select \/ ChoosePort \/ StopEngine \/ LayOut \/ StartEngine
Transfer == \E c \in Callers :
              FindSlot(c) \/ Build(c) \/ Issue(c) \/ EndCall(c) \/ Panic(c)
Device == Follow \/ \E s \in 0 .. (Slots - 1) : Move(s) \/ Complete(s)

Next == \/ Mount \/ Transfer \/ Device
        \/ \E c \in Callers : Call(c)
        \/ \E s \in 0 .. (Slots - 1) : Fault(s)
        \/ PowerLoss \/ Ask

Spec == Init /\ [][Next]_vars
FairSpec == Spec /\ WF_vars(Mount) /\ WF_vars(Transfer) /\ WF_vars(Device)
-----------------------------------------------------------------------------
(* While the device has a command, its table is what its caller wrote: the *)
(* scatter lists that go on into the tables of other slots hit no command  *)
(* at work, and no one is given a slot that is taken (SATA.cc:201, 248).   *)
CommandIntact ==
  pc = "drive" =>
    \A s \in ci : \E c \in Callers :
      LET p == call[c].packet
      IN /\ call[c].at = "wait" /\ call[c].slot = s
         /\ tables[FisCell(s)] = Fis(c, p)
         /\ \A k \in Filled(p) : tables[PrdCell(s, k)] = Prd(c, p, k)

(* The tables are laid out only when the device neither receives nor runs  *)
(* commands, whatever state the firmware left the port in (SATA.cc:126).   *)
LaidOutInPeace == pc = "start" => ~engine.cr /\ ~engine.fr /\ ci = {}

(* Driver and device agree on the tables.                                  *)
TablesIntact == TypeOK /\ CommandIntact /\ LaidOutInPeace

(* A machine whose one storage controller is AHCI, with a disk, gets it,   *)
(* on whichever bus and device it answers (Iterator.cc:13-32), provided    *)
(* the driver read what the iterator had found and nothing that passes for *)
(* AHCI where it had found nothing (`sound'), the firmware switched the    *)
(* controller on and no other device stands where its registers move.      *)
Controllers == {f \in Functions : Storage(f)}
FindsDrive ==
  /\ sound /\ machine.firmware # "off" /\ ~machine.neighbour
  /\ \E f \in Functions : Controllers = {f} /\ Answers(f) = "ahci"
  /\ \E n \in DOMAIN machine.ports : machine.ports[n] = "sata"
  => pc \notin {"none", "lost"}

Stored(p) == ValueOf(p, [k \in 0 .. (Need(p) - 1) |-> medium[Lba(p) + k]])

D == INSTANCE Drive WITH
       store <- [p \in Places |-> Stored(p)],
       call <- LET calling == {c \in Callers : call[c].packet \notin {NoCall, Identify}}
               IN IF calling = {} THEN NoCall ELSE call[CHOOSE c \in calling : TRUE].packet,
       failed <- faults > 0

(* With one caller this driver keeps what Drive promises as well: a sector *)
(* number that was not divided and a count that is far too large are a     *)
(* match, as a structure's address and size are in bytes.                  *)
Implements == D!Spec

(* A packet that is sent to a controller made bus master comes to its end  *)
(* unless the device stops, which is waited for for ever; on port 30 a     *)
(* sound packet may panic, as its interrupt passes for an error            *)
(* (SATA.cc:201-302).                                                      *)
TransfersEnd ==
  \A c \in Callers :
    /\ call[c].at # "rest" /\ pc = "drive" /\ port # ErrPort
    /\ machine.firmware = "master"
    ~> call[c].at = "rest" \/ halted
===============================================================================
