------------------------------- MODULE AhciProofs -------------------------------
(***************************************************************************)
(* Theorems about the AHCI driver, for any machines, packets and tables    *)
(* and any number of slots, failed commands and losses of power.           *)
(***************************************************************************)
EXTENDS Ahci, FiniteSetTheorems, WellFoundedInduction, TLAPS

(* One caller at a time, which the kernel's services keep to: two would be *)
(* given the same slot (SATA.cc:201).                                      *)
Alone == \E c \in Callers : Callers = {c}

(* Until the driver has been mounted the device has nothing to do; it is   *)
(* let alone from when it was stopped until it is started.                 *)
NothingGiven ==
  pc \notin {"drive", "panic"} =>
    ci = {} /\ \A c \in Callers : call[c].at \in {"rest", "slot"}
Stopped == pc \in {"layout", "start"} => ~engine.st /\ ~engine.fre

(* A packet on its way is one, and has the slot it was given.              *)
OnItsWay(c) ==
  /\ call[c].at # "rest" => call[c].packet \in Packets
  /\ call[c].at \in {"table", "ready", "wait"} => call[c].slot \in 0 .. (Slots - 1)

(* What Build wrote in a slot's table is there until the command is over.  *)
WrittenFor(c) ==
  LET p == call[c].packet  s == call[c].slot
  IN /\ tables[FisCell(s)] = Fis(c, p)
     /\ \A k \in Filled(p) : tables[PrdCell(s, k)] = Prd(c, p, k)

(* The one command at work is the caller's.                                *)
TablesHold ==
  \A c \in Callers :
    /\ OnItsWay(c)
    /\ call[c].at \in {"ready", "wait"} => WrittenFor(c)
    /\ call[c].at = "wait" => ci \subseteq {call[c].slot}
    /\ call[c].at # "wait" => ci = {}

CallsInOrder == call \in [Callers -> [at : {"rest", "slot", "table", "ready", "wait"},
                                      packet : Packets \cup {NoCall},
                                      slot : 0 .. (Slots - 1) \cup {None}]]

IInv == TypeOK /\ CallsInOrder /\ LaidOutInPeace /\ NothingGiven /\ Stopped /\ TablesHold

(* The devices the iterator found, until one is chosen.                    *)
DevicesFound == /\ machine \in Machines
                /\ pc = "select" => \A b \in Buses : devices[b] \in LastOn(b)
-----------------------------------------------------------------------------
(* A set of numbers has a least one, and a bounded one has a greatest.     *)
LEMMA LeastOne == ASSUME NEW S \in SUBSET Nat, S # {}
                  PROVE Min(S) \in S /\ \A y \in S : Min(S) <= y
<1>1. \E x \in S : \A y \in S : ~ (<<y, x>> \in OpToRel(<, Nat))
  BY NatLessThanWellFounded, WFMin
<1>2. \A x \in S, y \in S : <<y, x>> \in OpToRel(<, Nat) <=> y < x
  BY DEF OpToRel
<1>3. \E x \in S : \A y \in S : x <= y
  <2>1. PICK x \in S : \A y \in S : ~ (<<y, x>> \in OpToRel(<, Nat))
    BY <1>1
  <2>2. \A y \in S : ~ (y < x)
    BY <1>2, <2>1
  <2>3. \A y \in S : x <= y
    BY <2>2
  <2> QED
    BY <2>3
<1> QED
  BY <1>3 DEF Min

LEMMA GreatestOne == ASSUME NEW n \in Nat, NEW S \in SUBSET (0 .. n), S # {}
                     PROVE Max(S) \in S
<1> DEFINE T == {n - x : x \in S}
<1>1. T \in SUBSET Nat /\ T # {}
  <2>1. \A x \in S : n - x \in Nat
    OBVIOUS
  <2> QED
    BY <2>1
<1>2. PICK y \in T : \A z \in T : y <= z
  BY <1>1, LeastOne
<1>3. PICK x \in S : y = n - x
  BY <1>2
<1>4. \A z \in S : x >= z
  <2> TAKE z \in S
  <2>1. n - x <= n - z
    BY <1>2, <1>3
  <2> QED
    BY <2>1
<1> QED
  BY <1>4 DEF Max
-----------------------------------------------------------------------------
(* Where a storage controller answers, there is a function.                *)
LEMMA AnswersAtFunctions ==
  ASSUME machine \in Machines, NEW f, Storage(f) PROVE f \in Functions
BY AhciAssumption DEF Storage, Answers

(* What the iterator keeps of a bus is one of those it found there.        *)
LEMMA LastIsFound == ASSUME NEW b \in Buses, Found(b) # {} PROVE Max(Found(b)) \in Found(b)
<1> DEFINE there == Found(b)
<1>1. there \in SUBSET (0 .. DeviceField) /\ there # {} /\ DeviceField \in Nat
  BY AhciAssumption DEF Found
<1> HIDE DEF there
<1>2. Max(there) \in there
  BY <1>1, GreatestOne
<1> QED
  BY <1>2 DEF there

LEMMA KeptIsStorage == ASSUME NEW b \in Buses, NEW f, Kept(b, f) PROVE Storage(f)
BY LastIsFound DEF Kept, Found

(* The iterator's entry for the bus of the one controller is this one.     *)
LEMMA OneIsKept ==
  ASSUME machine \in Machines, NEW f \in Functions, Controllers = {f}
  PROVE \E b \in Buses : Found(b) # {} /\ LastOn(b) = {f}
<1>1. PICK b \in Buses, d \in 0 .. (DeviceField - 1) : f = <<b, d>>
  BY DEF Functions
<1>2. d \in Found(b)
  <2>1. d \in 0 .. DeviceField /\ d < DeviceField
    BY AhciAssumption
  <2>2. Target(b, d) = f
    BY <1>1, <2>1 DEF Target
  <2>3. Storage(f)
    BY DEF Controllers
  <2> QED
    BY <2>1, <2>2, <2>3 DEF Found
<1>3. Storage(Target(b, Max(Found(b))))
  BY <1>2, LastIsFound DEF Found
<1>4. Target(b, Max(Found(b))) = f
  BY <1>3, AnswersAtFunctions DEF Controllers
<1>5. LastOn(b) = {f}
  BY <1>2, <1>4 DEF LastOn
<1> QED
  BY <1>2, <1>5

LEMMA FoundInit == Init => DevicesFound /\ FindsDrive
BY DEF Init, DevicesFound, FindsDrive

(* A driver that read what was found goes to the one controller.           *)
LEMMA SelectFinds ==
  ASSUME DevicesFound, pc = "select", Select, sound',
         NEW f \in Functions, Controllers = {f}, Answers(f) = "ahci"
  PROVE pc' \notin {"none", "lost"}
<1>1. PICK seen \in [Buses -> Functions \cup {None}] :
        LET like == {b \in Buses : Answers(seen[b]) \in {"ahci", "lookalike"}}
            first == Min(like)
        IN /\ \/ like = {} /\ pc' = "none"
              \/ like # {} /\ Answers(seen[first]) = "ahci" /\ pc' = "ports"
              \/ like # {} /\ pc' = "lost"
                 /\ (Answers(seen[first]) # "ahci" \/ ~Kept(first, seen[first]))
           /\ sound' = /\ \A b \in Buses : Found(b) # {} => seen[b] = devices[b]
                       /\ \A b \in like : Kept(b, seen[b])
  BY DEF Select
<1> DEFINE like == {b \in Buses : Answers(seen[b]) \in {"ahci", "lookalike"}}
<1>2. /\ \A b \in Buses : Found(b) # {} => seen[b] = devices[b]
      /\ \A b \in like : Kept(b, seen[b])
  BY <1>1
<1>3. PICK b \in Buses : Found(b) # {} /\ LastOn(b) = {f}
  BY OneIsKept DEF DevicesFound
<1>4. b \in like
  BY <1>2, <1>3 DEF DevicesFound
<1>5. Min(like) \in like
  <2>1. like \in SUBSET Nat /\ like # {}
    <3>1. \A n \in Int : \A x \in 0 .. n : x \in Nat
      OBVIOUS
    <3>2. \A x \in Buses : x \in Nat
      <4>1. Buses = 0 .. (Cardinality(Buses) - 1) /\ IsFiniteSet(Buses)
        BY AhciAssumption
      <4>2. Cardinality(Buses) \in Nat
        BY <4>1, FS_CardinalityType
      <4> QED
        BY <3>1, <4>1, <4>2
    <3> QED
      BY <1>4, <3>2
  <2> HIDE DEF like
  <2> QED
    BY <2>1, LeastOne
<1>6. PICK first \in Buses : first = Min(like) /\ Kept(first, seen[first])
  BY <1>2, <1>5
<1>7. seen[first] = f
  <2>1. Storage(seen[first])
    BY <1>6, KeptIsStorage
  <2>2. seen[first] \in Controllers
    BY <2>1, AnswersAtFunctions DEF Controllers, DevicesFound
  <2> QED
    BY <2>2
<1> QED
  BY <1>1, <1>4, <1>6, <1>7

LEMMA FoundInductive == DevicesFound /\ FindsDrive /\ [Next]_vars => (DevicesFound /\ FindsDrive)'
<1> SUFFICES ASSUME DevicesFound, FindsDrive, [Next]_vars
             PROVE (DevicesFound /\ FindsDrive)'
  OBVIOUS
<1>1. machine' = machine
  BY DEF Next, Mount, Transfer, Device, Probe, Select, ChoosePort, StopEngine, LayOut,
         StartEngine, FindSlot, Build, Issue, EndCall, Panic, Follow, Move, Complete,
         Call, Fault, PowerLoss, Ask, bios, vars
<1>2. pc' = "select" => Probe \/ UNCHANGED <<pc, devices>>
  BY DEF Next, Mount, Transfer, Device, Probe, Select, ChoosePort, StopEngine, LayOut,
         StartEngine, FindSlot, Build, Issue, EndCall, Panic, Follow, Move, Complete,
         Call, Fault, PowerLoss, Ask, bios, vars
<1>3. pc' \in {"none", "lost"} =>
        \/ Select \/ ChoosePort \/ UNCHANGED <<pc, sound>>
        \/ pc = "none" /\ UNCHANGED sound
  BY DEF Next, Mount, Transfer, Device, Probe, Select, ChoosePort, StopEngine, LayOut,
         StartEngine, FindSlot, Build, Issue, EndCall, Panic, Follow, Move, Complete,
         Call, Fault, PowerLoss, Ask, bios, vars
<1>4. DevicesFound'
  BY <1>1, <1>2 DEF DevicesFound, Probe, LastOn, Found, Storage, Answers
<1>5. FindsDrive'
  <2> SUFFICES ASSUME pc' \in {"none", "lost"}, sound', machine.firmware # "off", ~machine.neighbour,
                      NEW f \in Functions, Controllers = {f}, Answers(f) = "ahci",
                      NEW n \in DOMAIN machine.ports, machine.ports[n] = "sata"
               PROVE FALSE
    BY <1>1 DEF FindsDrive, Controllers, Storage, Answers
  <2>1. CASE Select
    BY <2>1, SelectFinds DEF Select
  <2>2. CASE ChoosePort
    BY <2>2 DEF ChoosePort
  <2>3. CASE pc \in {"none", "lost"} /\ UNCHANGED sound
    BY <2>3 DEF FindsDrive
  <2> QED
    BY <1>3, <2>1, <2>2, <2>3
<1> QED
  BY <1>4, <1>5

(* A machine whose one storage controller is AHCI, with a disk, gets it on *)
(* whichever bus and as whichever device it answers: the last device       *)
(* number, which is another bus's, does not hide it (Iterator.cc:11-31).   *)
(* That the driver reads what the iterator found, and that the firmware    *)
(* has switched the controller on, is FindsDrive's premise.                *)
THEOREM DriveIsFound == Spec => []FindsDrive
<1>1. Spec => [](DevicesFound /\ FindsDrive)
  BY FoundInit, FoundInductive, PTL DEF Spec
<1> QED
  BY <1>1, PTL
-----------------------------------------------------------------------------
(* Every packet has a size, and its list a number of entries.              *)
LEMMA PacketSizes ==
  ASSUME NEW p \in Packets
  PROVE /\ Bytes(p) \in Nat \ {0} /\ Entries(p) \in Nat \ {0}
        /\ Filled(p) \subseteq Nat
        /\ p.op \in {"read", "write"} => p.at \in Places
        /\ p.op = "write" => p.value \in Values
<1>1. p.op = "identify" \/ (p.at \in Places /\ (p.op = "write" => p.value \in Values))
  BY DEF Packets, Identify, Read, Write
<1>2. Bytes(p) \in Nat \ {0}
  BY <1>1, AhciAssumption DEF Bytes
<1>3. Entries(p) \in Nat \ {0}
  <2>1. \A m \in Nat \ {0}, n \in Nat \ {0} : (n - 1) \div m + 1 \in Nat \ {0}
    OBVIOUS
  <2>2. Step \in Nat \ {0}
    BY AhciAssumption
  <2> QED
    BY <1>2, <2>1, <2>2 DEF Entries
<1> QED
  BY <1>1, <1>2, <1>3 DEF Filled

(* An entry that was filled in has a byte at least.                        *)
LEMMA FilledBytesLeft ==
  ASSUME NEW p \in Packets, NEW k \in Filled(p) PROVE Bytes(p) - Step * k \in Nat
<1>1. Bytes(p) \in Nat \ {0} /\ Step \in Nat \ {0}
  BY PacketSizes, AhciAssumption
<1>2. \A m \in Nat, n \in Nat \ {0} : n * (m \div n) <= m
  OBVIOUS
<1>3. PICK n \in Int : n = (Bytes(p) - 1) \div Step
  BY <1>1
<1>4. Step * n <= Bytes(p) - 1
  BY <1>1, <1>2, <1>3
<1>5. k \in Nat /\ k <= n
  BY <1>3 DEF Filled, Entries
<1>6. Step * k <= Step * n
  <2>1. n - k \in Nat
    BY <1>5
  <2>2. Step * (n - k) \in Nat
    BY <1>1, <2>1
  <2>3. Step * (n - k) = Step * n - Step * k
    BY <1>1, <1>5
  <2>4. Step * n \in Int /\ Step * k \in Int
    BY <1>1, <1>5
  <2> QED
    BY <2>2, <2>3, <2>4
<1>7. Step * n \in Int /\ Step * k \in Int
  BY <1>1, <1>5
<1> QED
  BY <1>1, <1>4, <1>6, <1>7

(* The sectors that a packet's own entries are enough for.                 *)
Sure(p) == Least(Asked(p), (FilledBytes(p) + SectorSz - 1) \div SectorSz)

(* The tables' cells stay cells.                                           *)
TablesTyped == \A c \in Cells : /\ tables[c].kind \in {"none", "zero", "fis", "prd"}
                                /\ tables[c].packet \in Packets \cup {NoCall}
                                /\ tables[c].bytes \in Nat

LEMMA SureTyped == ASSUME NEW p \in Packets PROVE Sure(p) \in Int
<1>1. SectorSz \in Nat \ {0} /\ Step \in Nat \ {0}
  BY AhciAssumption
<1>2. PICK n \in Int : n = Entries(p) - 1
  BY PacketSizes
<1>3. (n * (n - 1)) \div 2 \in Int
  BY <1>2
<1>4. Bytes(p) \in Int
  BY PacketSizes
<1>5. n * Bytes(p) - Step * ((n * (n - 1)) \div 2) \in Int
  BY <1>1, <1>2, <1>3, <1>4
<1>6. PICK b \in Int : b = FilledBytes(p)
  BY <1>2, <1>5 DEF FilledBytes
<1>7. (b + SectorSz - 1) \div SectorSz \in Int
  BY <1>1, <1>6
<1>8. Asked(p) \in Int
  BY <1>1 DEF Asked
<1> QED
  BY <1>6, <1>7, <1>8 DEF Sure, Least

(* A command moves those at least, and no more sectors than it asks for,   *)
(* whatever stands in the entry that nobody wrote.                         *)
LEMMA MovesTyped ==
  ASSUME TablesTyped, NEW s \in 0 .. (Slots - 1), NEW p \in Packets, Command(s) = p
  PROVE Moves(s) \in Int /\ Moves(s) <= SectorSz /\ Sure(p) \in Int /\ Sure(p) <= Moves(s)
<1>1. SectorSz \in Nat \ {0} /\ Step \in Nat \ {0}
  BY AhciAssumption
<1>2. FilledBytes(p) \in Int
  <2>1. PICK n \in Int : n = Entries(p) - 1
    BY PacketSizes
  <2>2. (n * (n - 1)) \div 2 \in Int
    BY <2>1
  <2>3. Bytes(p) \in Int
    BY PacketSizes
  <2>4. n * Bytes(p) - Step * ((n * (n - 1)) \div 2) \in Int
    BY <1>1, <2>1, <2>2, <2>3
  <2> QED
    BY <2>1, <2>4 DEF FilledBytes
<1>3. PICK last : last = tables[PrdCell(s, Entries(p) - 1)].bytes
  OBVIOUS
<1>4. last \in Nat
  <2>1. Entries(p) - 1 \in 0 .. (Entries(p) - 1)
    BY PacketSizes
  <2>2. PrdCell(s, Entries(p) - 1) \in Cells
    BY <2>1 DEF Cells
  <2> QED
    BY <1>3, <2>2 DEF TablesTyped
<1>5. PICK b \in Int : b = FilledBytes(p)
  BY <1>2
<1>6. Held(s) = (b + last + SectorSz - 1) \div SectorSz
  BY <1>3, <1>5 DEF Held
<1>7. (b + SectorSz - 1) \div SectorSz \in Int /\ Held(s) \in Int
  BY <1>1, <1>4, <1>5, <1>6
<1>8. (b + SectorSz - 1) \div SectorSz <= Held(s)
  <2>1. \A x \in Int, y \in Nat, m \in Nat \ {0} : (x + m - 1) \div m <= (x + y + m - 1) \div m
    OBVIOUS
  <2> QED
    BY <1>1, <1>4, <1>5, <1>6, <2>1
<1>9. Asked(p) \in Int /\ Asked(p) <= SectorSz
  BY <1>1 DEF Asked
<1> QED
  BY <1>1, <1>5, <1>7, <1>8, <1>9 DEF Moves, Sure, Least

(* The one command at work moves what its caller's packet does.            *)
LEMMA CommandMoves ==
  ASSUME IInv, NEW s \in 0 .. (Slots - 1), NEW p \in Packets, Command(s) = p
  PROVE /\ Moves(s) \in Int /\ Moves(s) <= SectorSz
        /\ Sure(p) \in Int /\ Sure(p) <= Moves(s)
<1>1. TablesTyped
  BY DEF IInv, TypeOK, TablesTyped
<1> QED
  BY <1>1, MovesTyped

LEMMA MovesWithin ==
  ASSUME IInv, NEW s \in 0 .. (Slots - 1), Command(s) \in Packets, NEW n \in Nat, n < Moves(s)
  PROVE n < SectorSz
<1>1. SectorSz \in Nat
  BY AhciAssumption
<1>2. Moves(s) \in Int /\ Moves(s) <= SectorSz
  BY CommandMoves
<1> QED
  BY <1>1, <1>2

(* A packet that is sure to move a sector has a first entry.               *)
LEMMA FilledWhereSure ==
  ASSUME NEW p \in Packets, Sure(p) > 0 PROVE 0 \in Filled(p)
<1> SUFFICES ASSUME 0 \notin Filled(p) PROVE FALSE
  OBVIOUS
<1>1. Entries(p) \in Nat \ {0} /\ Bytes(p) \in Nat \ {0} /\ Step \in Nat \ {0} /\ SectorSz \in Nat \ {0}
  BY PacketSizes, AhciAssumption
<1>2. Entries(p) - 1 = 0
  BY <1>1 DEF Filled
<1>3. (0 * Bytes(p) - Step * ((0 * (0 - 1)) \div 2) + SectorSz - 1) \div SectorSz = 0
  BY <1>1
<1>4. (FilledBytes(p) + SectorSz - 1) \div SectorSz = 0
  BY <1>2, <1>3 DEF FilledBytes
<1>5. Asked(p) \in Nat
  BY <1>1 DEF Asked
<1> QED
  BY <1>4, <1>5 DEF Sure, Least

(* The cells of the tables, and of the lists that go on behind them.       *)
LEMMA CellsOfSlots ==
  ASSUME NEW s \in 0 .. (Slots - 1), NEW p \in Packets
  PROVE /\ FisCell(s) \in Cells
        /\ \A k \in Filled(p) : /\ PrdCell(s, k) \in Cells
                                /\ PrdCell(s, k) - PrdCell(s, 0) = k
                                /\ PrdCell(s, k) # FisCell(s)
<1>1. TableSize \in Nat \ {0} /\ Slots \in Nat \ {0} /\ Header \in Nat \ {0}
  BY AhciAssumption DEF TableSize
<1>2. s * TableSize \in 0 .. (Slots * TableSize - 1)
  <2>1. (Slots - 1 - s) * TableSize >= 0
    BY <1>1
  <2>2. (Slots - 1 - s) * TableSize = Slots * TableSize - TableSize - s * TableSize
    BY <1>1
  <2>3. s * TableSize \in Nat /\ Slots * TableSize \in Nat
    BY <1>1
  <2> QED
    BY <1>1, <2>1, <2>2, <2>3
<1>3. \A k \in Filled(p) : PrdCell(s, k) \in Cells
  <2>1. \A k \in Filled(p) : k \in 0 .. (Entries(p) - 1)
    BY PacketSizes DEF Filled
  <2> QED
    BY <2>1 DEF Cells
<1>4. \A k \in Filled(p) : k \in Nat
  BY PacketSizes
<1> QED
  BY <1>1, <1>2, <1>3, <1>4 DEF Cells, FisCell, PrdCell

(* While the one caller has a command at work, it is in its slot.          *)
LEMMA AtWork ==
  ASSUME Alone, IInv, NEW s \in ci
  PROVE \E c \in Callers : /\ call[c].at = "wait" /\ call[c].slot = s
                           /\ Command(s) = call[c].packet /\ Command(s) \in Packets
<1>1. PICK c \in Callers : Callers = {c}
  BY DEF Alone
<1>2. call[c].at = "wait" /\ call[c].slot = s /\ call[c].packet \in Packets
  BY DEF IInv, TablesHold, OnItsWay
<1>3. WrittenFor(c)
  BY <1>2 DEF IInv, TablesHold
<1>4. Command(s) = call[c].packet
  BY <1>2, <1>3 DEF WrittenFor, Command, Fis
<1> QED
  BY <1>2, <1>4
-----------------------------------------------------------------------------
(* The invariant holds at first.                                           *)
LEMMA EngineTyped == machine \in Machines => Engine \in HbaPort
BY AhciAssumption DEF Engine, HbaPort

LEMMA InitInvariant == Init => IInv
<1> SUFFICES ASSUME Init PROVE IInv
  OBVIOUS
<1> USE AhciAssumption DEF Init
<1>1. TypeOK
  <2>1. devices \in [Buses -> Functions \cup {None}]
    BY DEF NoDevices
  <2>2. engine \in HbaPort
    BY EngineTyped
  <2>3. \A c \in Cells : /\ tables[c].kind = "none" /\ tables[c].packet = NoCall
                         /\ tables[c].bytes \in Nat
    BY DEF NoTables, Zero
  <2>4. buf \in [Callers -> [0 .. (SectorSz - 1) -> Sector]]
    BY DEF NoBuffers, NoBuffer, Sector
  <2>5. medium \in [Sectors -> Sector]
    BY DEF Sector
  <2>6. \A c \in Callers : call[c] = Rest
    BY DEF AllRest
  <2>7. \A c \in Callers : /\ call[c].at = "rest" /\ call[c].packet = NoCall
                           /\ call[c].slot = None
    BY <2>6 DEF Rest
  <2>8. /\ machine \in Machines /\ pc = "probe" /\ port = None /\ ci = {} /\ pending = FALSE
        /\ at \in 0 .. SectorSz /\ halted = FALSE /\ sound = FALSE
        /\ faults \in 0 .. MaxFaults /\ losses \in 0 .. MaxLosses
    OBVIOUS
  <2> HIDE AhciAssumption DEF Init
  <2> QED
    BY <2>1, <2>2, <2>3, <2>4, <2>5, <2>7, <2>8 DEF TypeOK
<1>2. CallsInOrder
  BY DEF CallsInOrder, AllRest, Rest
<1>3. LaidOutInPeace /\ NothingGiven /\ Stopped
  BY DEF LaidOutInPeace, NothingGiven, Stopped, AllRest, Rest
<1>4. TablesHold
  BY DEF TablesHold, OnItsWay, AllRest, Rest
<1> QED
  BY <1>1, <1>2, <1>3, <1>4 DEF IInv

(* The port is let alone between its stop and its start.                   *)
LEMMA PeaceInductive ==
  TypeOK /\ CallsInOrder /\ LaidOutInPeace /\ NothingGiven /\ Stopped /\ [Next]_vars
    => (LaidOutInPeace /\ NothingGiven /\ Stopped)'
<1> SUFFICES ASSUME TypeOK, CallsInOrder, LaidOutInPeace, NothingGiven, Stopped, [Next]_vars
             PROVE (LaidOutInPeace /\ NothingGiven /\ Stopped)'
  OBVIOUS
<1> USE DEF LaidOutInPeace, NothingGiven, Stopped
<1>1. CASE Mount
  BY <1>1 DEF Mount, Probe, Select, ChoosePort, StopEngine, LayOut, StartEngine, TypeOK, HbaPort
<1>2. CASE Transfer
  BY <1>2 DEF Transfer, FindSlot, Build, Issue, EndCall, Panic
<1>3. CASE Follow
  BY <1>3 DEF Follow, TypeOK, HbaPort
<1>4. ASSUME NEW s \in 0 .. (Slots - 1), Move(s) \/ Complete(s) \/ Fault(s)
      PROVE (LaidOutInPeace /\ NothingGiven /\ Stopped)'
  BY <1>4 DEF Move, Complete, Fault, Working
<1>5. ASSUME NEW c \in Callers, Call(c) PROVE (LaidOutInPeace /\ NothingGiven /\ Stopped)'
  <2>1. PICK p \in Packets : call' = [call EXCEPT ![c] = [Rest EXCEPT !.at = "slot", !.packet = p]]
    BY <1>5 DEF Call
  <2>2. call'[c].at = "slot" /\ \A d \in Callers \ {c} : call'[d] = call[d]
    BY <2>1 DEF CallsInOrder, Rest
  <2>3. pc \in {"drive", "none"} /\ pc' = (IF pc = "none" THEN "lost" ELSE pc)
        /\ UNCHANGED <<engine, ci>>
    BY <1>5 DEF Call
  <2> QED
    BY <2>2, <2>3
<1>6. CASE PowerLoss
  BY <1>6 DEF PowerLoss, AllRest, Rest
<1>7. CASE Ask \/ UNCHANGED vars
  BY <1>7 DEF Ask, vars
<1> QED
  BY <1>1, <1>2, <1>3, <1>4, <1>5, <1>6, <1>7 DEF Next, Device

(* A packet on its way is one, with a slot.                                *)
LEMMA CallsInductive == CallsInOrder /\ [Next]_vars => CallsInOrder'
<1> SUFFICES ASSUME CallsInOrder, [Next]_vars PROVE CallsInOrder'
  OBVIOUS
<1> USE AhciAssumption DEF CallsInOrder
<1>1. Rest \in [at : {"rest", "slot", "table", "ready", "wait"}, packet : Packets \cup {NoCall},
                slot : 0 .. (Slots - 1) \cup {None}]
  BY DEF Rest
<1>2. Identify \in Packets
  BY DEF Packets
<1>3. CASE Mount
  <2>1. CASE StartEngine
    <3>1. PICK c \in Callers :
            call' = [call EXCEPT ![c] = [Rest EXCEPT !.at = "slot", !.packet = Identify]]
      BY <2>1 DEF StartEngine
    <3>2. [Rest EXCEPT !.at = "slot", !.packet = Identify]
            \in [at : {"rest", "slot", "table", "ready", "wait"}, packet : Packets \cup {NoCall},
                slot : 0 .. (Slots - 1) \cup {None}]
      BY <1>2 DEF Rest
    <3> QED
      BY <3>1, <3>2
  <2> QED
    BY <1>3, <2>1 DEF Mount, Probe, Select, ChoosePort, StopEngine, LayOut
<1>4. ASSUME NEW c \in Callers, FindSlot(c) PROVE CallsInOrder'
  <2> DEFINE free == (0 .. (Slots - 1)) \ ci
  <2>1. CASE free = {}
    BY <1>1, <1>4, <2>1 DEF FindSlot
  <2>2. CASE free # {}
    <3>1. free \in SUBSET Nat /\ Min(free) \in free
      <4>1. free \in SUBSET Nat
        OBVIOUS
      <4> HIDE DEF free
      <4> QED
        BY <2>2, <4>1, LeastOne
    <3> QED
      BY <1>4, <2>2, <3>1 DEF FindSlot
  <2> QED
    BY <2>1, <2>2
<1>5. ASSUME NEW c \in Callers, Build(c) \/ Issue(c) \/ EndCall(c) \/ Panic(c) \/ Call(c)
      PROVE CallsInOrder'
  <2>1. CASE Build(c) \/ Issue(c)
    <3>1. PICK a \in {"ready", "wait"} : call' = [call EXCEPT ![c].at = a]
      BY <2>1 DEF Build, Issue
    <3> QED
      BY <3>1
  <2>2. CASE EndCall(c)
    BY <1>1, <2>2 DEF EndCall
  <2>3. CASE Panic(c)
    BY <2>3 DEF Panic
  <2>4. CASE Call(c)
    <3>1. PICK p \in Packets : call' = [call EXCEPT ![c] = [Rest EXCEPT !.at = "slot", !.packet = p]]
      BY <2>4 DEF Call
    <3>2. [Rest EXCEPT !.at = "slot", !.packet = p]
            \in [at : {"rest", "slot", "table", "ready", "wait"}, packet : Packets \cup {NoCall},
                slot : 0 .. (Slots - 1) \cup {None}]
      BY DEF Rest
    <3> QED
      BY <3>1, <3>2
  <2> QED
    BY <1>5, <2>1, <2>2, <2>3, <2>4
<1>6. CASE PowerLoss
  BY <1>1, <1>6 DEF PowerLoss, AllRest
<1>7. CASE UNCHANGED call
  BY <1>7
<1>8. Device \/ (\E s \in 0 .. (Slots - 1) : Fault(s)) \/ Ask \/ UNCHANGED vars => UNCHANGED call
  BY DEF Device, Follow, Move, Complete, Fault, Ask, vars
<1> QED
  BY <1>3, <1>4, <1>5, <1>6, <1>7, <1>8 DEF Next, Transfer
-----------------------------------------------------------------------------
(* The tables' cells stay cells.                                           *)
LEMMA TablesInductive == TablesTyped /\ CallsInOrder /\ TablesHold /\ [Next]_vars => TablesTyped'
<1> SUFFICES ASSUME TablesTyped, CallsInOrder, TablesHold, [Next]_vars PROVE TablesTyped'
  OBVIOUS
<1>1. CASE LayOut
  BY <1>1 DEF LayOut, TablesTyped, Zero
<1>2. ASSUME NEW c \in Callers, Build(c) PROVE TablesTyped'
  <2> DEFINE s == call[c].slot  p == call[c].packet
  <2>1. p \in Packets
    BY <1>2 DEF Build, TablesHold, OnItsWay
  <2>2. Fis(c, p).kind = "fis" /\ Fis(c, p).packet = p /\ Fis(c, p).bytes \in Nat
    BY AhciAssumption DEF Fis
  <2>3. \A k \in Filled(p) : /\ Prd(c, p, k).kind = "prd" /\ Prd(c, p, k).packet = NoCall
                             /\ Prd(c, p, k).bytes \in Nat
    BY <2>1, FilledBytesLeft DEF Prd
  <2>4. \A cell \in Cells : \/ tables'[cell] = Fis(c, p) \/ tables'[cell] = tables[cell]
                            \/ \E k \in Filled(p) : tables'[cell] = Prd(c, p, k)
    <3>1. s \in 0 .. (Slots - 1)
      BY <1>2 DEF Build, TablesHold, OnItsWay
    <3>2. \A k \in Filled(p) : PrdCell(s, k) - PrdCell(s, 0) = k
      BY <2>1, <3>1, CellsOfSlots
    <3> QED
      BY <1>2, <3>2 DEF Build
  <2> QED
    BY <2>1, <2>2, <2>3, <2>4 DEF TablesTyped
<1>3. CASE PowerLoss
  BY <1>3 DEF PowerLoss, NoTables, TablesTyped, Zero
<1>4. CASE UNCHANGED tables
  BY <1>4 DEF TablesTyped
<1>5. LayOut \/ (\E c \in Callers : Build(c)) \/ PowerLoss \/ UNCHANGED tables
  BY DEF Next, Mount, Transfer, Device, Probe, Select, ChoosePort, StopEngine, StartEngine,
         FindSlot, Issue, EndCall, Panic, Follow, Move, Complete, Call, Fault, Ask, vars
<1> QED
  BY <1>1, <1>2, <1>3, <1>4, <1>5

(* The disk's sectors and the buffers stay what they are, and no command   *)
(* moves more than a buffer's sectors.                                     *)
DataTyped == /\ at \in 0 .. SectorSz
             /\ medium \in [Sectors -> Sector]
             /\ buf \in [Callers -> [0 .. (SectorSz - 1) -> Sector]]

LEMMA DataInductive == Alone /\ IInv /\ [Next]_vars => DataTyped'
<1> SUFFICES ASSUME Alone, IInv, [Next]_vars PROVE DataTyped'
  OBVIOUS
<1>1. DataTyped
  BY DEF IInv, TypeOK, DataTyped
<1>2. NoBuffer \in [0 .. (SectorSz - 1) -> Sector] /\ SectorSz \in Nat \ {0}
  BY AhciAssumption DEF NoBuffer, Sector
<1>3. ASSUME NEW s \in 0 .. (Slots - 1), Move(s) PROVE DataTyped'
  <2> DEFINE p == Command(s)
  <2>1. p \in Packets
    BY <1>3, AtWork DEF Move, Working
  <2>2. at \in 0 .. (SectorSz - 1) /\ at' = at + 1
    BY <1>1, <1>2, <1>3, <2>1, MovesWithin DEF Move, DataTyped
  <2>3. at' \in 0 .. SectorSz
    BY <1>2, <2>2
  <2>4. p.op \in {"read", "write"} => p.at \in Places /\ Lba(p.at) + at \in Sectors
    <3>1. at \in 0 .. SectorSz
      BY <1>1 DEF DataTyped
    <3>2. \A q \in Places : Address[q] + at \in Sectors
      BY <3>1 DEF Sectors
    <3> QED
      BY <2>1, <3>2, PacketSizes DEF Lba
  <2>5. CASE p.op = "write"
    <3>1. p.value \in Values
      BY <2>1, <2>5, PacketSizes
    <3>2. <<p.value, at>> \in Sector
      BY <1>1, <3>1 DEF Sector, DataTyped
    <3>3. medium' = [medium EXCEPT ![Lba(p.at) + at] = <<p.value, at>>] /\ UNCHANGED buf
      BY <1>3, <2>5 DEF Move
    <3> QED
      BY <1>1, <2>3, <3>2, <3>3 DEF DataTyped
  <2>6. CASE p.op = "read"
    <3>1. buf' = [buf EXCEPT ![Buffer(s)][at] = medium[Lba(p.at) + at]] /\ UNCHANGED medium
      BY <1>3, <2>6 DEF Move
    <3>2. medium[Lba(p.at) + at] \in Sector
      BY <1>1, <2>4, <2>6 DEF DataTyped
    <3>3. buf' \in [Callers -> [0 .. (SectorSz - 1) -> Sector]]
      BY <1>1, <3>1, <3>2 DEF DataTyped
    <3> QED
      BY <1>1, <2>3, <3>1, <3>3 DEF DataTyped
  <2>7. CASE p.op \notin {"read", "write"}
    BY <1>1, <1>3, <2>3, <2>7 DEF Move, DataTyped
  <2> QED
    BY <2>5, <2>6, <2>7
<1>4. ASSUME NEW c \in Callers, EndCall(c) PROVE DataTyped'
  BY <1>1, <1>2, <1>4 DEF EndCall, DataTyped
<1>5. ASSUME NEW s \in 0 .. (Slots - 1), Complete(s) \/ Fault(s) PROVE DataTyped'
  BY <1>1, <1>2, <1>5 DEF Complete, Fault, DataTyped
<1>6. CASE PowerLoss
  BY <1>1, <1>2, <1>6 DEF PowerLoss, NoBuffers, DataTyped
<1>7. CASE UNCHANGED device
  BY <1>1, <1>7 DEF device, DataTyped
<1>8. \/ \E s \in 0 .. (Slots - 1) : Move(s) \/ Complete(s) \/ Fault(s)
      \/ \E c \in Callers : EndCall(c)
      \/ PowerLoss \/ UNCHANGED device
  BY DEF Next, Mount, Transfer, Device, Probe, Select, ChoosePort, StopEngine, LayOut,
         StartEngine, FindSlot, Build, Issue, Panic, Follow, Call, Ask, vars, device
<1> QED
  BY <1>3, <1>4, <1>5, <1>6, <1>7, <1>8

(* The port chosen is one of the machine's, and the other registers stay   *)
(* what they are.                                                          *)
PortTyped == /\ machine \in Machines
             /\ devices \in [Buses -> Functions \cup {None}]
             /\ sound \in BOOLEAN
             /\ pc \in {"probe", "select", "ports", "stop", "layout", "start", "drive",
                        "none", "lost", "panic"}
             /\ port \in DOMAIN machine.ports \cup {None}
             /\ engine \in HbaPort
             /\ ci \subseteq 0 .. (Slots - 1)
             /\ pending \in BOOLEAN /\ halted \in BOOLEAN
             /\ faults \in 0 .. MaxFaults /\ losses \in 0 .. MaxLosses

LEMMA PortInductive == PortTyped /\ CallsInOrder /\ TablesHold /\ [Next]_vars => PortTyped'
<1> SUFFICES ASSUME PortTyped, CallsInOrder, TablesHold, [Next]_vars PROVE PortTyped'
  OBVIOUS
<1> USE DEF PortTyped, bios
<1>1. MaxFaults \in Nat /\ MaxLosses \in Nat /\ \A m \in Machines : m.interrupts \in BOOLEAN
  BY AhciAssumption
<1>2. CASE Probe \/ StopEngine \/ LayOut \/ StartEngine \/ Follow
  BY <1>2 DEF Probe, StopEngine, LayOut, StartEngine, Follow, HbaPort
<1>9. CASE Select
  BY <1>9 DEF Select, NoDevices
<1>3. CASE ChoosePort
  <2> DEFINE disks == IF machine.firmware = "off" THEN {}
                      ELSE {n \in DOMAIN machine.ports : machine.ports[n] = "sata"}
  <2>1. CASE disks = {}
    BY <1>3, <2>1 DEF ChoosePort
  <2>2. CASE disks # {}
    <3>1. disks \in SUBSET Nat
      <4>1. PICK n : machine.ports \in [0 .. n -> Disks]
        BY AhciAssumption
      <4>2. \A k \in 0 .. n : k \in Nat
        OBVIOUS
      <4> QED
        BY <4>1, <4>2
    <3>2. Min(disks) \in disks
      <4> HIDE DEF disks
      <4> QED
        BY <2>2, <3>1, LeastOne
    <3> QED
      BY <1>3, <2>2, <3>2 DEF ChoosePort
  <2> QED
    BY <2>1, <2>2
<1>4. ASSUME NEW c \in Callers, Issue(c) PROVE PortTyped'
  <2>1. call[c].slot \in 0 .. (Slots - 1)
    BY <1>4 DEF Issue, TablesHold, OnItsWay
  <2> QED
    BY <1>4, <2>1 DEF Issue
<1>5. ASSUME NEW c \in Callers, FindSlot(c) \/ Build(c) \/ EndCall(c) \/ Panic(c) \/ Call(c)
      PROVE PortTyped'
  BY <1>5 DEF FindSlot, Build, EndCall, Panic, Call
<1>6. ASSUME NEW s \in 0 .. (Slots - 1), Move(s) \/ Complete(s) \/ Fault(s) PROVE PortTyped'
  <2>1. pending' \in BOOLEAN
    BY <1>1, <1>6 DEF Move, Complete, Fault, Interrupt
  <2>2. ci' \subseteq ci
    BY <1>6 DEF Move, Complete, Fault
  <2>3. halted' \in BOOLEAN
    BY <1>6 DEF Move, Complete, Fault
  <2>4. faults' \in 0 .. MaxFaults
    BY <1>1, <1>6 DEF Move, Complete, Fault
  <2>5. UNCHANGED <<machine, devices, sound, pc, port, engine, losses>>
    BY <1>6 DEF Move, Complete, Fault
  <2> QED
    BY <2>1, <2>2, <2>3, <2>4, <2>5
<1>7. CASE PowerLoss
  <2>1. devices' \in [Buses -> Functions \cup {None}] /\ engine' \in HbaPort
    BY <1>7, EngineTyped DEF PowerLoss, NoDevices
  <2>2. faults' \in 0 .. MaxFaults /\ losses' \in 0 .. MaxLosses
    BY <1>1, <1>7 DEF PowerLoss
  <2> QED
    BY <1>7, <2>1, <2>2 DEF PowerLoss
<1>8. CASE Ask \/ UNCHANGED vars
  BY <1>8 DEF Ask, vars
<1> QED
  BY <1>2, <1>3, <1>4, <1>5, <1>6, <1>7, <1>8, <1>9 DEF Next, Mount, Transfer, Device
-----------------------------------------------------------------------------
(* The caller's command stays what it wrote, in its slot alone.            *)
LEMMA HoldInductive == Alone /\ IInv /\ [Next]_vars => TablesHold'
<1> SUFFICES ASSUME Alone, IInv, [Next]_vars PROVE TablesHold'
  OBVIOUS
<1>1. PICK c \in Callers : Callers = {c}
  BY DEF Alone
<1>2. /\ OnItsWay(c)
      /\ call[c].at \in {"ready", "wait"} => WrittenFor(c)
      /\ call[c].at = "wait" => ci \subseteq {call[c].slot}
      /\ call[c].at # "wait" => ci = {}
  BY DEF IInv, TablesHold
<1>3. c \in DOMAIN call
  BY DEF IInv, CallsInOrder
<1> SUFFICES /\ OnItsWay(c)'
             /\ call'[c].at \in {"ready", "wait"} => WrittenFor(c)'
             /\ call'[c].at = "wait" => ci' \subseteq {call'[c].slot}
             /\ call'[c].at # "wait" => ci' = {}
  BY <1>1 DEF TablesHold
<1> DEFINE Hold == /\ OnItsWay(c)
                   /\ call[c].at \in {"ready", "wait"} => WrittenFor(c)
                   /\ call[c].at = "wait" => ci \subseteq {call[c].slot}
                   /\ call[c].at # "wait" => ci = {}
<1>4. ASSUME call'[c] = Rest, UNCHANGED ci PROVE ci = {} => Hold'
  BY <1>4 DEF Rest, OnItsWay
<1>5. ASSUME NEW p \in Packets, call' = [call EXCEPT ![c] = [Rest EXCEPT !.at = "slot", !.packet = p]],
             UNCHANGED ci, ci = {}
      PROVE Hold'
  BY <1>3, <1>5 DEF Rest, OnItsWay
<1>6. CASE StartEngine
  <2>1. ci = {}
    BY <1>6 DEF StartEngine, IInv, NothingGiven
  <2>2. Identify \in Packets
    BY DEF Packets
  <2>3. call' = [call EXCEPT ![c] = [Rest EXCEPT !.at = "slot", !.packet = Identify]] /\ UNCHANGED ci
    BY <1>1, <1>6 DEF StartEngine
  <2> QED
    BY <1>5, <2>1, <2>2, <2>3
<1>7. CASE Call(c)
  <2>1. ci = {}
    BY <1>2, <1>7 DEF Call, Rest
  <2>2. PICK p \in Packets : call' = [call EXCEPT ![c] = [Rest EXCEPT !.at = "slot", !.packet = p]]
    BY <1>7 DEF Call
  <2> QED
    BY <1>5, <1>7, <2>1, <2>2 DEF Call
<1>8. CASE FindSlot(c)
  <2>1. ci = {} /\ UNCHANGED ci
    BY <1>2, <1>8 DEF FindSlot
  <2>2. CASE call'[c] = Rest
    BY <1>4, <2>1, <2>2
  <2>3. CASE call'[c] # Rest
    <3>1. call' = [call EXCEPT ![c] = [call[c] EXCEPT !.at = "table", !.slot = Min((0 .. (Slots - 1)) \ ci)]]
      BY <1>3, <1>8, <2>3 DEF FindSlot
    <3>2. (0 .. (Slots - 1)) \ ci # {} /\ (0 .. (Slots - 1)) \ ci \in SUBSET Nat
        <4>1. Slots \in Nat \ {0}
        BY AhciAssumption
      <4>2. 0 \in 0 .. (Slots - 1) /\ \A k \in 0 .. (Slots - 1) : k \in Nat
        BY <4>1
      <4> QED
        BY <2>1, <4>2
    <3>3. Min((0 .. (Slots - 1)) \ ci) \in 0 .. (Slots - 1)
      BY <3>2, LeastOne
    <3>4. call[c] \in [at : {"rest", "slot", "table", "ready", "wait"},
                       packet : Packets \cup {NoCall}, slot : 0 .. (Slots - 1) \cup {None}]
      BY DEF IInv, CallsInOrder
    <3>5. /\ call'[c].at = "table" /\ call'[c].packet = call[c].packet
          /\ call'[c].slot = Min((0 .. (Slots - 1)) \ ci)
      BY <1>3, <3>1, <3>4
    <3>6. call[c].packet \in Packets
      BY <1>2, <1>8 DEF FindSlot, OnItsWay
    <3> QED
      BY <2>1, <3>3, <3>5, <3>6 DEF OnItsWay
  <2> QED
    BY <2>2, <2>3
<1>9. CASE Build(c)
  <2> DEFINE s == call[c].slot  p == call[c].packet
  <2>1. s \in 0 .. (Slots - 1) /\ p \in Packets /\ ci = {}
    BY <1>2, <1>9 DEF Build, OnItsWay
  <2>2. call[c] \in [at : {"rest", "slot", "table", "ready", "wait"},
                     packet : Packets \cup {NoCall}, slot : 0 .. (Slots - 1) \cup {None}]
    BY DEF IInv, CallsInOrder
  <2>3. call' = [call EXCEPT ![c].at = "ready"] /\ UNCHANGED ci
    BY <1>9 DEF Build
  <2>4. call'[c].at = "ready" /\ call'[c].packet = p /\ call'[c].slot = s
    BY <1>3, <2>2, <2>3
  <2>5. tables'[FisCell(s)] = Fis(c, p)
    BY <1>9, <2>1, CellsOfSlots DEF Build
  <2>6. ASSUME NEW k \in Filled(p) PROVE tables'[PrdCell(s, k)] = Prd(c, p, k)
    <3>1. /\ PrdCell(s, k) \in Cells /\ PrdCell(s, k) # FisCell(s)
          /\ PrdCell(s, k) - PrdCell(s, 0) = k
      BY <2>1, CellsOfSlots
    <3>2. tables'[PrdCell(s, k)] = Prd(c, p, PrdCell(s, k) - PrdCell(s, 0))
      BY <1>9, <3>1 DEF Build
    <3> QED
      BY <3>1, <3>2
  <2>7. WrittenFor(c)'
    BY <2>4, <2>5, <2>6 DEF WrittenFor
  <2>8. OnItsWay(c)'
    BY <2>1, <2>4 DEF OnItsWay
  <2> QED
    BY <2>1, <2>3, <2>4, <2>7, <2>8
<1>10. CASE Issue(c)
  <2>1. call[c] \in [at : {"rest", "slot", "table", "ready", "wait"},
                     packet : Packets \cup {NoCall}, slot : 0 .. (Slots - 1) \cup {None}]
    BY DEF IInv, CallsInOrder
  <2>2. call' = [call EXCEPT ![c].at = "wait"] /\ ci' = ci \cup {call[c].slot} /\ UNCHANGED tables
    BY <1>10 DEF Issue
  <2>3. /\ call'[c].at = "wait" /\ call'[c].packet = call[c].packet
        /\ call'[c].slot = call[c].slot
    BY <1>3, <2>1, <2>2
  <2>4. call[c].at = "ready" /\ ci = {}
    BY <1>2, <1>10 DEF Issue
  <2> QED
    BY <1>2, <2>2, <2>3, <2>4 DEF OnItsWay, WrittenFor
<1>11. CASE EndCall(c)
  <2>1. ci = {}
    BY <1>2, <1>11 DEF EndCall
  <2> QED
    BY <1>3, <1>4, <1>11, <2>1 DEF EndCall
<1>12. CASE PowerLoss
  BY <1>12 DEF PowerLoss, AllRest, Rest, OnItsWay
<1>13. CASE LayOut
  <2>1. ci = {} /\ UNCHANGED <<ci, call>> /\ call[c].at \in {"rest", "slot"}
    BY <1>13 DEF LayOut, IInv, NothingGiven
  <2> QED
    BY <1>2, <2>1 DEF OnItsWay
<1>14. CASE UNCHANGED <<call, tables>> /\ ci' \subseteq ci
  BY <1>2, <1>14 DEF OnItsWay, WrittenFor
<1>15. \A d \in Callers : d = c
  BY <1>1
<1>16. Probe \/ Select \/ ChoosePort \/ StopEngine \/ Panic(c) \/ Device \/ Ask \/ UNCHANGED vars
       \/ (\E s \in 0 .. (Slots - 1) : Fault(s))
         => UNCHANGED <<call, tables>> /\ ci' \subseteq ci
  BY DEF Probe, Select, ChoosePort, StopEngine, Panic, Device, Follow, Move, Complete, Fault,
         Ask, vars
<1> QED
  BY <1>6, <1>7, <1>8, <1>9, <1>10, <1>11, <1>12, <1>13, <1>14, <1>15, <1>16
     DEF Next, Mount, Transfer
-----------------------------------------------------------------------------
LEMMA Inductive == Alone /\ IInv /\ [Next]_vars => IInv'
<1> SUFFICES ASSUME Alone, IInv, [Next]_vars PROVE IInv'
  OBVIOUS
<1>1. /\ TypeOK /\ CallsInOrder /\ LaidOutInPeace /\ NothingGiven /\ Stopped /\ TablesHold
      /\ TablesTyped /\ PortTyped
  BY DEF IInv, TypeOK, TablesTyped, PortTyped
<1>2. CallsInOrder' /\ (LaidOutInPeace /\ NothingGiven /\ Stopped)' /\ TablesHold'
  BY <1>1, CallsInductive, PeaceInductive, HoldInductive
<1>3. TablesTyped' /\ DataTyped' /\ PortTyped'
  BY <1>1, TablesInductive, DataInductive, PortInductive
<1>4. \A c \in Callers : /\ call'[c].at \in {"rest", "slot", "table", "ready", "wait"}
                         /\ call'[c].packet \in Packets \cup {NoCall}
                         /\ call'[c].slot \in 0 .. (Slots - 1) \cup {None}
  BY <1>2 DEF CallsInOrder
<1>5. TypeOK'
  BY <1>3, <1>4 DEF TypeOK, TablesTyped, DataTyped, PortTyped
<1> QED
  BY <1>2, <1>5 DEF IInv

(* With one caller the driver's slots, the controller's and the caller's   *)
(* own count of a command agree in every state (SATA.cc:201-330).          *)
THEOREM AhciInvariant == Alone => (Spec => []IInv)
<1> SUFFICES ASSUME Alone PROVE Spec => []IInv
  OBVIOUS
<1>1. IInv /\ [Next]_vars => IInv'
  BY Inductive
<1> QED
  BY <1>1, InitInvariant, PTL DEF Spec

(* The table of the command at work is what the caller wrote.              *)
LEMMA IntactNow == Alone /\ IInv => TablesIntact
<1> SUFFICES ASSUME Alone, IInv PROVE TablesIntact
  OBVIOUS
<1>1. ASSUME NEW s \in ci
      PROVE \E c \in Callers : /\ call[c].at = "wait" /\ call[c].slot = s /\ WrittenFor(c)
  BY <1>1, AtWork DEF IInv, TablesHold
<1>2. CommandIntact
  BY <1>1 DEF CommandIntact, WrittenFor
<1> QED
  BY <1>2 DEF TablesIntact, IInv

(* With one caller, no list that goes on behind its table, however long,   *)
(* disturbs the command at work, and the tables are laid out while the     *)
(* device rests, in whatever state the firmware left the port (SATA.cc:126,*)
(* 248).                                                                   *)
THEOREM CommandsIntact == Alone => (Spec => []TablesIntact)
<1> SUFFICES ASSUME Alone PROVE Spec => []TablesIntact
  OBVIOUS
<1>1. IInv => TablesIntact
  BY IntactNow
<1>2. Spec => []IInv
  BY AhciInvariant
<1> QED
  BY <1>1, <1>2, PTL
-----------------------------------------------------------------------------
(* The structures on the disk: a list's own entries hold all of one, and   *)
(* no command reaches another's sectors.                                   *)
LaidOut ==
  \A p \in Places : /\ Need(p) <= Sure(Read(p))
                    /\ \A q \in Places \ {p} :
                         \A j \in 0 .. (SectorSz - 1), k \in 0 .. (Need(q) - 1) :
                           Lba(p) + j # Lba(q) + k

(* Who rests has no packet, and before the port was started everyone does. *)
Resting(c) ==
  call[c].at = "rest" \/ pc \notin {"drive", "panic", "lost"} => call[c] = Rest

(* What a command has moved of its packet, as long as the device has not   *)
(* failed: all of it, when it is over.                                     *)
Progress(c) == IF call[c].slot \in ci THEN at ELSE Sure(call[c].packet)
MovedSoFar(c) ==
  LET p == call[c].packet
  IN faults = 0 /\ call[c].at = "wait" =>
       \A k \in 0 .. (Progress(c) - 1) :
         /\ p.op = "write" => medium[Lba(p.at) + k] = <<p.value, k>>
         /\ p.op = "read" => buf[c][k] = medium[Lba(p.at) + k]

InTransfer == /\ ci = {} => at = 0
              /\ \A c \in Callers : Resting(c) /\ MovedSoFar(c)
-----------------------------------------------------------------------------
LEMMA NeedFacts == ASSUME NEW p \in Places PROVE Need(p) \in Nat \ {0}
<1>1. Size[p] \in Nat \ {0} /\ SectorSz \in Nat \ {0}
  BY AhciAssumption
<1>2. \A m \in Nat \ {0}, n \in Nat \ {0} : (n + m - 1) \div m \in Nat \ {0}
  OBVIOUS
<1> QED
  BY <1>1, <1>2 DEF Need

(* A structure is the value all of whose sectors it has.                   *)
LEMMA ValueType == ASSUME NEW p \in Places, NEW f PROVE ValueOf(p, f) \in Values \cup {Torn}
<1>1. 0 \in 0 .. (Need(p) - 1)
  BY NeedFacts
<1>2. ASSUME NEW v \in Values, \A k \in 0 .. (Need(p) - 1) : f[k] = <<v, k>>
      PROVE f[0][1] = v
  <2>1. f[0] = <<v, 0>>
    BY <1>1, <1>2
  <2> QED
    BY <2>1
<1> QED
  BY <1>2 DEF ValueOf

LEMMA ValueWhole ==
  ASSUME NEW p \in Places, NEW v \in Values, NEW f, \A k \in 0 .. (Need(p) - 1) : f[k] = <<v, k>>
  PROVE ValueOf(p, f) = v
<1>1. 0 \in 0 .. (Need(p) - 1)
  BY NeedFacts
<1>2. f[0] = <<v, 0>>
  BY <1>1
<1>3. f[0][1] = v
  BY <1>2
<1> QED
  BY <1>3 DEF ValueOf

LEMMA ValueSame ==
  ASSUME NEW p \in Places, NEW f, NEW g, \A k \in 0 .. (Need(p) - 1) : f[k] = g[k]
  PROVE ValueOf(p, f) = ValueOf(p, g)
<1>1. 0 \in 0 .. (Need(p) - 1)
  BY NeedFacts
<1> QED
  BY <1>1 DEF ValueOf

LEMMA StoredType == ASSUME NEW p \in Places PROVE Stored(p) \in Values \cup {Torn}
BY ValueType DEF Stored

LEMMA StoredSame ==
  ASSUME NEW p \in Places, \A k \in 0 .. (Need(p) - 1) : medium'[Lba(p) + k] = medium[Lba(p) + k]
  PROVE Stored(p)' = Stored(p)
<1> DEFINE f == [k \in 0 .. (Need(p) - 1) |-> medium[Lba(p) + k]]
           g == [k \in 0 .. (Need(p) - 1) |-> medium'[Lba(p) + k]]
<1>1. Stored(p) = ValueOf(p, f) /\ Stored(p)' = ValueOf(p, g)
  BY DEF Stored
<1>2. f = g
  OBVIOUS
<1> QED
  BY <1>1, <1>2

(* A packet that reads or writes is one of Drive's, and moves what its     *)
(* place's packets do.                                                     *)
LEMMA PlacePackets ==
  ASSUME NEW p \in Packets
  PROVE /\ p.op = "read" => p = Read(p.at) /\ p.at \in Places
        /\ p.op = "write" => p = Write(p.at, p.value) /\ p.at \in Places /\ p.value \in Values
        /\ p.op = "identify" <=> p = Identify
        /\ p.op \in {"identify", "read", "write"}
        /\ p # Identify => p.at \in Places /\ Sure(p) = Sure(Read(p.at))
<1>1. \/ p = Identify \/ \E q \in Places : p = Read(q)
      \/ \E q \in Places, v \in Values : p = Write(q, v)
  BY DEF Packets
<1>2. p # Identify => Bytes(p) = Bytes(Read(p.at)) /\ p.op # "identify"
  BY <1>1 DEF Bytes, Identify, Read, Write
<1>3. p # Identify => Sure(p) = Sure(Read(p.at))
  BY <1>2 DEF Sure, FilledBytes, Asked, Entries, Read
<1> QED
  BY <1>1, <1>3 DEF Identify, Read, Write
-----------------------------------------------------------------------------
(* What the one caller's packet has moved stays moved.                     *)
LEMMA TransferInit == Init => InTransfer
BY DEF Init, InTransfer, Resting, MovedSoFar, AllRest, Rest

LEMMA TransferInductive == Alone /\ LaidOut /\ IInv /\ InTransfer /\ [Next]_vars => InTransfer'
<1> SUFFICES ASSUME Alone, LaidOut, IInv, InTransfer, [Next]_vars PROVE InTransfer'
  OBVIOUS
<1>1. PICK c \in Callers : Callers = {c}
  BY DEF Alone
<1>2. /\ ci = {} => at = 0
      /\ Resting(c) /\ MovedSoFar(c)
  BY DEF InTransfer
<1>3. c \in DOMAIN call
  BY DEF IInv, CallsInOrder
<1>4. /\ call[c].at = "wait" => ci \subseteq {call[c].slot}
      /\ call[c].at # "wait" => ci = {}
  BY DEF IInv, TablesHold
<1> SUFFICES /\ ci' = {} => at' = 0
             /\ Resting(c)' /\ MovedSoFar(c)'
  BY <1>1 DEF InTransfer
<1>5. ASSUME call'[c].at # "wait", Resting(c)', ci' = {} => at' = 0
      PROVE (ci' = {} => at' = 0) /\ Resting(c)' /\ MovedSoFar(c)'
  BY <1>5 DEF MovedSoFar
<1>6. CASE Probe \/ Select \/ ChoosePort \/ StopEngine \/ LayOut
  BY <1>2, <1>6 DEF Probe, Select, ChoosePort, StopEngine, LayOut, Resting, MovedSoFar,
                    Progress, device
<1>7. CASE StartEngine
  <2>1. call' = [call EXCEPT ![c] = [Rest EXCEPT !.at = "slot", !.packet = Identify]]
        /\ pc' = "drive" /\ UNCHANGED <<ci, at>>
    BY <1>1, <1>7 DEF StartEngine, device
  <2>2. call'[c].at = "slot"
    BY <1>3, <2>1 DEF Rest
  <2> QED
    BY <1>2, <1>5, <2>1, <2>2 DEF Resting
<1>8. CASE Call(c)
  <2>1. PICK p \in Packets : call' = [call EXCEPT ![c] = [Rest EXCEPT !.at = "slot", !.packet = p]]
    BY <1>8 DEF Call
  <2>2. pc' \in {"drive", "lost"} /\ UNCHANGED <<ci, at>>
    BY <1>8 DEF Call, device
  <2>3. call'[c].at = "slot"
    BY <1>3, <2>1 DEF Rest
  <2> QED
    BY <1>2, <1>5, <2>2, <2>3 DEF Resting
<1>9. CASE FindSlot(c)
  <2>1. UNCHANGED <<pc, ci, at>> /\ pc = "drive"
    BY <1>9 DEF FindSlot, device
  <2>2. call'[c] = Rest \/ call'[c].at = "table"
    <3>1. call[c] \in [at : {"rest", "slot", "table", "ready", "wait"},
                       packet : Packets \cup {NoCall}, slot : 0 .. (Slots - 1) \cup {None}]
      BY DEF IInv, CallsInOrder
    <3> QED
      BY <1>3, <1>9, <3>1 DEF FindSlot
  <2>3. call'[c].at # "wait"
    BY <2>2 DEF Rest
  <2> QED
    BY <1>2, <1>5, <2>1, <2>2, <2>3 DEF Resting
<1>10. CASE Build(c)
  <2>1. UNCHANGED <<pc, ci, at>> /\ pc = "drive" /\ call' = [call EXCEPT ![c].at = "ready"]
    BY <1>10 DEF Build, device
  <2>2. call'[c].at = "ready"
    BY <1>3, <2>1 DEF IInv, CallsInOrder
  <2> QED
    BY <1>2, <1>5, <2>1, <2>2 DEF Resting
<1>11. CASE Issue(c)
  <2>1. /\ UNCHANGED <<pc, at, medium, buf>> /\ pc = "drive" /\ call[c].at = "ready"
        /\ call' = [call EXCEPT ![c].at = "wait"] /\ ci' = ci \cup {call[c].slot}
    BY <1>11 DEF Issue, device
  <2>2. call'[c].at = "wait" /\ call'[c].slot = call[c].slot
    BY <1>3, <2>1 DEF IInv, CallsInOrder
  <2>3. Progress(c)' = 0
    BY <1>2, <1>4, <2>1, <2>2 DEF Progress
  <2> QED
    BY <2>1, <2>2, <2>3 DEF Resting, MovedSoFar
<1>12. CASE EndCall(c)
  <2>1. UNCHANGED <<pc, ci, at>> /\ pc = "drive" /\ call'[c] = Rest
    BY <1>3, <1>12 DEF EndCall
  <2>2. call'[c].at # "wait"
    BY <2>1 DEF Rest
  <2> QED
    BY <1>2, <1>5, <2>1, <2>2 DEF Resting
<1>13. CASE Panic(c)
  <2>1. UNCHANGED <<ci, at, medium, buf, call, faults>> /\ pc = "drive" /\ pc' = "panic"
    BY <1>13 DEF Panic, device
  <2> QED
    BY <1>2, <2>1 DEF Resting, MovedSoFar, Progress
<1>14. ASSUME NEW s \in 0 .. (Slots - 1), Move(s)
       PROVE (ci' = {} => at' = 0) /\ Resting(c)' /\ MovedSoFar(c)'
  <2> DEFINE p == call[c].packet
  <2>1. s \in ci /\ at < Moves(s) /\ at' = at + 1 /\ UNCHANGED <<pc, call, ci, faults>>
    BY <1>14 DEF Move, Working
  <2>2. call[c].at = "wait" /\ call[c].slot = s /\ Command(s) = p /\ p \in Packets
    BY <1>1, <2>1, AtWork
  <2>3. at \in Nat /\ at \in 0 .. (SectorSz - 1) /\ SectorSz \in Nat
    <3>1. SectorSz \in Nat /\ at \in 0 .. SectorSz
      BY AhciAssumption DEF IInv, TypeOK
    <3>2. at < SectorSz
      BY <2>1, <2>2, <3>1, MovesWithin
    <3> QED
      BY <3>1, <3>2
  <2>4. Progress(c) = at /\ Progress(c)' = at + 1
    BY <2>1, <2>2 DEF Progress
  <2>5. \A k \in 0 .. at : k = at \/ k \in 0 .. (at - 1)
    BY <2>3
  <2>6. ASSUME faults = 0, p.op = "write", NEW k \in 0 .. at
        PROVE medium'[Lba(p.at) + k] = <<p.value, k>>
    <3>1. medium' = [medium EXCEPT ![Lba(p.at) + at] = <<p.value, at>>]
      BY <1>14, <2>2, <2>6 DEF Move
    <3>2. p.at \in Places /\ Lba(p.at) \in Nat
      BY <2>2, <2>6, PacketSizes, AhciAssumption DEF Lba
    <3>3. at \in 0 .. SectorSz
      BY DEF IInv, TypeOK
    <3>4. Lba(p.at) + at \in Sectors
      BY <3>2, <3>3 DEF Lba, Sectors
    <3>5. medium \in [Sectors -> Sector]
      BY DEF IInv, TypeOK
    <3>6. CASE k = at
      BY <3>1, <3>4, <3>5, <3>6
    <3>7. CASE k \in 0 .. (at - 1)
      <4>1. medium[Lba(p.at) + k] = <<p.value, k>>
        BY <1>2, <2>2, <2>4, <2>6, <3>7 DEF MovedSoFar
      <4>2. Lba(p.at) + k # Lba(p.at) + at
        BY <2>3, <3>2, <3>7
      <4> QED
        BY <3>1, <3>5, <4>1, <4>2
    <3> QED
      BY <2>5, <3>6, <3>7
  <2>7. ASSUME faults = 0, p.op = "read", NEW k \in 0 .. at
        PROVE buf'[c][k] = medium'[Lba(p.at) + k]
    <3>1. buf' = [buf EXCEPT ![Buffer(s)][at] = medium[Lba(p.at) + at]] /\ UNCHANGED medium
      BY <1>14, <2>2, <2>7 DEF Move
    <3>2. Buffer(s) = c
      <4>1. 0 \in Filled(p)
        <5>1. p.at \in Places /\ Sure(p) = Sure(Read(p.at))
          BY <2>2, <2>7, PlacePackets
        <5>2. Need(p.at) \in Nat \ {0} /\ Need(p.at) <= Sure(p)
          BY <5>1, NeedFacts DEF LaidOut
        <5>3. Sure(p) \in Int
          BY <2>2, CommandMoves
        <5>4. Sure(p) > 0
          BY <5>2, <5>3
        <5> QED
          BY <2>2, <5>4, FilledWhereSure
      <4>2. tables[PrdCell(s, 0)] = Prd(c, p, 0)
        BY <2>2, <4>1 DEF IInv, TablesHold, WrittenFor
      <4> QED
        BY <4>2 DEF Buffer, Prd
    <3>3. buf \in [Callers -> [0 .. (SectorSz - 1) -> Sector]]
      BY DEF IInv, TypeOK
    <3>4. buf'[c] = [buf[c] EXCEPT ![at] = medium[Lba(p.at) + at]]
      BY <3>1, <3>2, <3>3
    <3>5. CASE k = at
      BY <2>3, <3>1, <3>3, <3>4, <3>5
    <3>6. CASE k \in 0 .. (at - 1)
      <4>1. buf[c][k] = medium[Lba(p.at) + k]
        BY <1>2, <2>2, <2>4, <2>7, <3>6 DEF MovedSoFar
      <4>2. k # at /\ k \in 0 .. (SectorSz - 1)
        BY <2>3, <3>6
      <4> QED
        BY <3>1, <3>3, <3>4, <4>1, <4>2
    <3> QED
      BY <2>5, <3>5, <3>6
  <2>8. MovedSoFar(c)'
    <3>1. faults' = faults /\ call' = call
      BY <2>1
    <3>2. ASSUME faults' = 0, NEW k \in 0 .. (Progress(c)' - 1)
          PROVE /\ p.op = "write" => medium'[Lba(p.at) + k] = <<p.value, k>>
                /\ p.op = "read" => buf'[c][k] = medium'[Lba(p.at) + k]
      <4>1. k \in 0 .. at
        BY <2>3, <2>4
      <4>2. faults = 0
        BY <3>1, <3>2
      <4>3. p.op = "write" => medium'[Lba(p.at) + k] = <<p.value, k>>
        BY <2>6, <4>1, <4>2
      <4>4. p.op = "read" => buf'[c][k] = medium'[Lba(p.at) + k]
        BY <2>7, <4>1, <4>2
      <4> QED
        BY <4>3, <4>4
    <3> QED
      BY <3>1, <3>2 DEF MovedSoFar
  <2> QED
    BY <1>2, <2>1, <2>8 DEF Resting
<1>15. ASSUME NEW s \in 0 .. (Slots - 1), Complete(s)
       PROVE (ci' = {} => at' = 0) /\ Resting(c)' /\ MovedSoFar(c)'
  <2>1. s \in ci /\ at = Moves(s) /\ ci' = ci \ {s} /\ at' = 0
        /\ UNCHANGED <<pc, call, faults, medium, buf>>
    BY <1>15 DEF Complete, Working
  <2> DEFINE p == call[c].packet
  <2>2. call[c].at = "wait" /\ call[c].slot = s /\ Command(s) = p /\ p \in Packets
    BY <1>1, <2>1, AtWork
  <2>3. Progress(c) = at /\ Progress(c)' = Sure(p)
    BY <2>1, <2>2 DEF Progress
  <2>4. \A k \in 0 .. (Progress(c)' - 1) : k \in 0 .. (Progress(c) - 1)
    <3>1. Moves(s) \in Int /\ Sure(p) \in Int /\ Sure(p) <= Moves(s)
      BY <2>2, CommandMoves
    <3> QED
      BY <2>1, <2>3, <3>1
  <2>5. MovedSoFar(c)'
    BY <1>2, <2>1, <2>2, <2>4 DEF MovedSoFar
  <2> QED
    BY <1>2, <2>1, <2>5 DEF Resting
<1>16. ASSUME NEW s \in 0 .. (Slots - 1), Fault(s)
       PROVE (ci' = {} => at' = 0) /\ Resting(c)' /\ MovedSoFar(c)'
  <2>1. faults' # 0
    BY <1>16 DEF Fault, IInv, TypeOK
  <2>2. UNCHANGED <<pc, call>> /\ (UNCHANGED <<ci, at>> \/ at' = 0)
    BY <1>16 DEF Fault
  <2> QED
    BY <1>2, <2>1, <2>2 DEF Resting, MovedSoFar
<1>17. CASE PowerLoss
  BY <1>17 DEF PowerLoss, AllRest, Rest, Resting, MovedSoFar
<1>18. CASE Follow \/ Ask \/ UNCHANGED vars
  BY <1>2, <1>18 DEF Follow, Ask, vars, Resting, MovedSoFar, Progress, device
<1>19. \A d \in Callers : d = c
  BY <1>1
<1> QED
  BY <1>6, <1>7, <1>8, <1>9, <1>10, <1>11, <1>12, <1>13, <1>14, <1>15, <1>16, <1>17, <1>18,
     <1>19 DEF Next, Mount, Transfer, Device
-----------------------------------------------------------------------------
(* The state of Drive that the driver's stands for.                        *)
Store == [p \in Places |-> Stored(p)]
SentOf(f) ==
  LET calling == {c \in Callers : f[c].packet \notin {NoCall, Identify}}
  IN IF calling = {} THEN NoCall ELSE f[CHOOSE c \in calling : TRUE].packet
Sent == SentOf(call)
Failed == faults > 0

LEMMA SentIs ==
  ASSUME NEW c \in Callers, Callers = {c}, NEW f
  PROVE SentOf(f) = IF f[c].packet \in {NoCall, Identify} THEN NoCall ELSE f[c].packet
<1> DEFINE calling == {d \in Callers : f[d].packet \notin {NoCall, Identify}}
<1>1. calling = {} \/ calling = {c}
  OBVIOUS
<1>2. calling # {} => (CHOOSE d \in calling : TRUE) = c
  BY <1>1
<1> QED
  BY <1>1, <1>2 DEF SentOf

(* What a step has to do to be one of Drive's.                             *)
LEMMA Stutters == UNCHANGED <<Store, Sent, got, Failed>> => UNCHANGED D!vars
BY DEF D!vars, Store, Sent, SentOf, Failed

LEMMA Begins ==
  ASSUME Sent = NoCall, UNCHANGED <<Store, got, Failed>>,
         NEW p \in Packets, p # Identify, Sent' = p
  PROVE D!Begin
<1>1. p \in {D!Write(q, v) : q \in Places, v \in Values} \cup {D!Read(q) : q \in Places}
  BY DEF D!Write, D!Read, Packets, Write, Read
<1>2. D!Begin <=> /\ Sent = NoCall
                  /\ Sent' \in {D!Write(q, v) : q \in Places, v \in Values}
                                 \cup {D!Read(q) : q \in Places}
                  /\ UNCHANGED <<Store, got, Failed>>
  BY DEF D!Begin, Store, Sent, SentOf, Failed
<1> QED
  BY <1>1, <1>2

LEMMA Stores ==
  ASSUME Sent # NoCall, Sent.op = "write", UNCHANGED <<Sent, got, Failed>>,
         NEW x \in Values \cup {Torn}, Store' = [Store EXCEPT ![Sent.at] = x]
  PROVE D!Store
BY DEF D!Store, D!Contents, Store, Sent, SentOf, Failed

LEMMA EndsWrite ==
  ASSUME Sent # NoCall, Sent.op = "write", Failed \/ Store[Sent.at] = Sent.value,
         Sent' = NoCall, UNCHANGED <<Store, got, Failed>>
  PROVE D!EndWrite
BY DEF D!EndWrite, Store, Sent, SentOf, Failed

LEMMA EndsRead ==
  ASSUME Sent # NoCall, Sent.op = "read", NEW x \in Values \cup {Torn},
         Failed \/ x = Store[Sent.at], got' = [op |-> "read", at |-> Sent.at, value |-> x],
         Sent' = NoCall, UNCHANGED <<Store, Failed>>
  PROVE D!EndRead
BY DEF D!EndRead, D!Contents, Store, Sent, SentOf, Failed

LEMMA Fails == ASSUME Failed', UNCHANGED <<Store, Sent, got>> PROVE D!Fail
BY DEF D!Fail, Store, Sent, SentOf, Failed

LEMMA Restarts ==
  ASSUME Sent' = NoCall, got' = NoCall, Failed' = FALSE, Store' = Store,
         Store \in [Places -> Values \cup {Torn}]
  PROVE D!Restart
<1>1. Failed' \in {Failed, FALSE}
  OBVIOUS
<1> QED
  BY <1>1 DEF D!Restart, D!Stores, D!Contents, Store, Sent, SentOf, Failed
-----------------------------------------------------------------------------
LEMMA ImplementsInit == Alone /\ Init => D!Init
<1> SUFFICES ASSUME Alone, Init PROVE D!Init
  OBVIOUS
<1>1. PICK c \in Callers : Callers = {c}
  BY DEF Alone
<1>2. call[c].packet = NoCall
  BY DEF Init, AllRest, Rest
<1>3. Sent = NoCall
  BY <1>1, <1>2, SentIs DEF Sent
<1>4. Store \in [Places -> Values \cup {Torn}]
  BY StoredType DEF Store
<1>5. Failed = FALSE
  BY DEF Init, Failed
<1>6. got = NoCall
  BY DEF Init
<1> QED
  BY <1>3, <1>4, <1>5, <1>6 DEF D!Init, D!Stores, D!Contents, Store, Sent, SentOf, Failed

(* A sector that a write moves changes its own structure alone.            *)
LEMMA MoveStores ==
  ASSUME Alone, LaidOut, IInv, NEW s \in 0 .. (Slots - 1), Move(s)
  PROVE D!Next \/ UNCHANGED D!vars
<1>1. PICK c \in Callers : Callers = {c}
  BY DEF Alone
<1> DEFINE p == call[c].packet
<1>2. s \in ci /\ at < Moves(s) /\ UNCHANGED <<call, got, faults>>
  BY DEF Move, Working
<1>3. Command(s) = p /\ p \in Packets
  BY <1>1, <1>2, AtWork
<1>4. UNCHANGED <<Sent, got, Failed>>
  BY <1>2 DEF Sent, SentOf, Failed
<1>5. CASE p.op = "write"
  <2>1. p \notin {Identify, NoCall} /\ p.at \in Places
    BY <1>3, <1>5, PlacePackets, PacketsAssumption DEF Identify
  <2>2. Sent = p
    BY <1>1, <2>1, SentIs DEF Sent
  <2>3. medium' = [medium EXCEPT ![Lba(p.at) + at] = <<p.value, at>>]
    BY <1>3, <1>5 DEF Move
  <2>4. at \in 0 .. (SectorSz - 1)
    <3>1. at \in Nat /\ SectorSz \in Nat
      BY AhciAssumption DEF IInv, TypeOK
    <3>2. at < SectorSz
      BY <1>2, <1>3, <3>1, MovesWithin
    <3> QED
      BY <3>1, <3>2
  <2>5. ASSUME NEW q \in Places \ {p.at} PROVE Stored(q)' = Stored(q)
    <3>1. \A k \in 0 .. (Need(q) - 1) : Lba(p.at) + at # Lba(q) + k
      BY <2>1, <2>4 DEF LaidOut
    <3>2. medium = [x \in Sectors |-> medium[x]]
      BY DEF IInv, TypeOK
    <3>3. \A k \in 0 .. (Need(q) - 1) : medium'[Lba(q) + k] = medium[Lba(q) + k]
      BY <2>3, <3>1, <3>2
    <3> QED
      BY <3>3, StoredSame
  <2> DEFINE x == Stored(p.at)'
  <2>6. x \in Values \cup {Torn}
    <3>1. x = ValueOf(p.at, [k \in 0 .. (Need(p.at) - 1) |-> medium'[Lba(p.at) + k]])
      BY <1>2 DEF Stored
    <3> HIDE DEF x
    <3> QED
      BY <2>1, <3>1, ValueType
  <2>7. Store' = [Store EXCEPT ![p.at] = x]
    <3>1. Store' = [q \in Places |-> Stored(q)']
      BY DEF Store
    <3>2. [Store EXCEPT ![p.at] = x] = [q \in Places |-> IF q = p.at THEN x ELSE Stored(q)]
      BY DEF Store
    <3>3. \A q \in Places : Stored(q)' = IF q = p.at THEN x ELSE Stored(q)
      BY <1>2, <2>5
    <3> QED
      BY <3>1, <3>2, <3>3
  <2> HIDE DEF x
  <2>8. Sent # NoCall /\ Sent.op = "write" /\ Store' = [Store EXCEPT ![Sent.at] = x]
    BY <1>5, <2>1, <2>2, <2>7
  <2>9. D!Store
    BY <1>4, <2>6, <2>8, Stores
  <2> QED
    BY <2>9 DEF D!Next
<1>6. CASE p.op # "write"
  <2>1. UNCHANGED medium
    BY <1>3, <1>6 DEF Move
  <2>2. UNCHANGED Store
    BY <2>1 DEF Store, Stored
  <2> QED
    BY <1>4, <2>2, Stutters
<1> QED
  BY <1>5, <1>6

(* The end of a packet that the device did not fail: what was to be        *)
(* written is there, and what was read is what is there.                   *)
LEMMA EndImplements ==
  ASSUME Alone, LaidOut, IInv, InTransfer, NEW c \in Callers, EndCall(c)
  PROVE D!Next \/ UNCHANGED D!vars
<1> DEFINE p == call[c].packet
<1>1. Callers = {c}
  BY DEF Alone
<1>2. /\ call[c].at = "wait" /\ call[c].slot \notin ci /\ call' = [call EXCEPT ![c] = Rest]
      /\ got' = IF p.op = "read" THEN [p EXCEPT !.value = ValueOf(p.at, buf[c])] ELSE got
      /\ UNCHANGED <<medium, faults>>
  BY DEF EndCall
<1>3. p \in Packets /\ MovedSoFar(c) /\ Progress(c) = Sure(p)
  BY <1>2 DEF IInv, TablesHold, OnItsWay, InTransfer, Progress
<1>4. Sent' = NoCall
  <2>1. call'[c].packet = NoCall
    BY <1>2 DEF IInv, CallsInOrder, Rest
  <2> QED
    BY <1>1, <2>1, SentIs DEF Sent
<1>5. UNCHANGED <<Store, Failed>>
  BY <1>2 DEF Store, Stored, Failed
<1>6. CASE p.op = "identify"
  <2>1. p = Identify
    BY <1>3, <1>6, PlacePackets
  <2>2. Sent = NoCall
    BY <1>1, <2>1, SentIs DEF Sent
  <2>3. got' = got
    BY <1>2, <1>6
  <2> QED
    BY <1>4, <1>5, <2>2, <2>3, Stutters
<1>7. CASE p.op # "identify"
  <2>1. p # Identify /\ p # NoCall /\ p.at \in Places /\ Sure(p) = Sure(Read(p.at))
    BY <1>3, <1>7, PlacePackets, PacketsAssumption
  <2>2. Sent = p
    BY <1>1, <2>1, SentIs DEF Sent
  <2>3. \A k \in 0 .. (Need(p.at) - 1) : k \in 0 .. (Sure(p) - 1)
    <3>1. Need(p.at) <= Sure(p) /\ Need(p.at) \in Nat
      BY <2>1, NeedFacts DEF LaidOut
    <3>2. Sure(p) \in Int
      BY <1>3, SureTyped
    <3> QED
      BY <3>1, <3>2
  <2>4. Failed \/ faults = 0
    BY AhciAssumption DEF Failed, IInv, TypeOK
  <2> DEFINE f == [k \in 0 .. (Need(p.at) - 1) |-> medium[Lba(p.at) + k]]
  <2>5. Store[p.at] = ValueOf(p.at, f)
    BY <2>1 DEF Store, Stored
  <2>6. CASE p.op = "write"
    <3>1. p.value \in Values
      BY <1>3, <2>6, PlacePackets
    <3>2. ASSUME faults = 0 PROVE Store[p.at] = p.value
      <4>1. \A k \in 0 .. (Need(p.at) - 1) : medium[Lba(p.at) + k] = <<p.value, k>>
        BY <1>2, <1>3, <2>3, <2>6, <3>2 DEF MovedSoFar
      <4>2. \A k \in 0 .. (Need(p.at) - 1) : f[k] = <<p.value, k>>
        BY <4>1
      <4> HIDE DEF f
      <4> QED
        BY <2>1, <2>5, <3>1, <4>2, ValueWhole
    <3>3. got' = got
      BY <1>2, <2>6
    <3>4. D!EndWrite
      <4>1. Failed \/ Store[Sent.at] = Sent.value
        BY <2>2, <2>4, <3>2
      <4> QED
        BY <1>4, <1>5, <2>1, <2>2, <2>6, <3>3, <4>1, EndsWrite
    <3> QED
      BY <3>4 DEF D!Next
  <2>7. CASE p.op = "read"
    <3> DEFINE x == ValueOf(p.at, buf[c])
    <3>1. x \in Values \cup {Torn}
      BY <2>1, ValueType
    <3>2. ASSUME faults = 0 PROVE x = Store[p.at]
      <4>1. \A k \in 0 .. (Need(p.at) - 1) : buf[c][k] = medium[Lba(p.at) + k]
        BY <1>2, <1>3, <2>3, <2>7, <3>2 DEF MovedSoFar
      <4>2. \A k \in 0 .. (Need(p.at) - 1) : buf[c][k] = f[k]
        BY <4>1
      <4> HIDE DEF f
      <4> QED
        BY <2>1, <2>5, <4>2, ValueSame
    <3> HIDE DEF x
    <3>3. got' = [op |-> "read", at |-> p.at, value |-> x]
      <4>1. p = Read(p.at)
        BY <1>3, <2>7, PlacePackets
      <4>2. \A q, y : [Read(q) EXCEPT !.value = y] = [op |-> "read", at |-> q, value |-> y]
        BY DEF Read
      <4>3. got' = [p EXCEPT !.value = x]
        BY <1>2, <2>7 DEF x
      <4> QED
        BY <4>1, <4>2, <4>3
    <3>4. D!EndRead
      <4>1. Failed \/ x = Store[Sent.at]
        BY <2>2, <2>4, <3>2
      <4> QED
        BY <1>4, <1>5, <2>1, <2>2, <2>7, <3>1, <3>3, <4>1, EndsRead
    <3> QED
      BY <3>4 DEF D!Next
  <2> QED
    BY <1>3, <1>7, <2>6, <2>7, PlacePackets
<1> QED
  BY <1>6, <1>7

(* Every step of the driver and the device is one of Drive's, or none.     *)
LEMMA ImplementsStep ==
  Alone /\ LaidOut /\ IInv /\ InTransfer /\ [Next]_vars => [D!Next]_(D!vars)
<1> SUFFICES ASSUME Alone, LaidOut, IInv, InTransfer, [Next]_vars
             PROVE D!Next \/ UNCHANGED D!vars
  OBVIOUS
<1>1. PICK c \in Callers : Callers = {c}
  BY DEF Alone
<1>2. c \in DOMAIN call /\ call[c] \in [at : {"rest", "slot", "table", "ready", "wait"},
                                        packet : Packets \cup {NoCall},
                                        slot : 0 .. (Slots - 1) \cup {None}]
  BY DEF IInv, CallsInOrder
<1>3. ASSUME UNCHANGED <<medium, got, faults>>, call'[c].packet = call[c].packet
      PROVE UNCHANGED D!vars
  <2>1. UNCHANGED <<Store, Failed>>
    BY <1>3 DEF Store, Stored, Failed
  <2>2. UNCHANGED Sent
    BY <1>1, <1>3, SentIs DEF Sent
  <2> QED
    BY <1>3, <2>1, <2>2, Stutters
<1>4. CASE Probe \/ Select \/ ChoosePort \/ StopEngine \/ LayOut
  BY <1>3, <1>4 DEF Probe, Select, ChoosePort, StopEngine, LayOut, device
<1>5. CASE StartEngine
  <2>1. /\ UNCHANGED <<medium, got, faults>> /\ pc = "start"
        /\ call' = [call EXCEPT ![c] = [Rest EXCEPT !.at = "slot", !.packet = Identify]]
    BY <1>1, <1>5 DEF StartEngine, device
  <2>2. call'[c].packet = Identify /\ call[c].packet = NoCall
    <3>1. call[c] = Rest
      BY <2>1 DEF InTransfer, Resting
    <3>2. [Rest EXCEPT !.at = "slot", !.packet = Identify].packet = Identify
      BY DEF Rest
    <3>3. call'[c] = [Rest EXCEPT !.at = "slot", !.packet = Identify]
      BY <1>2, <2>1
    <3>4. call[c].packet = NoCall
      BY <3>1 DEF Rest
    <3> QED
      BY <3>2, <3>3, <3>4
  <2>3. Sent = NoCall /\ Sent' = NoCall
    BY <1>1, <2>2, SentIs DEF Sent
  <2>4. UNCHANGED <<Store, Failed>>
    BY <2>1 DEF Store, Stored, Failed
  <2> QED
    BY <2>1, <2>3, <2>4, Stutters
<1>6. CASE Call(c)
  <2>1. PICK p \in Packets \ {Identify} :
          call' = [call EXCEPT ![c] = [Rest EXCEPT !.at = "slot", !.packet = p]]
    BY <1>6 DEF Call
  <2>2. UNCHANGED <<medium, got, faults>> /\ call[c] = Rest
    BY <1>6 DEF Call, device
  <2>3. call'[c].packet = p /\ call[c].packet = NoCall /\ p # NoCall
    <3>1. [Rest EXCEPT !.at = "slot", !.packet = p].packet = p
      BY DEF Rest
    <3>2. call'[c] = [Rest EXCEPT !.at = "slot", !.packet = p]
      BY <1>2, <2>1
    <3>3. call[c].packet = NoCall
      BY <2>2 DEF Rest
    <3> QED
      BY <3>1, <3>2, <3>3, PacketsAssumption
  <2>4. Sent = NoCall /\ Sent' = p
    BY <1>1, <2>1, <2>3, SentIs DEF Sent
  <2>5. UNCHANGED <<Store, got, Failed>>
    BY <2>2 DEF Store, Stored, Failed
  <2>6. D!Begin
    BY <2>1, <2>4, <2>5, Begins
  <2> QED
    BY <2>6 DEF D!Next
<1>7. CASE FindSlot(c)
  <2>1. ci = {}
    BY <1>7 DEF FindSlot, IInv, TablesHold
  <2>2. (0 .. (Slots - 1)) \ ci # {}
    <3>1. 0 \in 0 .. (Slots - 1)
      BY AhciAssumption
    <3> QED
      BY <2>1, <3>1
  <2>3. call'[c].packet = call[c].packet
    BY <1>2, <1>7, <2>2 DEF FindSlot
  <2> QED
    BY <1>3, <1>7, <2>3 DEF FindSlot, device
<1>8. CASE Build(c) \/ Issue(c)
  <2>1. PICK a \in {"ready", "wait"} : call' = [call EXCEPT ![c].at = a]
    BY <1>8 DEF Build, Issue
  <2>2. call'[c].packet = call[c].packet
    BY <1>2, <2>1
  <2> QED
    BY <1>3, <1>8, <2>2 DEF Build, Issue, device
<1>9. CASE EndCall(c)
  BY <1>9, EndImplements
<1>10. CASE Panic(c) \/ Follow \/ Ask \/ UNCHANGED vars \/ \E s \in 0 .. (Slots - 1) : Complete(s)
  BY <1>3, <1>10 DEF Panic, Follow, Ask, Complete, device, vars
<1>11. ASSUME NEW s \in 0 .. (Slots - 1), Move(s) PROVE D!Next \/ UNCHANGED D!vars
  BY <1>11, MoveStores
<1>12. ASSUME NEW s \in 0 .. (Slots - 1), Fault(s) PROVE D!Next \/ UNCHANGED D!vars
  <2>1. UNCHANGED <<medium, call, got>> /\ faults' = faults + 1
    BY <1>12 DEF Fault
  <2>2. faults' > 0
    BY <2>1 DEF IInv, TypeOK
  <2>3. Failed' /\ UNCHANGED <<Store, Sent>>
    BY <2>1, <2>2 DEF Failed, Store, Stored, Sent, SentOf
  <2>4. D!Fail
    BY <2>1, <2>3, Fails
  <2> QED
    BY <2>4 DEF D!Next
<1>13. CASE PowerLoss
  <2>1. UNCHANGED medium /\ got' = NoCall /\ faults' = 0 /\ call'[c].packet = NoCall
    BY <1>13 DEF PowerLoss, AllRest, Rest
  <2>2. Sent' = NoCall
    BY <1>1, <2>1, SentIs DEF Sent
  <2>3. Failed' = FALSE
    BY <2>1 DEF Failed
  <2>4. Store' = Store /\ Store \in [Places -> Values \cup {Torn}]
    BY <2>1, StoredType DEF Store, Stored
  <2>5. D!Restart
    BY <2>1, <2>2, <2>3, <2>4, Restarts
  <2> QED
    BY <2>5 DEF D!Next
<1>14. \A d \in Callers : d = c
  BY <1>1
<1> QED
  BY <1>4, <1>5, <1>6, <1>7, <1>8, <1>9, <1>10, <1>11, <1>12, <1>13, <1>14
     DEF Next, Mount, Transfer, Device

(* With one caller, the driver keeps what Drive promises, for any          *)
(* structures that lie far enough apart and that their lists can hold: the *)
(* sector's number that was not divided and the count that is far too      *)
(* large are a match (SATA.cc:270, DriveMgr.cc:33).                        *)
THEOREM AhciImplementsDrive == Alone /\ LaidOut => (Spec => Implements)
<1> SUFFICES ASSUME Alone, LaidOut PROVE Spec => Implements
  OBVIOUS
<1>1. Init => D!Init
  BY ImplementsInit
<1>2. IInv /\ InTransfer /\ [Next]_vars => InTransfer'
  BY TransferInductive
<1>3. IInv /\ InTransfer /\ [Next]_vars => [D!Next]_(D!vars)
  BY ImplementsStep
<1>4. Spec => []IInv
  BY AhciInvariant
<1> QED
  BY <1>1, <1>2, <1>3, <1>4, TransferInit, PTL DEF Spec, Implements, D!Spec
===============================================================================
