---------------------------- MODULE StorageProofs ----------------------------
(***************************************************************************)
(* Theorems about the drives under the kernel, for every layout of the     *)
(* structures and any number of device errors and losses of power.         *)
(***************************************************************************)
EXTENDS Storage, TLAPS

-----------------------------------------------------------------------------
LEMMA SizeFacts ==
  /\ SectorSz \in Nat \ {0} /\ Words \in Nat \ {0}
  /\ Epm \in Places /\ Super \in Places
  /\ \A p \in Places : Size[p] \in Nat \ {0} /\ Address[p] \in Nat
BY StorageAssumption DEF Words

LEMMA ProductType == ASSUME NEW x \in Nat, NEW y \in Nat PROVE x * y \in Nat
OBVIOUS

LEMMA ProductGrows ==
  ASSUME NEW x \in Nat \ {0}, NEW y \in Nat \ {0}
  PROVE  x * y \in Nat \ {0}
OBVIOUS

LEMMA CountFacts ==
  ASSUME NEW p \in Places
  PROVE  /\ Sector(p, SectorSz) \in Nat /\ Count(p, SectorSz) \in Nat \ {0}
         /\ Sector(p, SectorSz) * Words \in Nat
         /\ Count(p, SectorSz) * Words \in Nat \ {0}
<1>1. Sector(p, SectorSz) \in Nat
  BY SizeFacts DEF Sector
<1>2. Count(p, SectorSz) \in Nat \ {0}
  BY SizeFacts DEF Count
<1> QED BY <1>1, <1>2, SizeFacts, ProductType, ProductGrows

LEMMA KeptFacts ==
  /\ Kept(Epm) \in Nat \ {0} /\ Kept(Epm) =< Size[Epm]
  /\ \A k \in 0 .. (Kept(Epm) - 1) : k \in Cells /\ k \in Bytes
<1>1. Kept(Epm) \in Nat \ {0} /\ Kept(Epm) =< Size[Epm]
  BY SizeFacts, CountFacts DEF Kept
<1>2. Kept(Epm) - 1 \in Cells /\ 0 .. (Size[Epm] - 1) \subseteq Bytes
  BY SizeFacts, PlacesAssumption DEF Bytes
<1>3. Sectors * Words - 1 \in Int
  BY SizeFacts, StorageAssumption, ProductType
<1> QED BY <1>1, <1>2, <1>3, SizeFacts DEF Cells

LEMMA UnitFacts ==
  ASSUME NEW p \in Places
  PROVE  Sector(p, Size[p]) * Words \in Nat /\ Count(p, Size[p]) * Words \in Nat
<1>1. Sector(p, Size[p]) \in Nat /\ Count(p, Size[p]) \in Nat
  BY SizeFacts DEF Sector, Count
<1> QED BY <1>1, SizeFacts, ProductType

LEMMA ValueType ==
  ASSUME NEW p \in Places, NEW f
  PROVE  ValueOf(p, f) \in Values \cup {Magic, Torn}
<1>1. 0 \in 0 .. (Kept(p) - 1)
  BY SizeFacts, CountFacts DEF Kept
<1>2. ASSUME NEW v \in Values \cup {Magic}, \A k \in 0 .. (Kept(p) - 1) : f[k] = <<v, k>>
      PROVE  f[0][1] = v
  <2>1. f[0] = <<v, 0>>
    BY <1>1, <1>2
  <2> QED BY <2>1
<1> QED BY <1>2 DEF ValueOf

LEMMA EpmFirst == Sector(Epm, SectorSz) = 0 /\ Sector(Epm, SectorSz) * Words = 0
<1>1. Sector(Epm, SectorSz) = 0
  BY SizeFacts, StorageAssumption DEF Sector
<1> QED BY <1>1, SizeFacts

(* A structure has the value all of whose words it has.                    *)
LEMMA MagicRead ==
  ASSUME NEW f
  PROVE  /\ ValueOf(Epm, f) \in Values \cup {Magic, Torn}
         /\ ValueOf(Epm, f) = Magic <=> \A k \in 0 .. (Kept(Epm) - 1) : f[k] = <<Magic, k>>
<1>1. 0 \in 0 .. (Kept(Epm) - 1)
  BY KeptFacts
<1>2. ASSUME NEW v \in Values \cup {Magic}, \A k \in 0 .. (Kept(Epm) - 1) : f[k] = <<v, k>>
      PROVE  ValueOf(Epm, f) = v
  <2>1. f[0] = <<v, 0>>
    BY <1>1, <1>2
  <2>2. f[0][1] = v
    BY <2>1
  <2> QED BY <1>2, <2>2 DEF ValueOf
<1>3. CASE \E v \in Values \cup {Magic} : \A k \in 0 .. (Kept(Epm) - 1) : f[k] = <<v, k>>
  BY <1>2, <1>3
<1>4. CASE ~\E v \in Values \cup {Magic} : \A k \in 0 .. (Kept(Epm) - 1) : f[k] = <<v, k>>
  BY <1>4, StorageAssumption DEF ValueOf
<1> QED BY <1>3, <1>4

LEMMA EpmStored ==
  ASSUME NEW b \in Buses
  PROVE  Stored(b, Epm) = Magic <=> \A k \in 0 .. (Kept(Epm) - 1) : media[b][k] = <<Magic, k>>
<1> DEFINE f == [k \in 0 .. (Kept(Epm) - 1) |-> media[b][Sector(Epm, SectorSz) * Words + k]]
<1>1. Stored(b, Epm) = ValueOf(Epm, f)
  BY DEF Stored
<1>2. \A k \in 0 .. (Kept(Epm) - 1) : f[k] = media[b][k]
  BY EpmFirst, KeptFacts
<1> HIDE DEF f
<1> QED BY <1>1, <1>2, MagicRead

LEMMA OneSectorLess ==
  ASSUME NEW x \in Nat, NEW w \in Nat \ {0}, (x + w) % w = 0
  PROVE  x % w = 0
<1> DEFINE q == (x + w) \div w
           r == x \div w
<1>1. q \in Int /\ x + w = q * w
  OBVIOUS
<1>2. r \in Int /\ x = r * w + (x % w) /\ x % w \in 0 .. (w - 1)
  OBVIOUS
<1> HIDE DEF q, r
<1>3. x % w = (q - 1 - r) * w
  <2>1. x % w = q * w - w - r * w
    <3> DEFINE a == q * w
               c == r * w
               m == x % w
    <3>1. a \in Int /\ c \in Int /\ m \in Int /\ x + w = a /\ x = c + m
      BY <1>1, <1>2
    <3> HIDE DEF a, c, m
    <3>2. m = a - w - c
      BY <3>1
    <3> QED BY <3>2 DEF a, c, m
  <2>2. q * w - w - r * w = (q - 1 - r) * w
    BY <1>1, <1>2
  <2> QED BY <2>1, <2>2
<1>4. q - 1 - r < 1
  BY <1>1, <1>2, <1>3
<1>5. q - 1 - r >= 0
  BY <1>1, <1>2, <1>3
<1> QED BY <1>1, <1>2, <1>3, <1>4, <1>5

(* A sector is full when as many words have been moved as it has.          *)
LEMMA SectorFull ==
  ASSUME NEW left \in Nat \ {0}, NEW done \in 0 .. (Words - 1),
         (left + done) % Words = 0, (left - 1) % Words = 0
  PROVE  done = Words - 1
<1>1. Words \in Nat \ {0}
  BY SizeFacts
<1> DEFINE q == (left - 1) \div Words
           r == (left + done) \div Words
<1>2. q \in Int /\ left - 1 = q * Words
  BY <1>1
<1>3. r \in Int /\ left + done = r * Words
  BY <1>1
<1> HIDE DEF q, r
<1>4. done + 1 = (r - q) * Words
  BY <1>1, <1>2, <1>3
<1>5. r - q >= 1
  BY <1>1, <1>2, <1>3, <1>4
<1>6. r - q < 2
  BY <1>1, <1>2, <1>3, <1>4
<1>7. r - q = 1
  BY <1>2, <1>3, <1>5, <1>6
<1> QED BY <1>1, <1>4, <1>7
-----------------------------------------------------------------------------
Types ==
  /\ media = [b \in Buses |-> media[b]]
  /\ dev \in [Buses -> [state : {"ready", "busy", "in", "out"}, err : BOOLEAN,
                        at : Nat, left : Nat]]
  /\ \A b \in Buses : dev[b].state \in {"in", "out"} => dev[b].left # 0
  /\ buf = [k \in Bytes |-> buf[k]]
  /\ i \in Nat
  /\ bus \in Buses \cup {None}
  /\ packet # NoCall => pc \in {"command", "words"} /\ packet \in Packets

(* Where the kernel can be, and that it has a bus when it sends packets.   *)
KernelAt ==
  who = "kernel" =>
    /\ pc \in {"primary", "secondary", "detect", "command", "words", "idle"}
    /\ pc \in {"detect", "command", "words", "idle"} => bus \in Buses
    /\ pc \in {"primary", "secondary", "detect"} => got = NoCall /\ packet = NoCall
    /\ pc \in {"command", "words"} /\ got = NoCall => packet = Read(Epm)
    /\ pc \in {"command", "words"} => packet # NoCall
    /\ pc = "idle" => got # NoCall

(* What has been read of the EPM block is on the medium; words that failed *)
(* are nothing.                                                            *)
Due(d) == d.state \in {"in", "out"} \/ (d.state = "busy" /\ d.left # 0)

Reading ==
  who = "kernel" /\ pc = "words" /\ got = NoCall =>
    /\ \A k \in 0 .. (i - 1) : buf[k] = None \/ buf[k] = media[bus][k]
    /\ Due(dev[bus]) => dev[bus].at = i
    /\ dev[bus].state # "out"

(* A packet on its way stays behind its first sector's start.              *)
Behind(d) ==
  Due(d) => \E done \in 0 .. (Words - 1) :
              /\ d.at - done >= Sector(packet.at, SectorSz) * Words
              /\ (d.left + done) % Words = 0

Writing ==
  who = "kernel" /\ pc = "words" /\ packet.op = "write" =>
    packet.at # Epm /\ Behind(dev[bus])

(* Once the kernel has looked, it writes only where there is an EPM block. *)
Looked ==
  who = "kernel" /\ got # NoCall =>
    /\ pc \in {"command", "words"} /\ packet.op = "write" => packet.at # Epm /\ ~readOnly
    /\ pc \in {"command", "words", "idle"} => readOnly \/ Stored(bus, Epm) = Magic

IInv == Types /\ KernelAt /\ Reading /\ Writing /\ Looked
-----------------------------------------------------------------------------
LEMMA AtStart == Init => IInv
BY DEF Init, IInv, Types, KernelAt, Reading, Writing, Looked, Idle, Buses

LEMMA PacketFacts ==
  /\ \A p \in Places :
       /\ Read(p) # NoCall /\ Read(p).op = "read" /\ Read(p).at = p /\ Read(p) \in Packets
       /\ \A v \in Values \cup {Magic} :
            /\ Write(p, v) # NoCall /\ Write(p, v) \in Packets
            /\ Write(p, v).op = "write" /\ Write(p, v).at = p
  /\ \A q \in Packets : /\ q.at \in Places /\ q.op \in {"read", "write"}
                        /\ q.op = "read" => q = Read(q.at)
BY PlacesAssumption DEF Read, Write, Packets

(* The EPM block is what it was when its words are.                        *)
LEMMA StoredKept ==
  ASSUME NEW b \in Buses, \A k \in 0 .. (Kept(Epm) - 1) : media'[b][k] = media[b][k]
  PROVE  Stored(b, Epm)' = Magic <=> Stored(b, Epm) = Magic
<1>1. Stored(b, Epm)' = Magic <=> \A k \in 0 .. (Kept(Epm) - 1) : media'[b][k] = <<Magic, k>>
  <2> DEFINE f == [k \in 0 .. (Kept(Epm) - 1) |-> media'[b][Sector(Epm, SectorSz) * Words + k]]
  <2>1. Stored(b, Epm)' = ValueOf(Epm, f)
    BY DEF Stored
  <2>2. \A k \in 0 .. (Kept(Epm) - 1) : f[k] = media'[b][k]
    BY EpmFirst, KeptFacts
  <2> HIDE DEF f
  <2> QED BY <2>1, <2>2, MagicRead
<1> QED BY <1>1, EpmStored

LEMMA OthersKeep ==
  ASSUME IInv, \/ Start \/ Check \/ Format \/ HandOver \/ Detect \/ Call
               \/ PowerLoss \/ UNCHANGED vars
  PROVE  IInv'
<1> USE DEF IInv, system
<1>0. ASSUME UNCHANGED media, bus \in Buses PROVE Stored(bus, Epm)' = Stored(bus', Epm)
  BY <1>0 DEF Stored
<1>1. CASE Start
  BY <1>1 DEF Start, Types, KernelAt, Reading, Writing, Looked
<1>2. CASE Check
  BY <1>2, SizeFacts, PacketFacts DEF Check, Types, KernelAt, Reading, Writing, Looked
<1>3. CASE Format
  <2>1. packet' # NoCall => pc' \in {"command", "words"} /\ packet' \in Packets
    BY <1>3, SizeFacts, PacketFacts DEF Format
  <2> QED BY <1>3, <2>1 DEF Format, Types, KernelAt, Reading, Writing, Looked
<1>4. CASE HandOver
  <2>1. Types' /\ Reading' /\ Writing' /\ Looked'
    BY <1>4 DEF HandOver, Types, Reading, Writing, Looked
  <2> QED BY <1>4, <2>1 DEF HandOver, KernelAt, Types
<1>5. CASE Detect
  BY <1>5, SizeFacts, PacketFacts DEF Detect, Types, KernelAt, Reading, Writing, Looked
<1>6. CASE Call
  <2>1. PICK p \in Places : \/ packet' = Read(p)
                            \/ ~readOnly /\ p # Epm /\ \E v \in Values : packet' = Write(p, v)
    BY <1>6 DEF Call
  <2>2. packet' # NoCall /\ packet' \in Packets
        /\ (packet'.op = "write" => ~readOnly /\ packet'.at # Epm)
    BY <2>1, PacketFacts
  <2>3. /\ pc = "idle" /\ pc' = "command" /\ who = "kernel"
        /\ UNCHANGED <<media, dev, i, buf, got, bus, readOnly, who>>
    BY <1>6 DEF Call
  <2>4. bus \in Buses /\ got # NoCall /\ (readOnly \/ Stored(bus, Epm) = Magic)
    BY <2>3 DEF KernelAt, Looked
  <2>5. Stored(bus, Epm)' = Stored(bus, Epm)
    BY <2>3 DEF Stored
  <2> QED BY <2>2, <2>3, <2>4, <2>5 DEF Types, KernelAt, Reading, Writing, Looked
<1>7. CASE PowerLoss
  BY <1>7 DEF PowerLoss, Types, KernelAt, Reading, Writing, Looked, Idle
<1>8. CASE UNCHANGED vars
  BY <1>8 DEF vars, Types, KernelAt, Reading, Writing, Looked, Stored, Behind
<1> QED BY <1>1, <1>2, <1>3, <1>4, <1>5, <1>6, <1>7, <1>8
LEMMA ProbeKeeps ==
  ASSUME IInv, NEW b \in Buses, Probe(b)
  PROVE  IInv'
<1>1. /\ pc = b /\ pc \in {"primary", "secondary"} /\ packet = NoCall
      /\ bus' \in Buses /\ UNCHANGED <<media, who, readOnly, packet, i, buf, got>>
      /\ pc' \in {"secondary", "detect", "check", "idle"}
      /\ pc' \in {"check", "idle"} => who # "kernel"
      /\ dev' = dev \/ dev' = [dev EXCEPT ![b] = Idle]
  BY DEF Probe, Buses, IInv, Types
<1>2. CASE dev' = dev
  BY <1>1, <1>2 DEF IInv, Types, KernelAt, Reading, Writing, Looked
<1>3. CASE dev' = [dev EXCEPT ![b] = Idle]
  <2>1. Types'
    BY <1>1, <1>3 DEF IInv, Types, Idle
  <2> QED BY <1>1, <2>1 DEF IInv, KernelAt, Reading, Writing, Looked
<1> QED BY <1>1, <1>2, <1>3

(* The command of a packet: the device has nothing yet.                    *)
LEMMA CommandKeeps ==
  ASSUME IInv, Command, packet # NoCall
  PROVE  IInv'
<1>1. /\ pc = "command" /\ pc' = "words" /\ i' = 0
      /\ UNCHANGED <<media, packet, buf, got, who, bus, readOnly>>
      /\ dev' = [dev EXCEPT ![bus] =
                   [state |-> "busy", err |-> FALSE, at |-> Sector(packet.at, Unit) * Words,
                    left |-> Count(packet.at, Unit) * Words]]
  BY DEF Command, system
<1>2. CASE who = "kernel"
  <2>1. Unit = SectorSz /\ packet.at \in Places /\ bus \in Buses
    BY <1>1, <1>2, PacketFacts DEF Unit, IInv, KernelAt, Types
  <2>2. dev'[bus].state = "busy" /\ dev'[bus].at = Sector(packet.at, SectorSz) * Words
        /\ dev'[bus].left = Count(packet.at, SectorSz) * Words
    BY <1>1, <2>1 DEF IInv, Types
  <2>3. Types'
    BY <1>1, <2>1, <2>2, CountFacts DEF IInv, Types
  <2>4. Reading'
    BY <1>1, <1>2, <2>2, EpmFirst, SizeFacts, PacketFacts DEF IInv, KernelAt, Reading
  <2>5. (dev'[bus].left + 0) % Words = 0
    BY <2>1, <2>2, CountFacts, SizeFacts
  <2>6. dev'[bus].at - 0 >= Sector(packet.at, SectorSz) * Words /\ 0 \in 0 .. (Words - 1)
    BY <2>1, <2>2, CountFacts, SizeFacts
  <2>7. packet.op = "write" => packet.at # Epm
    BY <1>1, <1>2, SizeFacts, PacketFacts DEF IInv, KernelAt, Looked
  <2>8. Writing'
    BY <1>1, <2>1, <2>5, <2>6, <2>7 DEF Writing, Behind
  <2>9. Stored(bus, Epm)' = Stored(bus, Epm)
    BY <1>1 DEF Stored
  <2> QED BY <1>1, <1>2, <2>1, <2>3, <2>4, <2>8, <2>9 DEF IInv, KernelAt, Looked
<1>3. CASE who # "kernel"
  <2>1. /\ Unit = Size[packet.at] /\ packet.at \in Places
        /\ Sector(packet.at, Unit) * Words \in Nat /\ Count(packet.at, Unit) * Words \in Nat
    BY <1>1, <1>3, UnitFacts, PacketFacts DEF Unit, IInv, Types
  <2>2. Types'
    BY <1>1, <2>1 DEF IInv, Types
  <2> QED BY <1>1, <1>3, <2>2 DEF IInv, KernelAt, Reading, Writing, Looked
<1> QED BY <1>2, <1>3

(* A word moved by the device.                                             *)
LEMMA MovedFacts ==
  ASSUME NEW d \in [state : {"ready", "busy", "in", "out"}, err : BOOLEAN, at : Nat, left : Nat],
         d.state \in {"in", "out"}, d.left # 0
  PROVE  /\ Moved(d) \in [state : {"ready", "busy", "in", "out"}, err : BOOLEAN,
                          at : Nat, left : Nat]
         /\ Moved(d).at = d.at + 1 /\ Moved(d).left = d.left - 1
         /\ Moved(d).state \in {"busy", d.state}
         /\ Moved(d).state = "busy" <=> (d.left - 1) % Words = 0
         /\ Moved(d).state \in {"in", "out"} => Moved(d).left # 0
<1>1. d.left - 1 \in Nat /\ d.at + 1 \in Nat
  OBVIOUS
<1>2. 0 % Words = 0
  BY SizeFacts
<1> QED BY <1>1, <1>2 DEF Moved

LEMMA TakeKeeps ==
  ASSUME IInv, Take, packet # NoCall
  PROVE  IInv'
<1> DEFINE d == dev[bus]
<1>1. /\ pc = "words" /\ packet.op = "read" /\ i < Size[packet.at] /\ i' = i + 1
      /\ UNCHANGED <<media, pc, packet, got, who, bus, readOnly>> /\ d.state # "busy"
      /\ \/ /\ d.state = "in" /\ buf' = [buf EXCEPT ![i] = media[bus][d.at]]
            /\ dev' = [dev EXCEPT ![bus] = Moved(d)]
         \/ /\ d.state # "in" /\ buf' = [buf EXCEPT ![i] = None] /\ dev' = dev
  BY DEF Take, system
<1>2. Types'
  <2>1. CASE bus \in Buses
    BY <1>1, <2>1, MovedFacts DEF IInv, Types
  <2>2. CASE bus = None /\ bus \notin Buses
    BY <1>1, <2>2 DEF IInv, Types
  <2> QED BY <2>1, <2>2 DEF IInv, Types
<1>3. Reading'
  <2> SUFFICES ASSUME who = "kernel", got = NoCall
      PROVE  /\ \A k \in 0 .. i : buf'[k] = None \/ buf'[k] = media[bus][k]
             /\ Due(dev'[bus]) => dev'[bus].at = i + 1
             /\ dev'[bus].state # "out"
    BY <1>1 DEF Reading, IInv, Types, Due
  <2>1. packet = Read(Epm) /\ bus \in Buses /\ packet.at = Epm
    BY <1>1, SizeFacts, PacketFacts DEF IInv, KernelAt
  <2>2. /\ \A k \in 0 .. (i - 1) : buf[k] = None \/ buf[k] = media[bus][k]
        /\ Due(d) => d.at = i
        /\ d.state # "out"
    BY <1>1 DEF IInv, Reading
  <2>3. i \in Nat /\ i \in Bytes
    <3>1. i \in Nat
      BY DEF IInv, Types
    <3>2. 0 .. (Size[Epm] - 1) \subseteq Bytes /\ Size[Epm] \in Nat /\ i < Size[Epm]
      BY <1>1, <2>1, SizeFacts DEF Bytes
    <3> QED BY <3>1, <3>2
  <2>4. \A k \in 0 .. i : buf'[k] = None \/ buf'[k] = media[bus][k]
    <3>1. buf = [k \in Bytes |-> buf[k]]
      BY DEF IInv, Types
    <3>2. buf'[i] = None \/ buf'[i] = media[bus][i]
      BY <1>1, <2>2, <2>3, <3>1 DEF Due
    <3>3. ASSUME NEW k \in 0 .. (i - 1) PROVE buf'[k] = buf[k]
      <4>1. k # i
        BY <2>3
      <4>2. PICK x : buf' = [buf EXCEPT ![i] = x]
        BY <1>1
      <4> QED BY <3>1, <4>1, <4>2
    <3>4. \A k \in 0 .. i : k = i \/ k \in 0 .. (i - 1)
      BY <2>3
    <3> QED BY <2>2, <3>2, <3>3, <3>4
  <2>5. CASE d.state = "in"
    BY <1>1, <2>1, <2>2, <2>4, <2>5, MovedFacts DEF IInv, Types, Due
  <2>6. CASE d.state # "in"
    BY <1>1, <2>2, <2>4, <2>6 DEF Due
  <2> QED BY <2>5, <2>6
<1>4. Stored(bus, Epm)' = Stored(bus, Epm)
  BY <1>1 DEF Stored
<1> QED BY <1>1, <1>2, <1>3, <1>4 DEF IInv, KernelAt, Writing, Looked

(* The words of a sector that is written lie behind the EPM block, so that *)
(* this stays; the next word goes behind them.                             *)
LEMMA PutKeeps ==
  ASSUME IInv, Put, packet # NoCall
  PROVE  IInv'
<1> DEFINE d == dev[bus]
<1>1. /\ pc = "words" /\ packet.op = "write" /\ i' = i + 1
      /\ UNCHANGED <<buf, pc, packet, got, who, bus, readOnly>> /\ d.state # "busy"
      /\ \/ /\ d.state = "out" /\ media' = [media EXCEPT ![bus] = Written(d)]
            /\ dev' = [dev EXCEPT ![bus] = Moved(d)]
         \/ /\ d.state # "out" /\ media' = media /\ dev' = dev
  BY DEF Put, system
<1>2. Types'
  <2>1. CASE bus \in Buses
    BY <1>1, <2>1, MovedFacts DEF IInv, Types
  <2>2. CASE bus = None /\ bus \notin Buses
    BY <1>1, <2>2 DEF IInv, Types
  <2> QED BY <2>1, <2>2 DEF IInv, Types
<1>3. CASE who # "kernel"
  BY <1>1, <1>2, <1>3 DEF IInv, KernelAt, Reading, Writing, Looked
<1>4. CASE who = "kernel"
  <2>1. /\ packet.at \in Places /\ packet.at # Epm /\ got # NoCall /\ bus \in Buses
        /\ Behind(d) /\ i \in Nat
    BY <1>1, <1>4, SizeFacts, PacketFacts DEF IInv, Types, KernelAt, Writing, Looked
  <2>2. CASE d.state # "out"
    <3>1. Stored(bus, Epm)' = Stored(bus, Epm)
      BY <1>1, <2>2 DEF Stored
    <3> QED BY <1>1, <1>2, <2>1, <2>2, <3>1 DEF IInv, KernelAt, Reading, Writing, Looked, Behind
  <2>3. CASE d.state = "out"
    <3> DEFINE S == Sector(packet.at, SectorSz) * Words
    <3>1. S \in Nat /\ Kept(Epm) =< S /\ Words \in Nat \ {0} /\ Kept(Epm) \in Nat
      BY <2>1, CountFacts, PlacesAssumption, SizeFacts, KeptFacts
    <3>2. PICK done \in 0 .. (Words - 1) : d.at - done >= S /\ (d.left + done) % Words = 0
      BY <2>1, <2>3 DEF Behind, Due
    <3>3. d.left \in Nat \ {0} /\ d.at \in Nat
      BY <2>1, <2>3 DEF IInv, Types
    <3>4. /\ dev'[bus].at = d.at + 1 /\ dev'[bus].left = d.left - 1
          /\ dev'[bus].state \in {"busy", "out"}
          /\ Moved(d).state = dev'[bus].state
          /\ dev'[bus].state = "busy" <=> (d.left - 1) % Words = 0
      BY <1>1, <2>1, <2>3, MovedFacts DEF IInv, Types
    <3> HIDE DEF S
    <3>5. CASE dev'[bus].state = "busy"
      <4>1. done = Words - 1
        BY <3>2, <3>3, <3>4, <3>5, SectorFull
      <4>2. \A k \in 0 .. (Kept(Epm) - 1) : k \notin (d.at - Words + 1) .. d.at
        BY <3>1, <3>2, <3>3, <4>1
      <4>3. \A k \in 0 .. (Kept(Epm) - 1) : Written(d)[k] = media[bus][k]
        BY <3>4, <3>5, <4>2, KeptFacts DEF Written
      <4>4. \A k \in 0 .. (Kept(Epm) - 1) : media'[bus][k] = media[bus][k]
        BY <1>1, <2>1, <2>3, <4>3 DEF IInv, Types
      <4>5. Behind(d)'
        <5>1. (dev'[bus].left + 0) % Words = 0
          BY <3>3, <3>4, <3>5
        <5>2. dev'[bus].at - 0 >= S /\ 0 \in 0 .. (Words - 1)
          BY <3>1, <3>2, <3>3, <3>4
        <5> QED BY <1>1, <5>1, <5>2 DEF Behind, S
      <4> QED BY <1>1, <1>2, <2>1, <4>4, <4>5, StoredKept
              DEF IInv, KernelAt, Reading, Writing, Looked
    <3>6. CASE dev'[bus].state = "out"
      <4>1. Written(d) = media[bus]
        BY <3>4, <3>6 DEF Written
      <4>2. \A k \in 0 .. (Kept(Epm) - 1) : media'[bus][k] = media[bus][k]
        BY <1>1, <2>1, <2>3, <4>1 DEF IInv, Types
      <4>3. done + 1 \in 0 .. (Words - 1)
        <5>1. CASE done = Words - 1
          <6>1. d.left + (Words - 1) = (d.left - 1) + Words
            BY <3>1, <3>3
          <6> QED BY <3>1, <3>2, <3>3, <3>4, <3>6, <5>1, <6>1, OneSectorLess
        <5> QED BY <3>1, <5>1
      <4>4. Behind(d)'
        <5>1. /\ dev'[bus].left + (done + 1) = d.left + done
              /\ dev'[bus].at - (done + 1) = d.at - done
          BY <3>2, <3>3, <3>4
        <5> QED BY <1>1, <3>2, <4>3, <5>1 DEF Behind, S
      <4> QED BY <1>1, <1>2, <2>1, <4>2, <4>4, StoredKept
              DEF IInv, KernelAt, Reading, Writing, Looked
    <3> QED BY <3>4, <3>5, <3>6
  <2> QED BY <2>2, <2>3
<1> QED BY <1>3, <1>4

(* The kernel finds the magic only when the medium has it: a word that     *)
(* failed is no word of an EPM block.                                      *)
LEMMA MountedKeeps ==
  ASSUME IInv, Mounted, packet # NoCall
  PROVE  IInv'
<1>1. /\ pc = "words" /\ i = Size[packet.at] /\ packet' = NoCall /\ i' = 0
      /\ pc' = After /\ buf' = [k \in Bytes |-> None]
      /\ got' = IF packet.op = "read" THEN [packet EXCEPT !.value = ValueOf(packet.at, buf)] ELSE got
      /\ readOnly' = IF who = "kernel" /\ got = NoCall THEN got'.value # Magic ELSE readOnly
      /\ UNCHANGED <<media, dev, who, bus>>
  BY DEF Mounted, Finish, ReadOnlyKind
<1>2. Types'
  BY <1>1 DEF IInv, Types
<1>3. CASE who # "kernel"
  BY <1>1, <1>2, <1>3 DEF IInv, KernelAt, Reading, Writing, Looked
<1>4. CASE who = "kernel"
  <2>1. pc' = "idle" /\ bus \in Buses /\ packet \in Packets
    <3>1. After = "idle"
      BY <1>4 DEF After
    <3> QED BY <1>1, <1>4, <3>1 DEF IInv, KernelAt, Types
  <2>2. packet.op = "read" => got' # NoCall /\ got'.value = ValueOf(packet.at, buf)
    <3>1. ASSUME packet.op = "read" PROVE packet = Read(packet.at) /\ packet.at \in Places
      BY <2>1, <3>1, PacketFacts
    <3>2. ASSUME packet.op = "read"
          PROVE  got' \in [op : {"read", "write"}, at : Places, value : Values \cup {Magic, Torn}]
      BY <1>1, <3>1, <3>2, ValueType DEF Read
    <3> QED BY <1>1, <3>1, <3>2, PlacesAssumption DEF Read
  <2>3. Stored(bus, Epm)' = Stored(bus, Epm)
    BY <1>1 DEF Stored
  <2>4. got' # NoCall /\ (readOnly' \/ Stored(bus, Epm) = Magic)
    <3>1. CASE got # NoCall
      BY <1>1, <1>4, <2>2, <3>1 DEF IInv, Looked
    <3>2. CASE got = NoCall
      <4>1. packet.op = "read" /\ packet.at = Epm
        BY <1>1, <1>4, <3>2, SizeFacts, PacketFacts DEF IInv, KernelAt
      <4>2. \A k \in 0 .. (Size[Epm] - 1) : buf[k] = None \/ buf[k] = media[bus][k]
        BY <1>1, <1>4, <3>2, <4>1 DEF IInv, Reading
      <4>3. ASSUME ValueOf(Epm, buf) = Magic, NEW k \in 0 .. (Kept(Epm) - 1)
            PROVE  media[bus][k] = <<Magic, k>>
        <5>1. buf[k] = <<Magic, k>> /\ k \in Bytes
          BY <4>3, MagicRead, KeptFacts
        <5>2. None # <<Magic, k>>
          BY <5>1, PlacesAssumption
        <5>3. k \in 0 .. (Size[Epm] - 1)
          BY KeptFacts, SizeFacts
        <5> QED BY <4>2, <5>1, <5>2, <5>3
      <4> QED BY <1>1, <1>4, <2>1, <2>2, <3>2, <4>1, <4>3, EpmStored
    <3> QED BY <3>1, <3>2
  <2> QED BY <1>1, <1>2, <2>1, <2>3, <2>4 DEF IInv, KernelAt, Reading, Writing, Looked
<1> QED BY <1>3, <1>4

(* The device answers what the command asked, or gives up.                 *)
LEMMA DeviceKeeps ==
  ASSUME IInv, NEW b \in Buses, Answer(b) \/ Fault(b)
  PROVE  IInv'
<1>1. UNCHANGED <<media, pc, packet, i, buf, got, who, bus, readOnly>> /\ dev[b].state = "busy"
  BY DEF Answer, Fault, system
<1>2. Stored(bus, Epm)' = Stored(bus, Epm)
  BY <1>1 DEF Stored
<1>3. CASE Answer(b)
  <2>1. /\ dev' = [dev EXCEPT ![b].state = dev'[b].state]
        /\ dev'[b].state \in {"ready", "in", "out"}
        /\ dev'[b].state \in {"in", "out"} => dev[b].left # 0
        /\ packet # NoCall /\ packet.op = "read" => dev'[b].state # "out"
    BY <1>3 DEF Answer, IInv, Types
  <2>2. Types'
    BY <1>1, <2>1 DEF IInv, Types
  <2>3. \A c \in Buses : /\ dev'[c].at = dev[c].at /\ dev'[c].left = dev[c].left
                         /\ Due(dev'[c]) => Due(dev[c])
    BY <1>1, <2>1 DEF IInv, Types, Due
  <2>4. Reading'
    <3> SUFFICES ASSUME who = "kernel", pc = "words", got = NoCall
        PROVE  /\ Due(dev'[bus]) => dev'[bus].at = i
               /\ dev'[bus].state # "out"
      BY <1>1 DEF IInv, Reading, Due
    <3>1. bus \in Buses /\ packet # NoCall /\ packet.op = "read"
      BY SizeFacts, PacketFacts DEF IInv, KernelAt
    <3> QED BY <2>1, <2>3, <3>1 DEF IInv, Types, Reading
  <2>5. Writing'
    BY <1>1, <2>3 DEF IInv, KernelAt, Writing, Behind
  <2> QED BY <1>1, <1>2, <2>2, <2>4, <2>5 DEF IInv, KernelAt, Looked
<1>4. CASE Fault(b)
  <2>1. dev' = [dev EXCEPT ![b] = [Idle EXCEPT !.err = TRUE]]
    BY <1>4 DEF Fault
  <2>2. Types'
    BY <1>1, <2>1 DEF IInv, Types, Idle
  <2>3. \A c \in Buses : dev'[c] = dev[c] \/ (dev'[c].state = "ready")
    BY <2>1 DEF IInv, Types, Idle
  <2>4. Reading' /\ Writing'
    BY <1>1, <2>3 DEF IInv, KernelAt, Reading, Writing, Behind, Due
  <2> QED BY <1>1, <1>2, <2>2, <2>4 DEF IInv, KernelAt, Looked
<1> QED BY <1>3, <1>4

LEMMA Inductive == IInv /\ [Next]_vars => IInv'
<1> SUFFICES ASSUME IInv, [Next]_vars PROVE IInv'
  OBVIOUS
<1>1. ASSUME NEW b \in Buses, Probe(b) PROVE IInv'
  BY <1>1, ProbeKeeps
<1>2. ASSUME packet # NoCall, Command \/ Take \/ Put \/ Mounted PROVE IInv'
  BY <1>2, CommandKeeps, TakeKeeps, PutKeeps, MountedKeeps
<1>3. CASE Driver
  BY <1>1, <1>2, <1>3, OthersKeep
     DEF Driver, BootProbe, KernelProbe, BootRead, BootWrite, KernelRead, KernelWrite
<1>4. CASE Call \/ PowerLoss \/ UNCHANGED vars \/ Spin
  BY <1>4, OthersKeep DEF Spin
<1>5. CASE Devices \/ \E b \in Buses : Fault(b)
  BY <1>5, DeviceKeeps DEF Devices
<1> QED BY <1>3, <1>4, <1>5 DEF Next
-----------------------------------------------------------------------------
(* Every write of the kernel goes to a device on which its first read      *)
(* found the EPM block, which no write has touched since: whatever the     *)
(* devices fail at, the layout of the structures and the number of         *)
(* restarts (DriveMgr.cc:150, ATA.cc:131).                                 *)
THEOREM EpmGuarded == Spec => OnlyEpmWritten
<1>1. Init => IInv
  BY AtStart
<1>2. IInv /\ [Next]_vars => IInv'
  BY Inductive
<1>3. IInv /\ [Next]_vars => [who = "kernel" /\ media' # media => Stored(bus, Epm) = Magic]_vars
  <2> SUFFICES ASSUME IInv, Next, who = "kernel", media' # media
      PROVE  Stored(bus, Epm) = Magic
    BY DEF vars
  <2>1. Put /\ packet # NoCall /\ packet.op = "write" /\ pc = "words"
    BY DEF Next, Driver, Devices, Start, Check, Format, HandOver, Detect, Call, Answer, Fault,
       PowerLoss, Spin, BootProbe, KernelProbe, Probe, BootRead, BootWrite, KernelRead,
       KernelWrite, Command, Take, Put, Mounted, Finish, vars
  <2>2. got # NoCall
    BY <2>1, SizeFacts, PacketFacts DEF IInv, KernelAt
  <2> QED BY <2>1, <2>2 DEF IInv, Looked
<1> QED BY <1>1, <1>2, <1>3, PTL DEF Spec, OnlyEpmWritten
-----------------------------------------------------------------------------
(* The layout of the disk: what a command asks for lies on the medium, a   *)
(* structure takes a sector's words or more, the superblock a sector and   *)
(* the EPM block no more (OpenNeFS.h:94, EPM.h), and no structure's words  *)
(* are another's.                                                          *)
Fits(p, sz) == Sector(p, sz) + Count(p, sz) =< Sectors
LaidOut ==
  /\ \A p \in Places : Fits(p, SectorSz) /\ Words =< Size[p]
  /\ Fits(Epm, Size[Epm]) /\ Size[Epm] =< SectorSz /\ Size[Super] = SectorSz
  /\ \A p \in Places, q \in Places : p # q =>
       \A j \in 0 .. (Size[p] - 1), k \in 0 .. (Kept(q) - 1) :
         Sector(p, SectorSz) * Words + j # Sector(q, SectorSz) * Words + k

(* Whoever runs has a bus once he has looked, and a packet when he sends   *)
(* one; the bootloader's are the superblock and the EPM block.             *)
BusAndPacket ==
  /\ pc = "secondary" => bus = "secondary"
  /\ pc \in {"check", "checked", "epm", "detect", "idle", "command", "words"} => bus \in Buses
  /\ pc \in {"command", "words"} => packet # NoCall
  /\ who # "kernel" /\ packet # NoCall => packet.at \in {Epm, Super}

(* No device goes beyond its end, has an error that nothing caused, or is  *)
(* at work after one; and none is at work that is not there.               *)
DevicesSound ==
  \A b \in Buses : /\ dev[b].at + dev[b].left =< Sectors * Words
                   /\ faults = 0 => ~dev[b].err
                   /\ dev[b].err \/ b \notin present => dev[b].state = "ready"

(* Driver and device count the same words, until the device has moved all  *)
(* that was asked for or has failed; when the kernel is through with a     *)
(* packet, so is the device.                                               *)
First == Sector(packet.at, Unit) * Words
Asked == Count(packet.at, Unit) * Words

InStepWords ==
  /\ pc = "words" =>
       LET d == dev[bus]
       IN /\ packet.op = "read" => d.state # "out"
          /\ packet.op = "write" => d.state # "in"
          /\ i =< Size[packet.at]
          /\ Due(d) => d.left + i = Asked /\ d.at = First + i
          /\ faults = 0 /\ ~Due(d) => i >= Asked
  /\ who = "kernel" /\ pc \in {"detect", "idle", "command"} => dev[bus].state = "ready"

Agreed == InStep /\ BusAndPacket /\ DevicesSound /\ InStepWords
SInv == IInv /\ Agreed
(* The device has moved all words of a kernel's packet before the driver   *)
(* has counted all of its bytes.                                           *)
LEMMA CountFits ==
  ASSUME LaidOut, NEW p \in Places
  PROVE  Count(p, SectorSz) * Words =< Size[p]
<1> DEFINE n == Count(p, SectorSz)
<1>1. /\ n \in Nat \ {0} /\ Words \in Nat \ {0} /\ SectorSz \in Nat \ {0}
      /\ Size[p] \in Nat /\ Words =< Size[p] /\ 2 * Words =< SectorSz
  BY CountFacts, SizeFacts DEF LaidOut, Words
<1>2. (n - 1) * SectorSz =< Size[p]
  <2>1. n * SectorSz =< Size[p] + SectorSz
    BY <1>1 DEF Count
  <2> HIDE DEF n
  <2> QED BY <1>1, <2>1
<1> SUFFICES n * Words =< Size[p]
  OBVIOUS
<1> HIDE DEF n
<1>3. CASE n = 1
  BY <1>1, <1>3
<1>4. CASE n # 1
  <2>1. (n - 1) * (2 * Words) =< (n - 1) * SectorSz
    BY <1>1, <1>4
  <2>2. (n - 1) * (2 * Words) = n * Words + (n - 2) * Words
    BY <1>1
  <2>3. (n - 2) * Words >= 0
    BY <1>1, <1>4
  <2> QED
    <3> DEFINE x == n * Words
               y == (n - 2) * Words
               z == (n - 1) * SectorSz
    <3>1. x \in Int /\ y \in Int /\ z \in Int /\ x + y =< z /\ y >= 0 /\ z =< Size[p]
      BY <1>1, <1>2, <2>1, <2>2, <2>3
    <3> HIDE DEF x, y, z
    <3>2. x =< Size[p]
      BY <1>1, <3>1
    <3> QED BY <3>2 DEF x
<1> QED BY <1>3, <1>4

(* What a command asks for lies on the medium.                             *)
LEMMA AskedFits ==
  ASSUME LaidOut, NEW p \in Places, NEW sz \in {SectorSz, Size[p]},
         sz = SectorSz \/ p \in {Epm, Super}
  PROVE  /\ Sector(p, sz) * Words \in Nat /\ Count(p, sz) * Words \in Nat \ {0}
         /\ Sector(p, sz) * Words + Count(p, sz) * Words =< Sectors * Words
<1>1. Sector(p, sz) \in Nat /\ Count(p, sz) \in Nat \ {0}
  BY SizeFacts DEF Sector, Count
<1>2. Fits(p, sz)
  BY DEF LaidOut
<1>3. /\ Sectors \in Nat /\ Words \in Nat \ {0}
      /\ Sector(p, sz) + Count(p, sz) =< Sectors
  BY <1>2, SizeFacts, StorageAssumption DEF Fits
<1> DEFINE x == Sector(p, sz)
           y == Count(p, sz)
<1> HIDE DEF x, y
<1>4. x * Words + y * Words = (x + y) * Words /\ (x + y) * Words =< Sectors * Words
  BY <1>1, <1>3 DEF x, y
<1> QED BY <1>1, <1>3, <1>4, ProductType, ProductGrows DEF x, y

LEMMA TransferFacts ==
  ASSUME LaidOut, SInv, packet # NoCall
  PROVE  /\ packet \in Packets /\ packet.at \in Places /\ packet.op \in {"read", "write"}
         /\ First \in Nat /\ Asked \in Nat \ {0} /\ First + Asked =< Sectors * Words
         /\ bus \in Buses /\ Size[packet.at] \in Nat \ {0}
<1>1. packet \in Packets /\ pc \in {"command", "words"}
  BY DEF SInv, IInv, Types
<1>2. packet.at \in Places /\ packet.op \in {"read", "write"}
  BY <1>1, PacketFacts
<1>3. who # "kernel" => packet.at \in {Epm, Super}
  BY DEF SInv, Agreed, BusAndPacket
<1>4. First \in Nat /\ Asked \in Nat \ {0} /\ First + Asked =< Sectors * Words
  BY <1>2, <1>3, AskedFits DEF First, Asked, Unit
<1> QED BY <1>1, <1>2, <1>4, SizeFacts DEF SInv, Agreed, BusAndPacket

LEMMA RestingDevice ==
  ASSUME NEW e \in BOOLEAN
  PROVE  [state |-> "ready", err |-> e, at |-> 0, left |-> 0]
           \in [state : {"ready", "busy", "in", "out"}, err : BOOLEAN,
                at : 0 .. (Sectors * Words), left : Nat]
<1>1. Sectors * Words \in Nat
  BY SizeFacts, StorageAssumption, ProductType
<1>2. 0 \in 0 .. (Sectors * Words)
  BY <1>1
<1> QED BY <1>2

LEMMA AgreedAtFirst == Init => Agreed
<1> SUFFICES ASSUME Init PROVE Agreed
  OBVIOUS
<1>1. Sectors * Words \in Nat
  BY SizeFacts, StorageAssumption, ProductType
<1>2. dev = [b \in Buses |-> [state |-> "ready", err |-> FALSE, at |-> 0, left |-> 0]]
  BY DEF Init, Idle
<1>3. media \in [Buses -> [Cells -> Cell]] /\ buf \in [Bytes -> Cell]
  BY DEF Init, Cell
<1>4. TypeOK
  <2>1. dev \in [Buses -> [state : {"ready", "busy", "in", "out"}, err : BOOLEAN,
                          at : 0 .. (Sectors * Words), left : Nat]]
    BY <1>2, RestingDevice
  <2>2. faults \in 0 .. MaxFaults /\ losses \in 0 .. MaxLosses
    BY StorageAssumption DEF Init
  <2> QED BY <1>3, <2>1, <2>2 DEF Init, TypeOK
<1>5. DevicesSound
  BY <1>1, <1>2 DEF Init, DevicesSound
<1> QED BY <1>4, <1>5
        DEF Init, Agreed, InStep, SameDevice, NothingOwed, BusAndPacket, InStepWords

LEMMA OthersAgree ==
  ASSUME LaidOut, SInv, \/ Start \/ Check \/ Format \/ HandOver \/ Detect \/ Call
                        \/ PowerLoss \/ UNCHANGED vars
  PROVE  Agreed'
<1> USE DEF SInv, Agreed, InStep
<1>0. Sectors * Words \in Nat
  BY SizeFacts, StorageAssumption, ProductType
<1>1. CASE Start \/ HandOver
  BY <1>1 DEF Start, HandOver, system, IInv, Types, TypeOK, SameDevice, NothingOwed, BusAndPacket,
     DevicesSound, InStepWords
<1>2. CASE Check \/ Format \/ Detect \/ Call
  <2>1. /\ pc \in {"check", "checked", "epm", "detect", "idle"} /\ pc' = "command"
        /\ UNCHANGED <<media, dev, i, buf, got, faults, present, bus, readOnly, losses>>
        /\ who = "kernel" => pc \in {"detect", "idle"}
    BY <1>2 DEF Check, Format, Detect, Call, system, IInv, KernelAt
  <2>2. /\ packet' \in Packets /\ packet' # NoCall
        /\ who' # "kernel" => packet'.at \in {Epm, Super}
        /\ who' \in {"syschk", "boot", "kernel"} /\ (who' = "kernel" => who = "kernel")
    BY <1>2, PacketFacts, SizeFacts DEF Check, Format, Detect, Call, system, TypeOK
  <2>3. TypeOK'
    BY <2>1, <2>2 DEF TypeOK
  <2> QED BY <2>1, <2>2, <2>3 DEF SameDevice, NothingOwed, BusAndPacket, DevicesSound, InStepWords
<1>3. CASE PowerLoss
  <2>1. losses + 1 \in 0 .. MaxLosses
    BY <1>3, StorageAssumption DEF PowerLoss, TypeOK
  <2>2. dev' = [b \in Buses |-> [state |-> "ready", err |-> FALSE, at |-> 0, left |-> 0]]
    BY <1>3 DEF PowerLoss, Idle
  <2>3. buf' \in [Bytes -> Cell]
    BY <1>3 DEF PowerLoss, Cell
  <2>4. TypeOK'
    <3>1. dev' \in [Buses -> [state : {"ready", "busy", "in", "out"}, err : BOOLEAN,
                             at : 0 .. (Sectors * Words), left : Nat]]
      BY <2>2, RestingDevice
    <3>2. faults' \in 0 .. MaxFaults
      BY <1>3, StorageAssumption DEF PowerLoss
    <3> QED BY <1>3, <2>1, <2>3, <3>1, <3>2 DEF PowerLoss, TypeOK
  <2>5. DevicesSound'
    BY <1>0, <2>2 DEF DevicesSound
  <2> QED BY <1>3, <2>4, <2>5 DEF PowerLoss, SameDevice, NothingOwed, BusAndPacket, InStepWords
<1>4. CASE UNCHANGED vars
  BY <1>4 DEF vars, TypeOK, SameDevice, NothingOwed, BusAndPacket, DevicesSound, InStepWords,
     First, Asked, Unit
<1> QED BY <1>1, <1>2, <1>3, <1>4

(* With no error but those of the devices, the first device there is is    *)
(* found.                                                                  *)
LEMMA ProbeAgrees ==
  ASSUME LaidOut, SInv, NEW b \in Buses, Probe(b)
  PROVE  Agreed'
<1> USE DEF SInv, Agreed, InStep
<1>0. Sectors * Words \in Nat
  BY SizeFacts, StorageAssumption, ProductType
<1>1. /\ pc = b /\ pc \in {"primary", "secondary"} /\ packet = NoCall
      /\ UNCHANGED <<media, present, who, readOnly, losses, packet, i, buf, got, faults>>
  BY DEF Probe, Buses, IInv, Types
<1>2. CASE b \in present /\ ~dev[b].err
  <2>1. /\ bus' = b /\ pc' = IF who = "kernel" THEN "detect" ELSE "check"
        /\ dev' = [dev EXCEPT ![b] = Idle]
    BY <1>2 DEF Probe
  <2>2. TypeOK' /\ DevicesSound'
    BY <1>0, <1>1, <2>1 DEF TypeOK, DevicesSound, Idle
  <2>3. SameDevice'
    BY <1>1, <1>2, <2>1 DEF SameDevice, BusAndPacket, Buses
  <2>4. dev'[bus'].state = "ready"
    BY <1>1, <2>1 DEF TypeOK, Idle
  <2> QED BY <1>1, <2>1, <2>2, <2>3, <2>4 DEF NothingOwed, BusAndPacket, InStepWords
<1>3. CASE ~(b \in present /\ ~dev[b].err)
  <2>1. /\ bus' = "secondary" /\ dev' = dev
        /\ pc' = IF b = "primary" THEN "secondary"
                 ELSE IF who = "kernel" THEN "detect" ELSE "idle"
    BY <1>3 DEF Probe
  <2>2. TypeOK' /\ DevicesSound'
    BY <1>1, <2>1 DEF TypeOK, DevicesSound, Buses
  <2>3. SameDevice'
    BY <1>1, <1>3, <2>1 DEF SameDevice, BusAndPacket, DevicesSound, Buses
  <2>4. pc' \in {"secondary", "detect", "idle"}
    BY <2>1
  <2>5. NothingOwed'
    BY <2>4 DEF NothingOwed
  <2>6. BusAndPacket'
    BY <1>1, <2>1, <2>4 DEF BusAndPacket, Buses
  <2>7. pc' = "detect" => dev'[bus'].state = "ready"
    BY <1>1, <1>3, <2>1 DEF DevicesSound, Buses
  <2>8. InStepWords'
    BY <1>1, <2>1, <2>4, <2>7 DEF InStepWords
  <2> QED BY <2>2, <2>3, <2>5, <2>6, <2>8
<1> QED BY <1>2, <1>3

LEMMA CommandAgrees ==
  ASSUME LaidOut, SInv, Command, packet # NoCall
  PROVE  Agreed'
<1> USE DEF SInv, Agreed, InStep
<1>1. /\ pc = "command" /\ pc' = "words" /\ i' = 0
      /\ UNCHANGED <<media, packet, buf, got, faults, present, who, bus, readOnly, losses>>
      /\ dev' = [dev EXCEPT ![bus] = [state |-> "busy", err |-> FALSE, at |-> First,
                                      left |-> Asked]]
  BY DEF Command, system, First, Asked
<1>2. First' = First /\ Asked' = Asked
  BY <1>1 DEF First, Asked, Unit
<1>3. dev'[bus] = [state |-> "busy", err |-> FALSE, at |-> First, left |-> Asked]
  BY <1>1, TransferFacts DEF TypeOK
<1>4. Sectors * Words \in Nat
  BY SizeFacts, StorageAssumption, ProductType
<1>5. TypeOK'
  BY <1>1, <1>4, TransferFacts DEF TypeOK
<1>6. DevicesSound'
  <2>1. bus \in present
    BY DEF Command
  <2>2. \A c \in Buses \ {bus} : dev'[c] = dev[c]
    BY <1>1 DEF TypeOK
  <2> QED BY <1>1, <1>3, <2>1, <2>2, TransferFacts DEF DevicesSound
<1>7. InStepWords'
  BY <1>1, <1>2, <1>3, TransferFacts DEF InStepWords, Due
<1> QED BY <1>1, <1>5, <1>6, <1>7 DEF SameDevice, NothingOwed, BusAndPacket

(* Each word moved is counted by both.                                     *)
LEMMA MovedAgrees ==
  ASSUME LaidOut, SInv, packet # NoCall, pc = "words", i < Size[packet.at],
         dev[bus].state # "busy", i' = i + 1,
         UNCHANGED <<pc, packet, faults, present, who, bus, losses>>,
         \/ dev[bus].state \in {"in", "out"} /\ dev' = [dev EXCEPT ![bus] = Moved(dev[bus])]
         \/ dev[bus].state \notin {"in", "out"} /\ dev' = dev
  PROVE  /\ DevicesSound' /\ InStepWords'
         /\ dev' \in [Buses -> [state : {"ready", "busy", "in", "out"}, err : BOOLEAN,
                                at : 0 .. (Sectors * Words), left : Nat]]
<1> USE DEF SInv, Agreed, InStep
<1> DEFINE d == dev[bus]
<1>1. First' = First /\ Asked' = Asked
  BY DEF First, Asked, Unit
<1>2. Sectors * Words \in Nat /\ bus \in Buses /\ i \in Nat
  BY SizeFacts, StorageAssumption, ProductType, TransferFacts DEF TypeOK
<1>3. CASE dev[bus].state \notin {"in", "out"}
  <2>1. dev' = dev /\ ~Due(d)
    BY <1>3 DEF Due
  <2> QED BY <1>1, <1>2, <2>1, TransferFacts DEF TypeOK, DevicesSound, InStepWords
<1>4. CASE dev[bus].state \in {"in", "out"}
  <2>1. /\ Due(d) /\ d.left # 0 /\ d.left \in Nat /\ d.at \in Nat
        /\ d.left + i = Asked /\ d.at = First + i
        /\ d \in [state : {"ready", "busy", "in", "out"}, err : BOOLEAN, at : Nat, left : Nat]
    BY <1>2, <1>4 DEF Due, InStepWords, TypeOK, IInv, Types
  <2>2. /\ dev'[bus] = Moved(d) /\ Moved(d).at = d.at + 1 /\ Moved(d).left = d.left - 1
        /\ Moved(d).state \in {"busy", d.state} /\ Moved(d).err = d.err
        /\ Moved(d).state \in {"in", "out"} => Moved(d).left # 0
        /\ Moved(d) \in [state : {"ready", "busy", "in", "out"}, err : BOOLEAN,
                         at : Nat, left : Nat]
        /\ \A c \in Buses \ {bus} : dev'[c] = dev[c]
    BY <1>2, <1>4, <2>1, MovedFacts DEF TypeOK, Moved
  <2>3. Moved(d).at + Moved(d).left =< Sectors * Words
    BY <1>2, <2>1, <2>2 DEF DevicesSound
  <2>4. dev' \in [Buses -> [state : {"ready", "busy", "in", "out"}, err : BOOLEAN,
                            at : 0 .. (Sectors * Words), left : Nat]]
    <3>1. Moved(d) \in [state : {"ready", "busy", "in", "out"}, err : BOOLEAN,
                        at : 0 .. (Sectors * Words), left : Nat]
      BY <1>2, <2>1, <2>2, <2>3
    <3> QED BY <1>2, <1>4, <3>1 DEF TypeOK
  <2>5. DevicesSound'
    BY <1>2, <2>2, <2>3 DEF DevicesSound
  <2>6. Due(Moved(d)) => Moved(d).left + (i + 1) = Asked /\ Moved(d).at = First + (i + 1)
    BY <1>2, <2>1, <2>2, TransferFacts
  <2>7. ~Due(Moved(d)) => i + 1 >= Asked
    BY <1>2, <2>1, <2>2, TransferFacts DEF Due
  <2>8. i + 1 =< Size[packet.at]
    BY <1>2, TransferFacts
  <2>9. (packet.op = "read" => Moved(d).state # "out") /\ (packet.op = "write" => Moved(d).state # "in")
    BY <2>2 DEF InStepWords
  <2>10. InStepWords'
    BY <1>1, <2>2, <2>6, <2>7, <2>8, <2>9 DEF InStepWords
  <2> QED BY <2>4, <2>5, <2>10
<1> QED BY <1>3, <1>4

LEMMA TakeAgrees ==
  ASSUME LaidOut, SInv, Take, packet # NoCall
  PROVE  Agreed'
<1> USE DEF SInv, Agreed, InStep
<1> DEFINE d == dev[bus]
<1>1. /\ pc = "words" /\ packet.op = "read" /\ i < Size[packet.at] /\ i' = i + 1
      /\ UNCHANGED <<media, pc, packet, got, faults, present, who, bus, readOnly, losses>>
      /\ d.state # "busy"
      /\ \/ /\ d.state = "in" /\ buf' = [buf EXCEPT ![i] = media[bus][d.at]]
            /\ dev' = [dev EXCEPT ![bus] = Moved(d)]
         \/ /\ d.state # "in" /\ buf' = [buf EXCEPT ![i] = None] /\ dev' = dev
  BY DEF Take, system
<1>2. d.state # "out"
  BY <1>1 DEF InStepWords
<1>3. /\ DevicesSound' /\ InStepWords'
      /\ dev' \in [Buses -> [state : {"ready", "busy", "in", "out"}, err : BOOLEAN,
                             at : 0 .. (Sectors * Words), left : Nat]]
  BY <1>1, <1>2, MovedAgrees
<1>4. buf' \in [Bytes -> Cell]
  <2>1. CASE d.state = "in"
    <3>1. d.at \in Cells
      <4>1. d.left # 0 /\ d.left \in Nat /\ d.at \in Nat /\ d.at + d.left =< Sectors * Words
        BY <2>1, TransferFacts DEF IInv, Types, DevicesSound
      <4>2. Sectors * Words \in Nat
        BY SizeFacts, StorageAssumption, ProductType
      <4> QED BY <4>1, <4>2 DEF Cells
    <3>2. media[bus][d.at] \in Cell
      BY <3>1, TransferFacts DEF TypeOK
    <3> QED BY <1>1, <2>1, <3>2 DEF TypeOK
  <2>2. CASE d.state # "in"
    BY <1>1, <2>2 DEF TypeOK, Cell
  <2> QED BY <2>1, <2>2
<1>5. TypeOK'
  BY <1>1, <1>3, <1>4 DEF TypeOK
<1> QED BY <1>1, <1>3, <1>5 DEF SameDevice, NothingOwed, BusAndPacket

(* When a sector is full, the words in it are those the driver counted     *)
(* last.                                                                   *)
LEMMA LastOfSector ==
  ASSUME NEW left \in Nat \ {0}, NEW n \in Nat, (left - 1) % Words = 0,
         NEW asked \in Nat, left + n = asked, asked % Words = 0
  PROVE  n + 1 >= Words
<1>1. Words \in Nat \ {0}
  BY SizeFacts
<1>2. CASE n >= Words
  BY <1>1, <1>2
<1>3. CASE n < Words
  <2>1. n \in 0 .. (Words - 1) /\ (left + n) % Words = 0
    BY <1>1, <1>3
  <2>2. n = Words - 1
    BY <2>1, SectorFull
  <2> QED BY <1>1, <2>2
<1> QED BY <1>1, <1>2, <1>3

LEMMA PutAgrees ==
  ASSUME LaidOut, SInv, Put, packet # NoCall
  PROVE  Agreed'
<1> USE DEF SInv, Agreed, InStep
<1> DEFINE d == dev[bus]
<1>1. /\ pc = "words" /\ packet.op = "write" /\ i < Size[packet.at] /\ i' = i + 1
      /\ UNCHANGED <<buf, pc, packet, got, faults, present, who, bus, readOnly, losses>>
      /\ d.state # "busy"
      /\ \/ /\ d.state = "out" /\ media' = [media EXCEPT ![bus] = Written(d)]
            /\ dev' = [dev EXCEPT ![bus] = Moved(d)]
         \/ /\ d.state # "out" /\ media' = media /\ dev' = dev
  BY DEF Put, system
<1>2. d.state # "in"
  BY <1>1 DEF InStepWords
<1>3. /\ DevicesSound' /\ InStepWords'
      /\ dev' \in [Buses -> [state : {"ready", "busy", "in", "out"}, err : BOOLEAN,
                             at : 0 .. (Sectors * Words), left : Nat]]
  BY <1>1, <1>2, MovedAgrees
<1>4. media' \in [Buses -> [Cells -> Cell]]
  <2>1. CASE d.state # "out"
    BY <1>1, <2>1 DEF TypeOK
  <2>2. CASE d.state = "out"
    <3>1. /\ d.left \in Nat \ {0} /\ d.at \in Nat /\ d.left + i = Asked
          /\ d.at = First + i /\ i \in Nat
          /\ d \in [state : {"ready", "busy", "in", "out"}, err : BOOLEAN, at : Nat, left : Nat]
      BY <1>1, <2>2, TransferFacts DEF TypeOK, IInv, Types, Due, InStepWords
    <3>2. packet.value \in Values \cup {Magic}
      BY <1>1, TransferFacts DEF Packets, Read, Write
    <3>3. ASSUME Moved(d).state = "busy", NEW c \in (d.at - Words + 1) .. d.at
          PROVE  i - (d.at - c) \in Bytes
      <4>1. (d.left - 1) % Words = 0
        BY <2>2, <3>1, <3>3, MovedFacts
      <4>2. Asked % Words = 0
        <5>1. Count(packet.at, Unit) \in Nat /\ Words \in Nat \ {0}
          BY TransferFacts, SizeFacts, StorageAssumption DEF Count, Unit
        <5> QED BY <5>1 DEF Asked
      <4>3. i + 1 >= Words
        BY <3>1, <4>1, <4>2, TransferFacts, LastOfSector
      <4>4. i - (d.at - c) \in 0 .. (Size[packet.at] - 1)
        BY <1>1, <3>1, <3>3, <4>3, SizeFacts, TransferFacts
      <4> QED BY <4>4, TransferFacts DEF Bytes
    <3>4. Written(d) \in [Cells -> Cell]
      BY <3>2, <3>3, TransferFacts DEF Written, Cell, TypeOK
    <3> QED BY <1>1, <2>2, <3>4 DEF TypeOK
  <2> QED BY <2>1, <2>2
<1>5. TypeOK'
  BY <1>1, <1>3, <1>4 DEF TypeOK
<1> QED BY <1>1, <1>3, <1>5 DEF SameDevice, NothingOwed, BusAndPacket

(* The kernel is not through with a packet before the device is.           *)
LEMMA MountedAgrees ==
  ASSUME LaidOut, SInv, Mounted, packet # NoCall
  PROVE  Agreed'
<1> USE DEF SInv, Agreed, InStep
<1>1. /\ pc = "words" /\ i = Size[packet.at] /\ packet' = NoCall /\ i' = 0
      /\ pc' = After /\ buf' = [k \in Bytes |-> None] /\ dev[bus].state # "busy"
      /\ readOnly' = IF who = "kernel" /\ got = NoCall THEN got'.value # Magic ELSE readOnly
      /\ UNCHANGED <<media, dev, faults, present, who, bus, losses>>
  BY DEF Mounted, Finish, ReadOnlyKind
<1>2. pc' \in {"idle", "checked", "epm"} /\ (who = "kernel" => pc' = "idle")
  BY <1>1 DEF After
<1>3. TypeOK'
  BY <1>1, <1>2 DEF TypeOK, Cell
<1>4. who = "kernel" => dev[bus].state = "ready"
  <2> SUFFICES ASSUME who = "kernel", dev[bus].state \in {"in", "out"} PROVE FALSE
    BY <1>1, TransferFacts DEF TypeOK
  <2>1. dev[bus].left \in Nat \ {0} /\ dev[bus].left + i = Asked
    BY <1>1, TransferFacts DEF TypeOK, IInv, Types, Due, InStepWords
  <2>2. Asked =< Size[packet.at]
    BY CountFits, TransferFacts DEF Asked, Unit
  <2> QED BY <1>1, <2>1, <2>2, TransferFacts
<1> QED BY <1>1, <1>2, <1>3, <1>4, TransferFacts
        DEF SameDevice, NothingOwed, BusAndPacket, DevicesSound, InStepWords

LEMMA DeviceAgrees ==
  ASSUME LaidOut, SInv, NEW b \in Buses, Answer(b) \/ Fault(b)
  PROVE  Agreed'
<1> USE DEF SInv, Agreed, InStep
<1>1. /\ UNCHANGED <<media, pc, packet, i, buf, got, present, who, bus, readOnly, losses>>
      /\ dev[b].state = "busy"
  BY DEF Answer, Fault, system
<1>2. First' = First /\ Asked' = Asked
  BY <1>1 DEF First, Asked, Unit
<1>3. Sectors * Words \in Nat
  BY SizeFacts, StorageAssumption, ProductType
<1>4. CASE Answer(b)
  <2>1. /\ faults' = faults /\ \A c \in Buses \ {b} : dev'[c] = dev[c]
        /\ dev'[b].at = dev[b].at /\ dev'[b].left = dev[b].left /\ dev'[b].err = dev[b].err
        /\ dev'[b].state = IF dev[b].left = 0 THEN "ready"
                           ELSE IF packet.op = "read" THEN "in" ELSE "out"
        /\ dev' \in [Buses -> [state : {"ready", "busy", "in", "out"}, err : BOOLEAN,
                               at : 0 .. (Sectors * Words), left : Nat]]
    BY <1>4 DEF Answer, TypeOK
  <2>2. TypeOK' /\ DevicesSound'
    BY <1>1, <2>1 DEF TypeOK, DevicesSound
  <2>3. InStepWords'
    <3>1. pc = "words" => packet # NoCall
      BY DEF BusAndPacket
    <3>2. Due(dev'[b]) <=> Due(dev[b])
      BY <1>1, <2>1 DEF Due
    <3>3. CASE b = bus
      BY <1>1, <1>2, <2>1, <3>1, <3>2, <3>3, TransferFacts DEF InStepWords
    <3>4. CASE b # bus
      <4>1. (pc \in {"detect", "idle", "command", "words"}) => bus \in Buses /\ dev'[bus] = dev[bus]
        BY <2>1, <3>4 DEF BusAndPacket
      <4> QED BY <1>1, <1>2, <2>1, <4>1 DEF InStepWords
    <3> QED BY <3>3, <3>4
  <2> QED BY <1>1, <2>1, <2>2, <2>3 DEF SameDevice, NothingOwed, BusAndPacket, InStepWords
<1>5. CASE Fault(b)
  <2>1. /\ faults' = faults + 1 /\ faults < MaxFaults
        /\ dev' = [dev EXCEPT ![b] = [Idle EXCEPT !.err = TRUE]]
    BY <1>5 DEF Fault
  <2>2. faults' \in 1 .. MaxFaults
    BY <2>1, StorageAssumption DEF TypeOK
  <2>3. /\ \A c \in Buses \ {b} : dev'[c] = dev[c]
        /\ dev'[b] = [state |-> "ready", err |-> TRUE, at |-> 0, left |-> 0]
    BY <2>1 DEF TypeOK, Idle
  <2>4. TypeOK'
    <3>1. dev' \in [Buses -> [state : {"ready", "busy", "in", "out"}, err : BOOLEAN,
                             at : 0 .. (Sectors * Words), left : Nat]]
      BY <2>1, <2>3, RestingDevice DEF TypeOK, Idle
    <3>2. faults' \in 0 .. MaxFaults
      BY <2>2
    <3> QED BY <1>1, <3>1, <3>2 DEF TypeOK
  <2>5. DevicesSound'
    <3>1. \A c \in Buses \ {b} :
             /\ dev'[c].at + dev'[c].left =< Sectors * Words
             /\ dev'[c].err \/ c \notin present' => dev'[c].state = "ready"
      BY <1>1, <2>3 DEF DevicesSound
    <3>2. dev'[b].at + dev'[b].left =< Sectors * Words /\ dev'[b].state = "ready"
      BY <1>3, <2>3
    <3> QED BY <2>2, <3>1, <3>2 DEF DevicesSound
  <2>6. InStepWords'
    <3>1. ~Due(dev'[b])
      BY <2>3 DEF Due
    <3>2. faults' # 0
      BY <2>2
    <3>3. CASE b = bus
      BY <1>1, <1>2, <2>3, <3>1, <3>2, <3>3 DEF InStepWords
    <3>4. CASE b # bus
      <4>1. (pc \in {"detect", "idle", "command", "words"}) => bus \in Buses /\ dev'[bus] = dev[bus]
        BY <2>3, <3>4 DEF BusAndPacket
      <4> QED BY <1>1, <1>2, <3>2, <4>1 DEF InStepWords
    <3> QED BY <3>3, <3>4
  <2> QED BY <1>1, <2>2, <2>4, <2>5, <2>6 DEF SameDevice, NothingOwed, BusAndPacket, InStepWords
<1> QED BY <1>4, <1>5

LEMMA SInductive == LaidOut /\ SInv /\ [Next]_vars => SInv'
<1> SUFFICES ASSUME LaidOut, SInv, [Next]_vars PROVE Agreed'
  BY Inductive DEF SInv
<1>1. ASSUME NEW b \in Buses, Probe(b) PROVE Agreed'
  BY <1>1, ProbeAgrees
<1>2. ASSUME packet # NoCall, Command \/ Take \/ Put \/ Mounted PROVE Agreed'
  BY <1>2, CommandAgrees, TakeAgrees, PutAgrees, MountedAgrees
<1>3. CASE Driver
  BY <1>1, <1>2, <1>3, OthersAgree
     DEF Driver, BootProbe, KernelProbe, BootRead, BootWrite, KernelRead, KernelWrite
<1>4. CASE Call \/ PowerLoss \/ UNCHANGED vars \/ Spin
  BY <1>4, OthersAgree DEF Spin
<1>5. CASE Devices \/ \E b \in Buses : Fault(b)
  BY <1>5, DeviceAgrees DEF Devices
<1> QED BY <1>3, <1>4, <1>5 DEF Next

(* The invariant holds on every disk so laid out.                          *)
THEOREM StorageInvariant == LaidOut => (Spec => []SInv)
<1> SUFFICES ASSUME LaidOut PROVE Spec => []SInv
  OBVIOUS
<1>2. SInv /\ [Next]_vars => SInv'
  BY SInductive
<1>1. Init => SInv
  BY AtStart, AgreedAtFirst DEF SInv
<1> QED BY <1>1, <1>2, PTL DEF Spec

(* The drivers and the devices are in step on every disk so laid out: the  *)
(* state is typed, so that no word is moved beyond the medium or a buffer, *)
(* bootloader and kernel take the same device unless one fails, and when   *)
(* the kernel gives a command the device wants no word of the one before,  *)
(* though the driver does not look (ATA.cc:113, ATA.cc:143).               *)
THEOREM DriversInStep == LaidOut => (Spec => []InStep)
<1> SUFFICES ASSUME LaidOut PROVE Spec => []InStep
  OBVIOUS
<1>2. Spec => []SInv
  BY StorageInvariant
<1>1. SInv => InStep
  BY DEF SInv, Agreed
<1> QED BY <1>1, <1>2, PTL
-----------------------------------------------------------------------------
(* Of a packet the sectors that are complete are on the medium, or the     *)
(* words so far have been read.                                            *)
Complete(b, first, done, v) == \A k \in 0 .. (done - 1) : media[b][first + k] = <<v, k>>
Transferred ==
  pc = "words" /\ faults = 0 =>
    LET d == dev[bus]
    IN /\ packet.op = "write" =>
            \/ ~Due(d) /\ Complete(bus, First, Asked, packet.value)
            \/ /\ Due(d)
               /\ \E done \in 0 .. (Words - 1) :
                    /\ done =< i /\ (d.left + done) % Words = 0
                    /\ Complete(bus, First, i - done, packet.value)
       /\ packet.op = "read" =>
            \A k \in 0 .. (i - 1) : k < Asked => buf[k] = media[bus][First + k]

(* What was read before a drive is looked for is gone.                     *)
NothingGot == pc \in {"off", "primary", "secondary"} => got = NoCall /\ packet = NoCall

RInv == SInv /\ Transferred /\ NothingGot

(* Bootloader and kernel start a structure at the same cell, and move its  *)
(* first sector whole.                                                     *)
LEMMA SameStart ==
  ASSUME LaidOut, SInv, packet # NoCall
  PROVE  First = Sector(packet.at, SectorSz) * Words
<1>1. CASE Unit = SectorSz
  BY <1>1 DEF First
<1>2. CASE Unit # SectorSz
  <2>1. Unit = Size[Epm] /\ packet.at = Epm
    BY <1>2 DEF SInv, Agreed, BusAndPacket, Unit, LaidOut
  <2>2. Sector(Epm, Size[Epm]) = 0
    BY SizeFacts, StorageAssumption DEF Sector
  <2> QED BY <2>1, <2>2, EpmFirst, SizeFacts DEF First
<1> QED BY <1>1, <1>2

LEMMA KeptIs ==
  ASSUME NEW p \in Places
  PROVE  /\ Kept(p) \in Nat \ {0} /\ Kept(p) =< Size[p]
         /\ Kept(p) =< Count(p, SectorSz) * Words
BY CountFacts, SizeFacts DEF Kept

LEMMA UpTo == ASSUME NEW m \in Nat, NEW n \in Nat, m =< n PROVE 0 .. (m - 1) \subseteq 0 .. (n - 1)
OBVIOUS

(* Of a packet that is through, what its structure keeps has been moved.   *)
LEMMA KeptMoved ==
  ASSUME LaidOut, SInv, packet # NoCall, pc = "words", i = Size[packet.at]
  PROVE  /\ Kept(packet.at) =< Asked
         /\ Due(dev[bus]) => /\ Kept(packet.at) = Words /\ Asked = 2 * Words
                             /\ Words =< i
<1> DEFINE p == packet.at
<1>1. /\ p \in Places /\ Words \in Nat \ {0} /\ SectorSz \in Nat \ {0}
      /\ Size[p] \in Nat \ {0} /\ 2 * Words =< SectorSz /\ Words =< Size[p]
      /\ Asked \in Nat \ {0}
  BY TransferFacts, SizeFacts DEF LaidOut, Words
<1>2. Due(dev[bus]) => dev[bus].left \in Nat \ {0} /\ dev[bus].left + i = Asked
  BY TransferFacts DEF SInv, Agreed, InStep, TypeOK, IInv, Types, Due, InStepWords
<1>3. CASE Unit = SectorSz
  <2>1. Asked = Count(p, SectorSz) * Words
    BY <1>3 DEF Asked
  <2>2. Asked =< Size[p]
    BY <2>1, <1>1, CountFits
  <2> QED BY <1>1, <1>2, <2>1, <2>2, KeptIs
<1>4. CASE Unit # SectorSz
  <2>1. Unit = Size[Epm] /\ p = Epm /\ Size[Epm] =< SectorSz /\ Size[Epm] # SectorSz
    BY <1>4 DEF SInv, Agreed, BusAndPacket, Unit, LaidOut
  <2>2. Count(Epm, Size[Epm]) = 2 /\ Count(Epm, SectorSz) = 1
    BY <1>1, <2>1 DEF Count
  <2>3. Asked = 2 * Words /\ Count(Epm, SectorSz) * Words = Words
    BY <1>1, <2>1, <2>2 DEF Asked
  <2>4. Kept(Epm) = Words
    BY <1>1, <2>1, <2>3 DEF Kept
  <2> QED BY <1>1, <1>2, <2>1, <2>3, <2>4
<1> QED BY <1>3, <1>4

(* A word put goes where it belongs, and when a sector is full its words   *)
(* follow those of the sectors before.                                     *)
LEMMA PutWords ==
  ASSUME LaidOut, SInv, packet # NoCall, pc = "words", packet.op = "write",
         i < Size[packet.at], dev[bus].state = "out"
  PROVE  /\ dev[bus].at = First + i /\ dev[bus].left + i = Asked
         /\ dev[bus].left \in Nat \ {0} /\ i \in Nat
         /\ Moved(dev[bus]).state = "busy" =>
              /\ i + 1 >= Words
              /\ \A k \in 0 .. i : First + k \in Cells /\
                   Written(dev[bus])[First + k] =
                     IF k >= i + 1 - Words THEN <<packet.value, k>> ELSE media[bus][First + k]
              /\ \A c \in Cells : (\A k \in 0 .. i : c # First + k)
                                     => Written(dev[bus])[c] = media[bus][c]
         /\ Moved(dev[bus]).state # "busy" => Written(dev[bus]) = media[bus]
<1> DEFINE d == dev[bus]
<1>1. /\ d.left \in Nat \ {0} /\ d.at \in Nat /\ d.left + i = Asked
      /\ d.at = First + i /\ i \in Nat
      /\ d \in [state : {"ready", "busy", "in", "out"}, err : BOOLEAN, at : Nat, left : Nat]
  BY TransferFacts DEF SInv, Agreed, InStep, TypeOK, IInv, Types, Due, InStepWords
<1>2. Moved(d).state # "busy" => Written(d) = media[bus]
  BY DEF Written
<1>3. ASSUME Moved(d).state = "busy"
      PROVE  /\ i + 1 >= Words
             /\ \A k \in 0 .. i : First + k \in Cells /\
                  Written(d)[First + k] =
                     IF k >= i + 1 - Words THEN <<packet.value, k>> ELSE media[bus][First + k]
             /\ \A c \in Cells : (\A k \in 0 .. i : c # First + k)
                                    => Written(d)[c] = media[bus][c]
  <2>1. (d.left - 1) % Words = 0
    BY <1>1, <1>3, MovedFacts
  <2>2. Asked % Words = 0
    <3>1. Count(packet.at, Unit) \in Nat /\ Words \in Nat \ {0}
      BY TransferFacts, SizeFacts, StorageAssumption DEF Count, Unit
    <3> QED BY <3>1 DEF Asked
  <2>3. i + 1 >= Words /\ Words \in Nat \ {0}
    BY <1>1, <2>1, <2>2, TransferFacts, LastOfSector, SizeFacts
  <2>4. \A k \in 0 .. i : First + k \in Cells
    <3>1. Sectors * Words \in Nat
      BY SizeFacts, StorageAssumption, ProductType
    <3> QED BY <1>1, <3>1, TransferFacts DEF Cells
  <2>5. Written(d) = [c \in Cells |-> IF c \in (d.at - Words + 1) .. d.at
                                      THEN <<packet.value, i - (d.at - c)>>
                                      ELSE media[bus][c]]
    BY <1>3 DEF Written
  <2>6. ASSUME NEW k \in 0 .. i
        PROVE  Written(d)[First + k] =
                 IF k >= i + 1 - Words THEN <<packet.value, k>> ELSE media[bus][First + k]
    <3>1. First + k \in (d.at - Words + 1) .. d.at <=> k >= i + 1 - Words
      BY <1>1, <2>3, TransferFacts
    <3>2. i - (d.at - (First + k)) = k
      BY <1>1, TransferFacts
    <3> QED BY <2>4, <2>5, <3>1, <3>2
  <2>7. ASSUME NEW c \in Cells, \A k \in 0 .. i : c # First + k
        PROVE  Written(d)[c] = media[bus][c]
    <3>1. c \notin (d.at - Words + 1) .. d.at
      <4> SUFFICES ASSUME c \in (d.at - Words + 1) .. d.at PROVE FALSE
        OBVIOUS
      <4>1. c \in Int /\ c - First \in 0 .. i /\ c = First + (c - First)
        BY <1>1, <2>3, TransferFacts
      <4> QED BY <2>7, <4>1
    <3> QED BY <2>5, <3>1
  <2> QED BY <2>3, <2>4, <2>6, <2>7
<1> QED BY <1>1, <1>2, <1>3
-----------------------------------------------------------------------------
LEMMA PutTransfers ==
  ASSUME LaidOut, RInv, SInv', Put, packet # NoCall
  PROVE  Transferred'
<1> USE DEF RInv
<1> DEFINE d == dev[bus]
           Now(n) == \A k \in 0 .. (n - 1) : media'[bus][First + k] = <<packet.value, k>>
<1>1. /\ pc = "words" /\ packet.op = "write" /\ i < Size[packet.at] /\ i' = i + 1
      /\ UNCHANGED <<buf, pc, packet, got, faults, who, bus>>
      /\ \/ /\ d.state = "out" /\ media' = [media EXCEPT ![bus] = Written(d)]
            /\ dev' = [dev EXCEPT ![bus] = Moved(d)]
         \/ /\ d.state # "out" /\ media' = media /\ dev' = dev
  BY DEF Put, system
<1>2. First' = First /\ Asked' = Asked /\ bus \in Buses /\ i \in Nat
  BY <1>1, TransferFacts DEF First, Asked, Unit, SInv, IInv, Types
<1>3. Words \in Nat \ {0}
  BY SizeFacts
<1> SUFFICES ASSUME faults = 0
    PROVE  \/ ~Due(dev'[bus]) /\ Now(Asked)
           \/ /\ Due(dev'[bus])
              /\ \E done \in 0 .. (Words - 1) :
                   /\ done =< i + 1 /\ (dev'[bus].left + done) % Words = 0
                   /\ Now(i + 1 - done)
  BY <1>1, <1>2 DEF Transferred, Complete
<1>4. CASE d.state # "out"
  <2>1. ~Due(d)
    BY <1>1, <1>4 DEF Due, Put, SInv, Agreed, InStepWords
  <2>2. Complete(bus, First, Asked, packet.value)
    BY <1>1, <2>1 DEF Transferred
  <2> QED BY <1>1, <1>2, <1>4, <2>1, <2>2 DEF Complete
<1>5. CASE d.state = "out"
  <2>1. /\ d.at = First + i /\ d.left + i = Asked /\ d.left \in Nat \ {0}
        /\ d \in [state : {"ready", "busy", "in", "out"}, err : BOOLEAN, at : Nat, left : Nat]
        /\ dev'[bus] = Moved(d) /\ media'[bus] = Written(d)
        /\ Moved(d).left = d.left - 1 /\ Moved(d).state \in {"busy", "out"}
        /\ Moved(d).state = "busy" <=> (d.left - 1) % Words = 0
    BY <1>1, <1>2, <1>5, PutWords, MovedFacts DEF SInv, IInv, Types
  <2>2. PICK done \in 0 .. (Words - 1) : /\ done =< i /\ (d.left + done) % Words = 0
                                         /\ Complete(bus, First, i - done, packet.value)
    <3>1. Due(d)
      BY <1>5 DEF Due
    <3> QED BY <1>1, <3>1 DEF Transferred
  <2>3. CASE Moved(d).state = "busy"
    <3>1. done = Words - 1 /\ i + 1 >= Words
      BY <1>1, <1>5, <2>1, <2>2, <2>3, SectorFull, PutWords
    <3>2. Now(i + 1)
      <4> SUFFICES ASSUME NEW k \in 0 .. i PROVE media'[bus][First + k] = <<packet.value, k>>
        BY <1>2
      <4>1. media'[bus][First + k] = IF k >= i + 1 - Words THEN <<packet.value, k>>
                                     ELSE media[bus][First + k]
        BY <1>1, <1>5, <2>1, <2>3, PutWords
      <4>2. CASE k >= i + 1 - Words
        BY <4>1, <4>2
      <4>3. CASE ~(k >= i + 1 - Words)
        <5>1. k \in 0 .. (i - done - 1)
          BY <1>2, <1>3, <3>1, <4>3
        <5> QED BY <2>2, <4>1, <4>3, <5>1 DEF Complete
      <4> QED BY <4>2, <4>3
    <3>3. CASE d.left - 1 = 0
      <4>1. i + 1 = Asked /\ ~Due(Moved(d))
        BY <1>2, <2>1, <2>3, <3>3 DEF Due
      <4> QED BY <2>1, <3>2, <4>1
    <3>4. CASE d.left - 1 # 0
      <4>1. Due(Moved(d)) /\ (Moved(d).left + 0) % Words = 0 /\ i + 1 - 0 = i + 1
        BY <1>2, <2>1, <2>3, <3>4 DEF Due
      <4>2. 0 \in 0 .. (Words - 1) /\ 0 =< i + 1
        BY <1>2, <1>3
      <4> QED BY <2>1, <3>2, <4>1, <4>2
    <3> QED BY <3>3, <3>4
  <2>4. CASE Moved(d).state = "out"
    <3>1. media'[bus] = media[bus] /\ Due(Moved(d)) /\ (d.left - 1) % Words # 0
      BY <1>1, <1>5, <2>1, <2>4, PutWords DEF Due
    <3>2. done # Words - 1
      <4> SUFFICES ASSUME done = Words - 1 PROVE FALSE
        OBVIOUS
      <4>1. d.left + (Words - 1) = (d.left - 1) + Words
        BY <1>3, <2>1
      <4> QED BY <1>3, <2>1, <2>2, <3>1, <4>1, OneSectorLess
    <3>3. /\ done + 1 \in 0 .. (Words - 1) /\ done + 1 =< i + 1
          /\ (d.left - 1) + (done + 1) = d.left + done /\ i + 1 - (done + 1) = i - done
      BY <1>2, <1>3, <2>1, <2>2, <3>2
    <3>4. Now(i - done)
      BY <2>2, <3>1 DEF Complete
    <3> HIDE DEF Now
    <3> QED BY <2>1, <2>2, <3>1, <3>3, <3>4
  <2> QED BY <2>1, <2>3, <2>4
<1> QED BY <1>4, <1>5

LEMMA TakeTransfers ==
  ASSUME LaidOut, RInv, Take, packet # NoCall
  PROVE  Transferred'
<1> USE DEF RInv
<1> DEFINE d == dev[bus]
<1>1. /\ pc = "words" /\ packet.op = "read" /\ i < Size[packet.at] /\ i' = i + 1
      /\ UNCHANGED <<media, pc, packet, got, faults, who, bus>> /\ d.state # "busy"
      /\ \/ d.state = "in" /\ buf' = [buf EXCEPT ![i] = media[bus][d.at]]
         \/ d.state # "in" /\ buf' = [buf EXCEPT ![i] = None]
  BY DEF Take, system
<1>2. First' = First /\ Asked' = Asked /\ bus \in Buses /\ i \in Nat
      /\ buf \in [Bytes -> Cell] /\ Size[packet.at] \in Nat /\ Asked \in Nat
  BY <1>1, TransferFacts DEF First, Asked, Unit, SInv, IInv, Types, Agreed, InStep, TypeOK
<1> SUFFICES ASSUME faults = 0, NEW k \in 0 .. i, k < Asked
    PROVE  buf'[k] = media[bus][First + k]
  BY <1>1, <1>2 DEF Transferred
<1>3. k \in Bytes
  BY <1>1, <1>2, TransferFacts DEF Bytes
<1>4. CASE k # i
  <2>1. buf[k] = media[bus][First + k]
    BY <1>1, <1>2, <1>4 DEF Transferred
  <2> QED BY <1>1, <1>2, <1>3, <1>4, <2>1
<1>5. CASE k = i
  <2>1. d.state = "in"
    BY <1>1, <1>2, <1>5 DEF SInv, Agreed, InStepWords, Due, InStep, TypeOK
  <2>2. d.at = First + i
    BY <1>1, <2>1 DEF SInv, Agreed, InStepWords, Due
  <2> QED BY <1>1, <1>2, <1>3, <1>5, <2>1, <2>2
<1> QED BY <1>4, <1>5

LEMMA DeviceTransfers ==
  ASSUME LaidOut, RInv, NEW b \in Buses, Answer(b) \/ Fault(b)
  PROVE  Transferred'
<1> USE DEF RInv
<1>1. UNCHANGED <<media, pc, packet, i, buf, got, who, bus>> /\ dev[b].state = "busy"
  BY DEF Answer, Fault, system
<1>2. First' = First /\ Asked' = Asked
  BY <1>1 DEF First, Asked, Unit
<1>3. CASE Fault(b)
  <2>1. faults' # 0
    BY <1>3 DEF Fault, SInv, Agreed, InStep, TypeOK
  <2> QED BY <2>1 DEF Transferred
<1>4. CASE Answer(b)
  <2>1. /\ faults' = faults /\ \A c \in Buses \ {b} : dev'[c] = dev[c]
        /\ dev'[b].left = dev[b].left
        /\ dev'[b].state = IF dev[b].left = 0 THEN "ready"
                           ELSE IF packet.op = "read" THEN "in" ELSE "out"
    BY <1>4 DEF Answer, SInv, Agreed, InStep, TypeOK
  <2>2. \A c \in Buses : (Due(dev'[c]) <=> Due(dev[c])) /\ dev'[c].left = dev[c].left
    BY <1>1, <2>1 DEF Due
  <2>3. pc = "words" => bus \in Buses
    BY DEF SInv, Agreed, BusAndPacket
  <2> QED BY <1>1, <1>2, <2>1, <2>2, <2>3 DEF Transferred, Complete
<1> QED BY <1>3, <1>4

LEMMA CommandTransfers ==
  ASSUME LaidOut, RInv, Command, packet # NoCall
  PROVE  Transferred'
<1> USE DEF RInv
<1>1. /\ pc = "command" /\ i' = 0 /\ UNCHANGED <<packet, who, bus>>
      /\ dev' = [dev EXCEPT ![bus] = [state |-> "busy", err |-> FALSE, at |-> First,
                                      left |-> Asked]]
  BY DEF Command, system, First, Asked
<1>2. First' = First /\ Asked' = Asked
  BY <1>1 DEF First, Asked, Unit
<1>3. dev'[bus].state = "busy" /\ dev'[bus].left = Asked /\ Asked \in Nat \ {0}
  BY <1>1, TransferFacts DEF SInv, IInv, Types
<1>4. Due(dev'[bus])
  BY <1>3 DEF Due
<1>5. 0 \in 0 .. (Words - 1) /\ (Asked + 0) % Words = 0
  <2>1. Count(packet.at, Unit) \in Nat /\ Words \in Nat \ {0}
    BY TransferFacts, SizeFacts, StorageAssumption DEF Count, Unit
  <2> QED BY <2>1 DEF Asked
<1>6. Complete(bus, First, 0 - 0, packet.value)'
  BY DEF Complete
<1> QED BY <1>1, <1>3, <1>4, <1>5, <1>6, TransferFacts DEF Transferred

LEMMA RInductive == LaidOut /\ RInv /\ [Next]_vars => RInv'
<1> SUFFICES ASSUME LaidOut, RInv, [Next]_vars PROVE Transferred' /\ NothingGot'
  BY SInductive DEF RInv
<1>1. SInv'
  BY SInductive DEF RInv
<1>2. ASSUME NEW b \in Buses, Probe(b) PROVE Transferred' /\ NothingGot'
  <2>1. pc' # "words" /\ UNCHANGED <<got, packet>> /\ pc \in {"primary", "secondary"}
    BY <1>2 DEF Probe, Buses
  <2> QED BY <2>1 DEF RInv, Transferred, NothingGot
<1>3. ASSUME packet # NoCall, Command \/ Take \/ Put PROVE Transferred' /\ NothingGot'
  <2>1. pc' = "words"
    BY <1>3 DEF Command, Take, Put
  <2> QED BY <1>1, <1>3, <2>1, CommandTransfers, TakeTransfers, PutTransfers DEF NothingGot
<1>4. ASSUME Mounted PROVE Transferred' /\ NothingGot'
  <2>1. pc' \in {"idle", "checked", "epm"}
    BY <1>4 DEF Mounted, Finish, After
  <2> QED BY <2>1 DEF Transferred, NothingGot
<1>5. CASE Start \/ Check \/ Format \/ HandOver \/ Detect \/ Call \/ PowerLoss
  <2>1. pc' # "words"
    BY <1>5 DEF Start, Check, Format, HandOver, Detect, Call, PowerLoss
  <2>2. NothingGot'
    BY <1>5 DEF Start, Check, Format, HandOver, Detect, Call, PowerLoss, system, RInv, SInv, IInv,
       Types, NothingGot
  <2> QED BY <2>1, <2>2 DEF Transferred
<1>6. CASE UNCHANGED vars
  BY <1>6 DEF vars, RInv, Transferred, NothingGot, First, Asked, Unit, Complete
<1>7. ASSUME NEW b \in Buses, Answer(b) \/ Fault(b) PROVE Transferred' /\ NothingGot'
  <2>1. UNCHANGED <<pc, packet, got>>
    BY <1>7 DEF Answer, Fault
  <2> QED BY <1>7, <2>1, DeviceTransfers DEF RInv, NothingGot
<1> QED BY <1>2, <1>3, <1>4, <1>5, <1>6, <1>7
        DEF Next, Driver, Devices, Spin, BootProbe, KernelProbe, BootRead, BootWrite,
            KernelRead, KernelWrite
-----------------------------------------------------------------------------
LEMMA ValueWhole ==
  ASSUME NEW p \in Places, NEW v \in Values \cup {Magic}, NEW f,
         \A k \in 0 .. (Kept(p) - 1) : f[k] = <<v, k>>
  PROVE  ValueOf(p, f) = v
<1>1. 0 \in 0 .. (Kept(p) - 1)
  BY KeptIs
<1>2. f[0] = <<v, 0>>
  BY <1>1
<1>3. f[0][1] = v
  BY <1>2
<1> QED BY <1>3 DEF ValueOf

LEMMA ValueSame ==
  ASSUME NEW p \in Places, NEW f, NEW g, \A k \in 0 .. (Kept(p) - 1) : f[k] = g[k]
  PROVE  ValueOf(p, f) = ValueOf(p, g)
<1>1. 0 \in 0 .. (Kept(p) - 1)
  BY KeptIs
<1> QED BY <1>1 DEF ValueOf

LEMMA StoredType ==
  ASSUME NEW b, NEW p \in Places PROVE Stored(b, p) \in Values \cup {Magic, Torn}
BY ValueType DEF Stored

LEMMA StoredSame ==
  ASSUME NEW b, NEW p \in Places,
         \A k \in 0 .. (Kept(p) - 1) : media'[b][Sector(p, SectorSz) * Words + k]
                                         = media[b][Sector(p, SectorSz) * Words + k]
  PROVE  Stored(b, p)' = Stored(b, p)
<1> DEFINE f == [k \in 0 .. (Kept(p) - 1) |-> media[b][Sector(p, SectorSz) * Words + k]]
           g == [k \in 0 .. (Kept(p) - 1) |-> media'[b][Sector(p, SectorSz) * Words + k]]
<1>1. Stored(b, p) = ValueOf(p, f) /\ Stored(b, p)' = ValueOf(p, g)
  BY DEF Stored
<1>2. f = g
  OBVIOUS
<1> QED BY <1>1, <1>2

LEMMA StoredIs ==
  ASSUME NEW b, NEW p \in Places, NEW f,
         \A k \in 0 .. (Kept(p) - 1) : f[k] = media[b][Sector(p, SectorSz) * Words + k]
  PROVE  Stored(b, p) = ValueOf(p, f)
<1> DEFINE g == [k \in 0 .. (Kept(p) - 1) |-> media[b][Sector(p, SectorSz) * Words + k]]
<1>1. Stored(b, p) = ValueOf(p, g)
  BY DEF Stored
<1>2. \A k \in 0 .. (Kept(p) - 1) : f[k] = g[k]
  OBVIOUS
<1> HIDE DEF g
<1> QED BY <1>1, <1>2, ValueSame
-----------------------------------------------------------------------------
Store == [p \in Places |-> Stored(Medium, p)]
Failed == faults > 0

(* What a step has to do to be one of Drive's.                             *)
LEMMA Stutters == UNCHANGED <<Store, packet, got, Failed>> => UNCHANGED D!vars
BY DEF D!vars, Store, Failed

LEMMA Begins ==
  ASSUME packet = NoCall, UNCHANGED <<Store, got, Failed>>, packet' \in Packets
  PROVE  D!Begin
<1>1. packet' \in {D!Write(q, v) : q \in Places, v \in Values \cup {Magic}}
                    \cup {D!Read(q) : q \in Places}
  BY DEF D!Write, D!Read, Packets, Write, Read
<1> QED BY <1>1 DEF D!Begin, Store, Failed

LEMMA Stores ==
  ASSUME packet # NoCall, packet.op = "write", UNCHANGED <<packet, got, Failed>>,
         NEW x \in Values \cup {Magic, Torn}, Store' = [Store EXCEPT ![packet.at] = x]
  PROVE  D!Store
BY DEF D!Store, D!Contents, Store, Failed

LEMMA EndsWrite ==
  ASSUME packet # NoCall, packet.op = "write", Failed \/ Store[packet.at] = packet.value,
         packet' = NoCall, UNCHANGED <<Store, got, Failed>>
  PROVE  D!EndWrite
BY DEF D!EndWrite, Store, Failed

LEMMA EndsRead ==
  ASSUME packet # NoCall, packet.op = "read", NEW x \in Values \cup {Magic, Torn},
         Failed \/ x = Store[packet.at], got' = [op |-> "read", at |-> packet.at, value |-> x],
         packet' = NoCall, UNCHANGED <<Store, Failed>>
  PROVE  D!EndRead
BY DEF D!EndRead, D!Contents, Store, Failed

LEMMA Fails == ASSUME Failed', UNCHANGED <<Store, packet, got>> PROVE D!Fail
BY DEF D!Fail, Store, Failed

LEMMA Restarts ==
  ASSUME packet' = NoCall, got' = NoCall, Failed' = Failed \/ Failed' = FALSE,
         Failed \/ Store' = Store,
         Store' \in [Places -> Values \cup {Magic, Torn}]
  PROVE  D!Restart
<1>1. Failed' \in {Failed, FALSE}
  OBVIOUS
<1> QED BY <1>1 DEF D!Restart, D!Stores, D!Contents, Store, Failed

LEMMA StoreType == Store \in [Places -> Values \cup {Magic, Torn}]
BY StoredType DEF Store

LEMMA StoreTypeNext == Store' \in [Places -> Values \cup {Magic, Torn}]
<1>1. ASSUME NEW p \in Places PROVE Stored(Medium, p)' \in Values \cup {Magic, Torn}
  BY ValueType DEF Stored
<1> QED BY <1>1 DEF Store

LEMMA StoreKept == ASSUME UNCHANGED <<media, present, bus>> PROVE Store' = Store
BY DEF Store, Stored, Medium

(* Without an error the kernel's drive is the bootloader's.                *)
LEMMA MediumKept ==
  ASSUME SInv, SInv', faults = 0, faults' = 0, UNCHANGED <<media, present>>
  PROVE  Store' = Store
<1>1. /\ Medium = IF "primary" \in present THEN "primary" ELSE "secondary"
      /\ Medium' = IF "primary" \in present THEN "primary" ELSE "secondary"
  BY DEF SInv, Agreed, InStep, SameDevice, Medium
<1> QED BY <1>1 DEF Store, Stored
-----------------------------------------------------------------------------
LEMMA DriveInit == Init => D!Init
<1> SUFFICES ASSUME Init PROVE D!Init
  OBVIOUS
<1>1. Failed = FALSE /\ packet = NoCall /\ got = NoCall
  BY DEF Init, Failed
<1> QED BY <1>1, StoreType DEF D!Init, D!Stores, D!Contents, Store, Failed

(* Only the structure that is written changes.                             *)
LEMMA PutImplements ==
  ASSUME LaidOut, RInv, Put, packet # NoCall
  PROVE  D!Next \/ UNCHANGED D!vars
<1> DEFINE d == dev[bus]
<1>1. /\ pc = "words" /\ packet.op = "write" /\ i < Size[packet.at]
      /\ UNCHANGED <<packet, got, faults, present, bus>>
      /\ \/ /\ d.state = "out" /\ media' = [media EXCEPT ![bus] = Written(d)]
         \/ /\ d.state # "out" /\ media' = media
  BY DEF Put, system
<1>2. /\ SInv /\ packet.at \in Places /\ bus \in Buses /\ First \in Nat
      /\ First = Sector(packet.at, SectorSz) * Words /\ i \in Nat
      /\ media \in [Buses -> [Cells -> Cell]]
  BY TransferFacts, SameStart DEF RInv, SInv, Agreed, InStep, TypeOK
<1>3. Failed' = Failed
  BY <1>1 DEF Failed
<1>4. CASE media' = media
  BY <1>1, <1>3, <1>4, StoreKept, Stutters
<1>5. CASE d.state = "out" /\ media' = [media EXCEPT ![bus] = Written(d)]
  <2>0. PICK b \in Buses : b = bus
    BY <1>2
  <2>1. media'[b] = Written(d) /\ Medium = b /\ Medium' = b
    BY <1>1, <1>2, <1>5, <2>0, PlacesAssumption DEF Medium
  <2>2. ASSUME NEW q \in Places, q # packet.at PROVE Stored(b, q)' = Stored(b, q)
    <3>1. ASSUME NEW k \in 0 .. (Kept(q) - 1)
          PROVE  media'[b][Sector(q, SectorSz) * Words + k]
                   = media[b][Sector(q, SectorSz) * Words + k]
      <4> DEFINE c == Sector(q, SectorSz) * Words + k
      <4>1. \A j \in 0 .. i : c # First + j
        <5>1. \A j \in 0 .. i : j \in 0 .. (Size[packet.at] - 1)
          BY <1>1, <1>2, SizeFacts
        <5> QED BY <1>2, <2>2, <5>1 DEF LaidOut
      <4>2. c \in Cells
        <5>1. c \in Nat /\ c < Sectors * Words
          <6>1. /\ Sector(q, SectorSz) * Words \in Nat
                /\ Count(q, SectorSz) * Words \in Nat
                /\ Sector(q, SectorSz) * Words + Count(q, SectorSz) * Words =< Sectors * Words
            BY AskedFits
          <6>2. k \in Nat /\ k < Count(q, SectorSz) * Words
            BY <6>1, KeptIs
          <6>3. Sectors * Words \in Nat
            BY SizeFacts, StorageAssumption, ProductType
          <6> QED BY <6>1, <6>2, <6>3
        <5>2. Sectors * Words \in Nat
          BY SizeFacts, StorageAssumption, ProductType
        <5> QED BY <5>1, <5>2 DEF Cells
      <4> HIDE DEF c
      <4>3. Written(d)[c] = media[bus][c]
        BY <1>1, <1>2, <1>5, <4>1, <4>2, PutWords
      <4> QED BY <2>0, <2>1, <4>3 DEF c
    <3> QED BY <3>1, StoredSame
  <2>3. Stored(b, packet.at)' \in Values \cup {Magic, Torn}
    <3>1. \A q \in Places : Stored(b, q)' \in Values \cup {Magic, Torn}
      BY ValueType DEF Stored
    <3>2. PICK q \in Places : q = packet.at /\ q = packet'.at
      BY <1>1, <1>2
    <3> QED BY <3>1, <3>2
  <2>4. Store' = [Store EXCEPT ![packet.at] = Stored(b, packet.at)']
    <3>1. \A q \in Places : Store'[q] = Stored(b, q)' /\ Store[q] = Stored(b, q)
      BY <2>1 DEF Store, Stored
    <3> QED BY <1>1, <1>2, <2>2, <3>1 DEF Store
  <2>5. D!Store
    BY <1>1, <1>3, <2>3, <2>4, Stores
  <2> QED BY <2>5 DEF D!Next
<1> QED BY <1>1, <1>4, <1>5

(* A packet that is through has been written, or read what was there.      *)
LEMMA MountedImplements ==
  ASSUME LaidOut, RInv, Mounted, packet # NoCall
  PROVE  D!Next
<1> DEFINE p == packet.at
<1>1. /\ pc = "words" /\ i = Size[p] /\ packet' = NoCall
      /\ got' = IF packet.op = "read" THEN [packet EXCEPT !.value = ValueOf(p, buf)] ELSE got
      /\ UNCHANGED <<media, faults, present, bus>>
  BY DEF Mounted, Finish
<1>2. /\ SInv /\ p \in Places /\ bus \in Buses /\ First \in Nat /\ packet \in Packets
      /\ First = Sector(p, SectorSz) * Words /\ faults \in Nat
      /\ Asked \in Nat /\ Size[p] \in Nat /\ packet.op \in {"read", "write"}
  BY TransferFacts, SameStart DEF RInv, SInv, Agreed, InStep, TypeOK
<1>3. Store' = Store /\ Failed' = Failed /\ Store[p] = Stored(bus, p)
  <2>1. Medium = bus
    BY <1>2, PlacesAssumption DEF Medium
  <2> QED BY <1>1, <1>2, <2>1, StoreKept DEF Store, Failed
<1>4. Kept(p) \in Nat /\ Kept(p) =< Asked /\ Kept(p) =< i
  BY <1>1, <1>2, KeptMoved, KeptIs
<1>5. CASE packet.op = "write"
  <2>1. packet.value \in Values \cup {Magic}
    BY <1>2, <1>5 DEF Packets, Read, Write
  <2>2. ASSUME ~Failed, NEW k \in 0 .. (Kept(p) - 1)
        PROVE  media[bus][First + k] = <<packet.value, k>>
    <3>1. faults = 0
      BY <1>2, <2>2 DEF Failed
    <3>2. CASE ~Due(dev[bus])
      <4>1. Complete(bus, First, Asked, packet.value)
        BY <1>1, <1>5, <3>1, <3>2 DEF RInv, Transferred
      <4> QED BY <1>2, <1>4, <4>1 DEF Complete
    <3>3. CASE Due(dev[bus])
      <4>1. PICK done \in 0 .. (Words - 1) :
              /\ done =< i /\ (dev[bus].left + done) % Words = 0
              /\ Complete(bus, First, i - done, packet.value)
        BY <1>1, <1>5, <3>1, <3>3 DEF RInv, Transferred
      <4>2. /\ Kept(p) = Words /\ Asked = 2 * Words /\ Words =< i
            /\ dev[bus].left \in Nat \ {0} /\ dev[bus].left + i = Asked /\ i \in Nat
            /\ Words \in Nat \ {0}
        BY <1>1, <1>2, <3>3, KeptMoved, SizeFacts
           DEF SInv, IInv, Types, Agreed, InStep, TypeOK, InStepWords, Due
      <4>3. dev[bus].left + done = Words
        <5> DEFINE n == dev[bus].left + done
        <5>1. n \in Nat \ {0} /\ n < 2 * Words /\ n % Words = 0
          BY <4>1, <4>2
        <5> SUFFICES n = Words
          OBVIOUS
        <5> HIDE DEF n
        <5>2. CASE n < Words
          BY <4>2, <5>1, <5>2
        <5>3. CASE n >= Words
          <6>1. n - Words \in 0 .. (Words - 1) /\ ((n - Words) + Words) % Words = 0
            BY <4>2, <5>1, <5>3
          <6>2. (n - Words) % Words = 0
            BY <4>2, <6>1, OneSectorLess
          <6>3. n - Words = 0
            BY <4>2, <6>1, <6>2
          <6> QED BY <4>2, <5>1, <6>3
        <5> QED BY <4>2, <5>1, <5>2, <5>3
      <4>4. i - done = Words
        BY <4>1, <4>2, <4>3
      <4> QED BY <4>1, <4>2, <4>4 DEF Complete
    <3> QED BY <3>2, <3>3
  <2>3. ASSUME ~Failed PROVE Stored(bus, p) = packet.value
    <3> DEFINE f == [k \in 0 .. (Kept(p) - 1) |-> media[bus][Sector(p, SectorSz) * Words + k]]
    <3>1. \A k \in 0 .. (Kept(p) - 1) : f[k] = <<packet.value, k>>
      BY <1>2, <2>2, <2>3
    <3>2. Stored(bus, p) = ValueOf(p, f)
      BY DEF Stored
    <3> HIDE DEF f
    <3> QED BY <1>2, <2>1, <3>1, <3>2, ValueWhole
  <2>4. D!EndWrite
    BY <1>1, <1>3, <1>5, <2>3, EndsWrite
  <2> QED BY <2>4 DEF D!Next
<1>6. CASE packet.op = "read"
  <2>1. packet = [op |-> "read", at |-> p, value |-> Torn]
    BY <1>2, <1>6, PacketFacts DEF Read
  <2>2. got' = [op |-> "read", at |-> p, value |-> ValueOf(p, buf)]
    BY <1>1, <1>6, <2>1
  <2>3. ValueOf(p, buf) \in Values \cup {Magic, Torn}
    BY <1>2, ValueType
  <2>4. ASSUME ~Failed PROVE ValueOf(p, buf) = Stored(bus, p)
    <3>1. faults = 0
      BY <1>2, <2>4 DEF Failed
    <3>2. \A k \in 0 .. (Kept(p) - 1) : buf[k] = media[bus][First + k]
      BY <1>1, <1>2, <1>4, <1>6, <3>1 DEF RInv, Transferred
    <3> QED BY <1>2, <3>2, StoredIs
  <2>5. D!EndRead
    BY <1>1, <1>3, <1>6, <2>2, <2>3, <2>4, EndsRead
  <2> QED BY <2>5 DEF D!Next
<1> QED BY <1>2, <1>5, <1>6

LEMMA DriveStep == LaidOut /\ RInv /\ RInv' /\ [Next]_vars => [D!Next]_(D!vars)
<1> SUFFICES ASSUME LaidOut, RInv, RInv', [Next]_vars
    PROVE  D!Next \/ UNCHANGED D!vars
  OBVIOUS
<1>1. SInv /\ SInv' /\ faults \in Nat
  BY DEF RInv, SInv, Agreed, InStep, TypeOK
<1>2. ASSUME UNCHANGED <<media, present, bus, packet, got, faults>> PROVE UNCHANGED D!vars
  BY <1>2, StoreKept, Stutters DEF Failed
<1>3. CASE Start \/ UNCHANGED vars
  BY <1>2, <1>3 DEF Start, system, vars
<1>4. CASE Check \/ Format \/ Detect \/ Call
  <2>1. /\ packet = NoCall /\ packet' \in Packets /\ UNCHANGED <<media, got, faults, present, bus>>
    BY <1>4, PacketFacts, SizeFacts DEF Check, Format, Detect, Call, system, RInv, SInv, IInv, Types
  <2>2. D!Begin
    BY <2>1, StoreKept, Begins DEF Failed
  <2> QED BY <2>2 DEF D!Next
<1>5. CASE HandOver \/ \E b \in Buses : Probe(b)
  <2>1. /\ packet' = NoCall /\ got' = NoCall /\ UNCHANGED <<media, faults, present>>
    BY <1>5 DEF HandOver, Probe, Buses, RInv, NothingGot, SInv, IInv, Types
  <2>2. Failed \/ Store' = Store
    BY <1>1, <2>1, MediumKept DEF Failed
  <2>3. D!Restart
    BY <2>1, <2>2, StoreTypeNext, Restarts DEF Failed
  <2> QED BY <2>3 DEF D!Next
<1>6. CASE PowerLoss
  <2>1. /\ packet' = NoCall /\ got' = NoCall /\ faults' = 0 /\ UNCHANGED <<media, present>>
    BY <1>6 DEF PowerLoss
  <2>2. Failed \/ Store' = Store
    BY <1>1, <2>1, MediumKept DEF Failed
  <2>3. Failed' = FALSE
    BY <2>1 DEF Failed
  <2>4. D!Restart
    BY <2>1, <2>2, <2>3, StoreTypeNext, Restarts
  <2> QED BY <2>4 DEF D!Next
<1>7. ASSUME packet # NoCall, Command \/ Take PROVE UNCHANGED D!vars
  BY <1>2, <1>7 DEF Command, Take, system
<1>8. ASSUME packet # NoCall, Put PROVE D!Next \/ UNCHANGED D!vars
  BY <1>8, PutImplements
<1>9. ASSUME packet # NoCall, Mounted PROVE D!Next
  BY <1>9, MountedImplements
<1>10. ASSUME NEW b \in Buses, Answer(b) PROVE UNCHANGED D!vars
  BY <1>2, <1>10 DEF Answer, system
<1>11. ASSUME NEW b \in Buses, Fault(b) PROVE D!Next
  <2>1. UNCHANGED <<media, present, bus, packet, got>> /\ faults' = faults + 1
    BY <1>11 DEF Fault, system
  <2>2. Failed'
    BY <1>1, <2>1 DEF Failed
  <2>3. D!Fail
    BY <2>1, <2>2, StoreKept, Fails
  <2> QED BY <2>3 DEF D!Next
<1> QED BY <1>3, <1>4, <1>5, <1>6, <1>7, <1>8, <1>9, <1>10, <1>11
        DEF Next, Driver, Devices, Spin, BootProbe, KernelProbe, BootRead, BootWrite,
            KernelRead, KernelWrite

(* Bootloader and kernel keep, on every disk so laid out, what Drive       *)
(* promises over any number of starts, losses of power and device errors:  *)
(* what was written is read back, a packet is torn only by a loss of power *)
(* or an error, and no other structure changes, though a command asks for  *)
(* a sector more than the structure takes (ATA.cc:118, BootATA.cc:125).    *)
THEOREM StorageImplementsDrive == LaidOut => (Spec => Implements)
<1> SUFFICES ASSUME LaidOut PROVE Spec => Implements
  OBVIOUS
<1>1. Init => D!Init
  BY DriveInit
<1>2. Init => RInv
  <2>1. Init => Transferred /\ NothingGot
    BY DEF Init, Transferred, NothingGot
  <2> QED BY <2>1, AtStart, AgreedAtFirst DEF RInv, SInv
<1>3. RInv /\ [Next]_vars => RInv'
  BY RInductive
<1>4. RInv /\ RInv' /\ [Next]_vars => [D!Next]_(D!vars)
  BY DriveStep
<1> QED BY <1>1, <1>2, <1>3, <1>4, PTL DEF Spec, Implements, D!Spec
-----------------------------------------------------------------------------
(* With at most one error in a start, the second of two reads of a healthy *)
(* superblock is right when the first one was not.                         *)
SecondLook ==
  bus \in Buses /\ Stored(bus, Super) # Torn =>
    /\ pc = "checked" /\ who = "syschk" /\ got.value = Torn => faults = MaxFaults
    /\ pc = "checked" /\ who = "boot" => got.value # Torn
    /\ who = "boot" /\ packet # NoCall /\ packet.op = "read" =>
         /\ faults = MaxFaults
         /\ pc = "words" =>
              /\ ~Due(dev[bus]) => i >= Asked
              /\ \A k \in 0 .. (i - 1) : k < Asked => buf[k] = media[bus][First + k]

(* What the bootloader reads is the superblock, once the recovery check    *)
(* has.                                                                    *)
OnlySuperRead ==
  /\ pc \in {"off", "primary", "secondary", "check"} => who # "boot"
  /\ pc = "detect" => who = "kernel"
  /\ who # "kernel" /\ packet # NoCall /\ packet.op = "read" => packet.at = Super

LEMMA SuperKept == ASSUME UNCHANGED <<media, bus>> PROVE Stored(bus, Super)' = Stored(bus, Super)
BY DEF Stored

LEMMA LooksCommand ==
  ASSUME LaidOut, RInv, SecondLook, Command, packet # NoCall
  PROVE  SecondLook'
<1>1. /\ pc' = "words" /\ i' = 0 /\ UNCHANGED <<media, packet, who, bus, faults>>
      /\ dev' = [dev EXCEPT ![bus] = [state |-> "busy", err |-> FALSE, at |-> First,
                                      left |-> Asked]]
  BY DEF Command, system, First, Asked
<1>2. dev'[bus].state = "busy" /\ dev'[bus].left = Asked /\ Asked \in Nat \ {0}
  BY <1>1, TransferFacts DEF RInv, SInv, IInv, Types
<1>3. Due(dev'[bus])
  BY <1>2 DEF Due
<1> QED BY <1>1, <1>3, SuperKept DEF SecondLook

LEMMA LooksTake ==
  ASSUME LaidOut, RInv, SecondLook, Take, packet # NoCall
  PROVE  SecondLook'
<1> DEFINE d == dev[bus]
<1>1. /\ pc = "words" /\ packet.op = "read" /\ i < Size[packet.at] /\ i' = i + 1
      /\ UNCHANGED <<media, pc, packet, got, faults, who, bus>> /\ d.state # "busy"
      /\ \/ /\ d.state = "in" /\ buf' = [buf EXCEPT ![i] = media[bus][d.at]]
            /\ dev' = [dev EXCEPT ![bus] = Moved(d)]
         \/ d.state # "in" /\ buf' = [buf EXCEPT ![i] = None] /\ dev' = dev
  BY DEF Take, system
<1>2. First' = First /\ Asked' = Asked /\ bus \in Buses /\ i \in Nat /\ Asked \in Nat
      /\ buf \in [Bytes -> Cell] /\ Size[packet.at] \in Nat
      /\ d.state \in {"ready", "in"}
  BY <1>1, TransferFacts
     DEF First, Asked, Unit, RInv, SInv, IInv, Types, Agreed, InStep, TypeOK, InStepWords
<1> SUFFICES ASSUME Stored(bus, Super) # Torn, who = "boot"
    PROVE  /\ faults = MaxFaults
           /\ ~Due(dev'[bus]) => i + 1 >= Asked
           /\ \A k \in 0 .. i : k < Asked => buf'[k] = media[bus][First + k]
  BY <1>1, <1>2, SuperKept DEF SecondLook
<1>3. /\ faults = MaxFaults
      /\ ~Due(d) => i >= Asked
      /\ \A k \in 0 .. (i - 1) : k < Asked => buf[k] = media[bus][First + k]
  BY <1>1, <1>2 DEF SecondLook
<1>4. CASE d.state # "in"
  <2>1. ~Due(d) /\ i >= Asked
    BY <1>1, <1>2, <1>3, <1>4 DEF Due
  <2>2. ASSUME NEW k \in 0 .. i, k < Asked PROVE buf'[k] = media[bus][First + k]
    <3>1. k # i /\ k \in 0 .. (i - 1)
      BY <1>2, <2>1, <2>2
    <3>2. k \in Bytes
      BY <1>1, <1>2, TransferFacts DEF Bytes, RInv
    <3> QED BY <1>1, <1>2, <1>3, <1>4, <2>2, <3>1, <3>2
  <2>3. ~Due(dev'[bus]) => i + 1 >= Asked
    BY <1>1, <1>2, <1>4, <2>1
  <2> QED BY <1>3, <2>2, <2>3
<1>5. CASE d.state = "in"
  <2>1. /\ d.at = First + i /\ d.left + i = Asked /\ d.left \in Nat \ {0}
        /\ d \in [state : {"ready", "busy", "in", "out"}, err : BOOLEAN, at : Nat, left : Nat]
    BY <1>1, <1>2, <1>5 DEF RInv, SInv, IInv, Types, Agreed, InStepWords, Due
  <2>2. ~Due(Moved(d)) => i + 1 >= Asked
    BY <1>2, <1>5, <2>1, MovedFacts DEF Due
  <2>3. dev'[bus] = Moved(d)
    BY <1>1, <1>2, <1>5 DEF RInv, SInv, IInv, Types
  <2>4. ASSUME NEW k \in 0 .. i, k < Asked PROVE buf'[k] = media[bus][First + k]
    <3>1. k = i \/ k \in 0 .. (i - 1)
      BY <1>2
    <3>2. k \in Bytes /\ i \in Bytes
      BY <1>1, <1>2, TransferFacts DEF Bytes, RInv
    <3> QED BY <1>1, <1>2, <1>3, <1>5, <2>1, <2>4, <3>1, <3>2
  <2>5. ~Due(dev'[bus]) => i + 1 >= Asked
    BY <2>2, <2>3
  <2> QED BY <1>3, <2>4, <2>5
<1> QED BY <1>2, <1>4, <1>5

(* A read that is through is right when nothing failed in it.              *)
LEMMA LooksMounted ==
  ASSUME LaidOut, MaxFaults =< 1, RInv, SecondLook, OnlySuperRead, Mounted, packet # NoCall
  PROVE  SecondLook'
<1>1. /\ pc = "words" /\ i = Size[packet.at] /\ packet' = NoCall /\ pc' = After
      /\ got' = IF packet.op = "read"
                THEN [packet EXCEPT !.value = ValueOf(packet.at, buf)] ELSE got
      /\ UNCHANGED <<media, faults, who, bus>>
  BY DEF Mounted, Finish
<1> SUFFICES ASSUME Stored(bus, Super) # Torn, packet.op = "read", who # "kernel",
                    got'.value = Torn
    PROVE  who = "syschk" /\ faults = MaxFaults
  <2>1. pc' = "checked" => packet.op = "read" /\ who # "kernel"
    BY <1>1 DEF After
  <2> QED BY <1>1, <2>1, SuperKept DEF SecondLook
<1>2. /\ packet.at = Super /\ packet \in Packets /\ faults \in Nat /\ faults =< MaxFaults
      /\ First = Sector(Super, SectorSz) * Words /\ Asked \in Nat /\ i \in Nat
      /\ who \in {"syschk", "boot"}
  BY TransferFacts, SameStart, StorageAssumption
     DEF OnlySuperRead, RInv, SInv, Agreed, InStep, TypeOK
<1>3. got'.value = ValueOf(Super, buf)
  BY <1>1, <1>2, PacketFacts DEF Read
<1>4. Kept(Super) \in Nat /\ Kept(Super) =< Asked /\ Kept(Super) =< i
  BY <1>1, <1>2, KeptMoved, KeptIs, SizeFacts DEF RInv
<1>5. ~ \A k \in 0 .. (Kept(Super) - 1) : buf[k] = media[bus][First + k]
  <2> SUFFICES ASSUME \A k \in 0 .. (Kept(Super) - 1) : buf[k] = media[bus][First + k]
      PROVE  FALSE
    OBVIOUS
  <2>1. Stored(bus, Super) = ValueOf(Super, buf)
    BY <1>2, SizeFacts, StoredIs
  <2> QED BY <1>3, <2>1
<1>6. who # "boot"
  <2> SUFFICES ASSUME who = "boot" PROVE FALSE
    OBVIOUS
  <2>1. \A k \in 0 .. (i - 1) : k < Asked => buf[k] = media[bus][First + k]
    BY <1>1, TransferFacts DEF SecondLook, RInv
  <2> QED BY <1>2, <1>4, <1>5, <2>1
<1>7. faults # 0
  BY <1>1, <1>2, <1>4, <1>5 DEF RInv, Transferred
<1> QED BY <1>2, <1>6, <1>7, StorageAssumption

LEMMA LooksDevice ==
  ASSUME LaidOut, RInv, SecondLook, NEW b \in Buses, Answer(b) \/ Fault(b)
  PROVE  SecondLook'
<1>1. UNCHANGED <<media, pc, packet, i, buf, got, who, bus>> /\ dev[b].state = "busy"
  BY DEF Answer, Fault, system
<1>2. First' = First /\ Asked' = Asked /\ Stored(bus, Super)' = Stored(bus, Super)
  BY <1>1, SuperKept DEF First, Asked, Unit
<1>3. CASE Fault(b)
  <2>1. faults # MaxFaults
    BY <1>3, StorageAssumption DEF Fault, RInv, SInv, Agreed, InStep, TypeOK
  <2> QED BY <1>1, <1>2, <2>1 DEF SecondLook
<1>4. CASE Answer(b)
  <2>1. /\ faults' = faults /\ \A c \in Buses \ {b} : dev'[c] = dev[c]
        /\ dev'[b].left = dev[b].left
        /\ dev'[b].state = IF dev[b].left = 0 THEN "ready"
                           ELSE IF packet.op = "read" THEN "in" ELSE "out"
    BY <1>4 DEF Answer, RInv, SInv, Agreed, InStep, TypeOK
  <2>2. \A c \in Buses : Due(dev'[c]) <=> Due(dev[c])
    BY <1>1, <2>1 DEF Due
  <2>3. pc = "words" => bus \in Buses
    BY DEF RInv, SInv, Agreed, BusAndPacket
  <2> QED BY <1>1, <1>2, <2>1, <2>2, <2>3 DEF SecondLook
<1> QED BY <1>3, <1>4

LEMMA LooksStep ==
  LaidOut /\ MaxFaults =< 1 /\ RInv /\ SecondLook /\ OnlySuperRead /\ [Next]_vars
    => SecondLook' /\ OnlySuperRead'
<1> SUFFICES ASSUME LaidOut, MaxFaults =< 1, RInv, SecondLook, OnlySuperRead, [Next]_vars
    PROVE  SecondLook' /\ OnlySuperRead'
  OBVIOUS
<1>1. ASSUME NEW b \in Buses, Probe(b) PROVE SecondLook' /\ OnlySuperRead'
  <2>1. packet' = NoCall /\ pc' # "checked" /\ (pc' = "detect" => who' = "kernel")
    BY <1>1 DEF Probe, Buses, RInv, SInv, IInv, Types
  <2>2. who' # "boot" /\ (who' = "kernel" \/ packet' = NoCall)
    BY <1>1, <2>1 DEF Probe, Buses, OnlySuperRead
  <2> QED BY <2>1, <2>2 DEF SecondLook, OnlySuperRead
<1>2. CASE Start \/ Detect \/ Call \/ HandOver \/ PowerLoss
  <2>1. /\ pc' # "checked" /\ (who' # "boot" \/ packet' = NoCall)
        /\ (who' = "kernel" \/ packet' = NoCall) /\ pc' # "detect"
        /\ (pc' \in {"off", "primary", "secondary", "check"} => who' # "boot")
    BY <1>2 DEF Start, Detect, Call, HandOver, PowerLoss, system, RInv, SInv, IInv, Types,
       OnlySuperRead
  <2> QED BY <2>1 DEF SecondLook, OnlySuperRead
<1>3. CASE Check
  <2>1. /\ packet' = Read(Super) /\ pc' = "command" /\ UNCHANGED <<media, bus, got, faults>>
        /\ \/ pc = "check" /\ who' = who
           \/ pc = "checked" /\ who = "syschk" /\ got.value = Torn
    BY <1>3 DEF Check
  <2>3. pc = "check" => who # "boot"
    BY DEF OnlySuperRead
  <2>2. packet' # NoCall /\ packet'.at = Super
    BY <2>1, SizeFacts, PacketFacts
  <2> QED BY <2>1, <2>2, <2>3, SuperKept DEF SecondLook, OnlySuperRead
<1>4. CASE Format
  <2>1. packet' # NoCall /\ packet'.op = "write" /\ pc' = "command"
    BY <1>4, SizeFacts, PacketFacts DEF Format
  <2> QED BY <2>1 DEF SecondLook, OnlySuperRead
<1>5. ASSUME packet # NoCall, Put PROVE SecondLook' /\ OnlySuperRead'
  <2>1. packet.op = "write" /\ pc' = "words" /\ packet' = packet
    BY <1>5 DEF Put
  <2> QED BY <2>1 DEF SecondLook, OnlySuperRead
<1>6. ASSUME packet # NoCall, Command \/ Take \/ Mounted PROVE SecondLook' /\ OnlySuperRead'
  <2>1. OnlySuperRead'
    BY <1>6 DEF Command, Take, Mounted, Finish, After, system, OnlySuperRead
  <2> QED BY <1>6, <2>1, LooksCommand, LooksTake, LooksMounted
<1>7. ASSUME NEW b \in Buses, Answer(b) \/ Fault(b) PROVE SecondLook' /\ OnlySuperRead'
  <2>1. OnlySuperRead'
    BY <1>7 DEF Answer, Fault, system, OnlySuperRead
  <2> QED BY <1>7, <2>1, LooksDevice
<1>8. CASE UNCHANGED vars
  BY <1>8, SuperKept DEF vars, SecondLook, OnlySuperRead, First, Asked, Unit
<1> QED BY <1>1, <1>2, <1>3, <1>4, <1>5, <1>6, <1>7, <1>8
        DEF Next, Driver, Devices, Spin, BootProbe, KernelProbe, BootRead, BootWrite,
            KernelRead, KernelWrite

(* One device error in a start does not cost a healthy partition, however  *)
(* many starts there are: only a superblock that the recovery check and    *)
(* the bootloader both read as torn is formatted, and one error spoils one *)
(* of the two reads at most (SysChk/Module.cc:29, EFIBootStartup.cc:227).  *)
THEOREM OneErrorIsSurvived == LaidOut /\ MaxFaults =< 1 => (Spec => HealthyNotFormatted)
<1> SUFFICES ASSUME LaidOut, MaxFaults =< 1 PROVE Spec => HealthyNotFormatted
  OBVIOUS
<1>1. Init => RInv /\ SecondLook /\ OnlySuperRead
  <2>1. Init => Transferred /\ NothingGot /\ SecondLook /\ OnlySuperRead
    BY DEF Init, Transferred, NothingGot, SecondLook, OnlySuperRead
  <2> QED BY <2>1, AtStart, AgreedAtFirst DEF RInv, SInv
<1>2. RInv /\ [Next]_vars => RInv'
  BY RInductive
<1>3. RInv /\ SecondLook /\ OnlySuperRead /\ [Next]_vars => SecondLook' /\ OnlySuperRead'
  BY LooksStep
<1>4. RInv /\ SecondLook /\ [Next]_vars =>
        [who' = "boot" /\ packet = NoCall /\ packet' \in {Write(Super, v) : v \in Values}
           => Stored(bus, Super) = Torn]_vars
  <2> SUFFICES ASSUME RInv, SecondLook, Next, who' = "boot", packet = NoCall,
                      NEW v \in Values, packet' = Write(Super, v)
      PROVE  Stored(bus, Super) = Torn
    BY DEF vars
  <2>1. packet' # NoCall /\ packet'.op = "write" /\ packet'.value = v
    BY SizeFacts, PacketFacts DEF Write
  <2>2. Format \/ Call \/ Detect \/ Check
    BY <2>1 DEF Next, Driver, Devices, Start, HandOver, Answer, Fault, PowerLoss, Spin,
       BootProbe, KernelProbe, Probe, BootRead, BootWrite, KernelRead, KernelWrite, system, vars
  <2>3. Format
    <3>1. ~Call
      BY DEF Call, system
    <3>2. ~Check /\ ~Detect
      BY <2>1, SizeFacts, PacketFacts DEF Check, Detect
    <3> QED BY <2>2, <3>1, <3>2
  <2>4. pc = "checked" /\ who = "boot" /\ got.value = Torn
    <3>1. packet' # Write(Epm, Magic)
      BY <2>1, StorageAssumption DEF Write
    <3> QED BY <2>3, <3>1 DEF Format
  <2>5. bus \in Buses
    BY <2>4 DEF RInv, SInv, Agreed, BusAndPacket
  <2> QED BY <2>4, <2>5 DEF SecondLook
<1> QED BY <1>1, <1>2, <1>3, <1>4, PTL DEF Spec, HealthyNotFormatted
=============================================================================
