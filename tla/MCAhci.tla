-------------------------------- MODULE MCAhci --------------------------------
(***************************************************************************)
(* An instance of Ahci for TLC: sectors of 3 bytes, tables with room for   *)
(* one entry of the lists of three, four and, to identify the disk, six,   *)
(* and two slots.  The machines have the controller on either bus, as its  *)
(* first or its last device, behind another storage controller, without a  *)
(* disk, switched off, not made bus master, or with a neighbour.           *)
(***************************************************************************)
EXTENDS Ahci, TLC

CONSTANTS super, cat

MCAddress == (super :> 0) @@ (cat :> 3)
MCSize == (super :> 3) @@ (cat :> 4)

None2 == [f \in Functions |-> "none"]
Machine(functions, ports, running, interrupts) ==
  [functions |-> functions, ports |-> ports, running |-> running,
   interrupts |-> interrupts, firmware |-> "master", neighbour |-> FALSE]
OnFirst == [None2 EXCEPT ![<<0, 0>>] = "ahci"]
OnLast == [None2 EXCEPT ![<<1, 1>>] = "ahci"]
Disk == 0 :> "sata"
MCMachines ==
  {Machine(OnFirst, (0 :> "empty") @@ (1 :> "sata"), TRUE, TRUE),
   Machine(OnFirst, (0 :> "none") @@ (1 :> "empty"), TRUE, TRUE),
   Machine(OnLast, (0 :> "sata") @@ (1 :> "sata"), FALSE, FALSE),
   Machine([None2 EXCEPT ![<<1, 1>>] = "ahci", ![<<0, 1>>] = "lookalike"],
           0 :> "empty", FALSE, FALSE),
   Machine([None2 EXCEPT ![<<0, 1>>] = "ahci", ![<<1, 0>>] = "storage"], Disk, TRUE, FALSE),
   [Machine(OnLast, Disk, FALSE, TRUE) EXCEPT !.firmware = "off"],
   [Machine(OnLast, Disk, TRUE, FALSE) EXCEPT !.firmware = "mmio"],
   [Machine(OnFirst, Disk, TRUE, FALSE) EXCEPT !.neighbour = TRUE]}
===============================================================================
