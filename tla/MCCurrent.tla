----------------------------- MODULE MCCurrent -----------------------------
(* The current process, its interrupts and a semaphore, with small tables. *)
EXTENDS Current, Hardware, TLC

SeqsUpTo(S, n) == UNION {[1..k -> S] : k \in 0..n}

MCSignatures == {<<1>>, <<2>>, <<3>>}
MCTables == SeqsUpTo(MCSignatures, 3)
MCTexts == SeqsUpTo({0, 1, 128, 255}, 3)

\* Tables of up to four records, packed as the firmware packs them, with what
\* may come behind: local APICs (enabled or not) of 8 bytes and I/O APICs of 12.
LocalAPIC(id, flags) == <<0, 8, id, id, flags, 0, 0, 0>>
IOAPIC == <<1, 12, 5, 0, 0, 0, 192, 254, 0, 0, 0, 0>>
Packed(l) ==
  LET bytes[i \in 0..Len(l)] == IF i = 0 THEN <<>> ELSE bytes[i - 1] \o l[i] IN bytes[Len(l)]
Twelve == [i \in 1..12 |-> IF i % 3 = 1 THEN LocalAPIC(3, 0) ELSE LocalAPIC(2, 1)]
MCMadts == {Packed(l) \o [i \in 1..rest |-> byte] :
              l \in SeqsUpTo({LocalAPIC(2, 1), LocalAPIC(3, 0), IOAPIC}, 4) \union {Twelve},
              rest \in {0, 60}, byte \in {0, 3, 255}}

\* The kernel reads the tables it is given as what they say, the processors' as if
\* their records were of one size: HardwareAgrees, which depends on no state, is looked at before the process has done anything.
\* (ACPIFactoryInterface.cc:15, HalApplicationProcessor.cc:192, HalPagingMgrAMD64.cc:67)
TablesRead ==
  budget = Faults /\ list = <<>> /\ ~exited /\ heap = [b \in Blocks |-> "free"] =>
    HardwareAgrees
=============================================================================
