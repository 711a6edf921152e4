------------------------------ MODULE Hardware ------------------------------
(***************************************************************************)
(* What the AMD64 kernel makes of tables it is given: the firmware's       *)
(* descriptor tables (ACPIFactoryInterface.cc), the list of processors     *)
(* (HalApplicationProcessor.cc), the page tables (HalPagingMgrAMD64.cc,    *)
(* PageMgr.cc, Pmm.cc) and a running counter (HalTimerAMD64.cc); and the   *)
(* little the ARM64 port does of this.  Each function is an operator from  *)
(* the table to its answer and what it leaves.                             *)
(***************************************************************************)
EXTENDS Integers, Sequences, FiniteSets

CONSTANTS kSchedProcessLimitPerTeam,  \* also the size of the list of processors
          PtEntries,                  \* entries of a page table: 512
          Signatures,                 \* the names of descriptor tables
          Tables,                     \* lists of descriptor tables, by their names
          Texts,                      \* tables, byte by byte
          ListAt, Stride, IdAt,       \* slots: where the first one is read, from one
                                      \* to the next, and a processor's number in one
          Madts,                      \* memory from a first processor record on
          Pages,                      \* numbers of virtual pages
          Ticks                       \* of a counter

ASSUME HardwareAssumption ==
         /\ kSchedProcessLimitPerTeam \in Nat \ {0} /\ PtEntries \in Nat \ {0}
         /\ <<>> \notin Signatures /\ Tables \subseteq Seq(Signatures)
         /\ Texts \subseteq Seq(0..255) /\ Madts \subseteq Seq(0..255)
         /\ ListAt \in Nat /\ Stride \in Nat \ {0} /\ IdAt \in Nat
         /\ Pages \subseteq Nat \ {0} /\ Ticks \subseteq Nat

None == -1

-----------------------------------------------------------------------------
(* Descriptor tables: the tables' signatures, in order.                    *)

\* A revision of 1 or less has no XSDT; without an entry the kernel panics.
Find(revision, tables, signature) ==
  LET hits == {i \in 1..Len(tables) : tables[i] = signature}
  IN  IF signature = <<>> \/ revision =< 1 \/ Len(tables) < 1 \/ hits = {}
      THEN None
      ELSE CHOOSE i \in hits : \A j \in hits : i =< j

Checksum(bytes) ==
  LET chr[i \in 0..Len(bytes)] ==
        IF i = 0 THEN 0 ELSE (chr[i - 1] + bytes[i]) % 256
  IN  chr[Len(bytes)] = 0

-----------------------------------------------------------------------------
(* Processors.  The MADT's records are packed and tell their own length,   *)
(* which nobody reads: the kernel takes the memory for slots of one size,  *)
(* that of its own struct, the first of them behind its own header.        *)

Inside(madt, i) == ListAt + i * Stride + IdAt < Len(madt)
Type(madt, i) == madt[ListAt + i * Stride + 1]
ProcessorID(madt, i) == madt[ListAt + i * Stride + IdAt + 1]

\* One turn of the loop: the type is that of slot `index', the processor that
\* of slot kSMPCount, the number of those started.
Turn(madt, w) ==
  LET kSMPCount == Len(w.started)
  IN  CASE w.over \/ ~Inside(madt, w.index) -> w
        [] ~w.over /\ Inside(madt, w.index)
           /\ (Type(madt, w.index) > 9 \/ kSMPCount > kSchedProcessLimitPerTeam) ->
             [w EXCEPT !.over = TRUE]
        [] OTHER ->
             [w EXCEPT !.index = @ + 1,
                       !.started = IF /\ Type(madt, w.index) = 0
                                      /\ ~(ProcessorID(madt, kSMPCount) < 1)
                                   THEN Append(@, ProcessorID(madt, kSMPCount)) ELSE @]

\* The loop has no other end than the two it looks for: when it is not `over',
\* it goes on with whatever comes behind the memory that was given.
mp_get_cores(madt) ==
  LET walk[i \in 0..(Len(madt) + 1)] ==
        IF i = 0 THEN [started |-> <<>>, index |-> 0, over |-> FALSE]
        ELSE Turn(madt, walk[i - 1])
  IN  walk[Len(madt) + 1]

\* The block a process's stack frame is kept in; the SIPI goes to the first
\* processor, whichever the process.
ProcessIndex(pid) == pid % kSchedProcessLimitPerTeam

mp_get_current_context(blocks, pid) == blocks[ProcessIndex(pid)]

mp_register_process(blocks, locales, frame, pid) ==
  [blocks |-> [blocks EXCEPT ![ProcessIndex(pid)] = frame], sipi |-> locales[1]]

-----------------------------------------------------------------------------
(* Page tables.  A state has the entries' flags, and the store: the page   *)
(* mapped last, its entry, and whether an operation is going on.  The walk *)
(* computes addresses and never loads one, so an entry depends on the last *)
(* nine bits of the page's number alone; `made' are those at which the     *)
(* memory read for a pointer does not hold null.                           *)

Flags == {"wr", "nx", "user"}

Unmapped(made) == [pte |-> [i \in 0..(PtEntries - 1) |-> {}], made |-> made,
                   fVAddr |-> 0, fPte |-> None, fStoreOp |-> FALSE]

PteOf(page) == page % PtEntries

\* A mapping that leaves the store's operation going on.
mmi_map_page_table_entry_Kept(s, page, flags, pte) ==
  IF pte \notin s.made THEN [code |-> 1, s |-> s]
  ELSE [code |-> 0,
        s |-> [s EXCEPT !.pte[pte] = {"present"} \union (flags \intersect Flags),
                        !.fVAddr = page, !.fPte = pte]]

mmi_map_page_table_entry(s, page, flags, pte) ==
  IF pte \notin s.made THEN [code |-> 1, s |-> s]
  ELSE [code |-> 0,
        s |-> [s EXCEPT !.pte[pte] = {"present"} \union (flags \intersect Flags),
                        !.fVAddr = page, !.fPte = pte, !.fStoreOp = FALSE]]

mm_map_page(s, page, flags) ==
  IF page = 0 \/ flags = {} THEN [code |-> 0, s |-> s]
  ELSE IF s.fVAddr = page
       THEN mmi_map_page_table_entry([s EXCEPT !.fStoreOp = FALSE], page, flags, s.fPte)
       ELSE mmi_map_page_table_entry([s EXCEPT !.fStoreOp = TRUE], page, flags, PteOf(page))

\* PageMgr's wrapper around the bitmap's pages, present from the start.
PTEWrapper(rw, user, nx) ==
  [fRw |-> rw, fUser |-> user, fExecDisable |-> nx, fShareable |-> FALSE, fPresent |-> TRUE]

Reclaim(p) == [answer |-> ~p.fPresent, page |-> [p EXCEPT !.fPresent = TRUE]]

\* A page that is present is taken for a failure: no page is ever handed out.
RequestPage(user, rw) ==
  LET pt == PTEWrapper(user, rw, FALSE) IN IF pt.fPresent THEN {} ELSE {pt}

FreePage(p) == [p EXCEPT !.fPresent = FALSE]
TogglePresent(p, enable) == [p EXCEPT !.fPresent = enable]
ToggleUser(p, enable) == [p EXCEPT !.fRw = enable]
ToggleRw(p, enable) == [p EXCEPT !.fRw = enable]
ToggleShare(p, enable) == [p EXCEPT !.fShareable = enable]

-----------------------------------------------------------------------------
(* Timers: how far the counter runs before Wait returns.                   *)

\* The loop compares the counter with the ticks to wait, not with the sum of
\* them and where the counter stood.
HardwareWait(counter, ticks) == IF counter < ticks THEN ticks - counter ELSE 0

\* The loop compares the counter with itself plus the time to wait.
SoftwareWaitEnds(fWaitFor) == fWaitFor < 1

-----------------------------------------------------------------------------
(* The ARM64 port: its page store (HalPagingMgrARM64.cc), its processes'   *)
(* frames and its interrupt controller (HalApplicationProcessor.cc).  The  *)
(* store's flag stays up after a page that was not the last one, and who   *)
(* finds it up waits for ever: code Never.                                 *)

Never == 2

NothingMapped == [fVAddr |-> 0, fPte |-> None, fStoreOp |-> FALSE]

arm_mm_map_page(s, page, flags) ==
  IF page = 0 \/ flags = {} THEN [code |-> 0, s |-> s]
  ELSE IF s.fStoreOp THEN [code |-> Never, s |-> s]
  ELSE IF s.fVAddr = page
       THEN [code |-> 0, s |-> [s EXCEPT !.fStoreOp = FALSE]]
       ELSE [code |-> 1, s |-> [s EXCEPT !.fStoreOp = TRUE]]

arm_mp_register_process(blocks, frame, pid) == [blocks EXCEPT ![ProcessIndex(pid)] = frame]

\* Interrupt 32, alone of the four whose priorities share a word, gets the
\* lowest one; the processor's mask is the same number.
GicReset == [enabled |-> FALSE, signals |-> {}, mask |-> 0, edge |-> {}, on |-> {},
             target |-> [irq \in 32..35 |-> {}], priority |-> [irq \in 32..35 |-> 0]]

mp_setup_gic_el0(gic) ==
  [gic EXCEPT !.signals = {"group0", "group1"}, !.mask = 255, !.edge = @ \union {32},
              !.target = [irq \in 32..35 |-> IF irq = 32 THEN {1} ELSE {}],
              !.priority = [irq \in 32..35 |-> IF irq = 32 THEN 255 ELSE 0],
              !.on = @ \union {32}]

mp_initialize_gic(gic) ==
  IF gic.enabled THEN [answer |-> FALSE, gic |-> gic]
  ELSE [answer |-> TRUE, gic |-> mp_setup_gic_el0([gic EXCEPT !.enabled = TRUE])]

\* The ten low bits of what was acknowledged; from 1020 on they are spurious,
\* and only the others are ended.
mp_handle_gic_interrupt_el0(id) == id % 1024 < 1020

\* A controller signals what is on and of a smaller number than the mask.
Signalled(gic, processor) ==
  {irq \in gic.on : processor \in gic.target[irq] /\ gic.priority[irq] < gic.mask}

-----------------------------------------------------------------------------

\* A table is found exactly when there is one, and then the first of its name;
\* a zero sum is kept by nothing but a change of at least two bytes.
\* (ACPIFactoryInterface.cc:15, :82)
TablesAgree ==
  /\ \A t \in Tables : \A sig \in Signatures :
       LET at == Find(2, t, sig) IN
       /\ at = None <=> ~\E i \in 1..Len(t) : t[i] = sig
       /\ at # None => t[at] = sig /\ \A i \in 1..(at - 1) : t[i] # sig
  /\ \A a, b \in Texts : Checksum(a) /\ Checksum(b) /\ Len(a) = Len(b) =>
       Cardinality({i \in 1..Len(a) : a[i] # b[i]}) # 1

\* The processors started are the bytes at the place of a number in the first
\* slots, in order and each once, whatever records those bytes belong to; when
\* the first is 0, no other is ever started; one slot of type 0 was met for
\* each, and the list is overrun by one at most.  Only a type above 9 or too
\* many processors end the loop, never the end of the table.
\* (HalApplicationProcessor.cc:231)
CoresAgree ==
  \A madt \in Madts :
    LET w == mp_get_cores(madt)
        n == Len(w.started)
    IN  /\ \A k \in 1..n : w.started[k] = ProcessorID(madt, k - 1) /\ w.started[k] # 0
        /\ Inside(madt, 0) /\ ProcessorID(madt, 0) = 0 => n = 0
        /\ n =< Cardinality({i \in 0..(w.index - 1) : Type(madt, i) = 0})
        /\ n =< kSchedProcessLimitPerTeam + 1
        /\ w.over => Type(madt, w.index) > 9 \/ n > kSchedProcessLimitPerTeam
        /\ ~w.over => /\ \A i \in 0..(w.index - 1) : Type(madt, i) =< 9
                      /\ ~Inside(madt, w.index)

\* Processes of one team never share the block their stack frame is kept in.
\* (HalApplicationProcessor.cc:152)
ContextsAgree ==
  \A p, q \in 0..(kSchedProcessLimitPerTeam - 1) :
    LET none == [i \in 0..(kSchedProcessLimitPerTeam - 1) |-> None]
        first == mp_register_process(none, <<1>>, p, p).blocks
        both == mp_register_process(first, <<1>>, q, q).blocks
    IN  /\ p # q => /\ mp_get_current_context(both, p) = p
                    /\ mp_get_current_context(both, q) = q
        /\ both = arm_mp_register_process(arm_mp_register_process(none, p, p), q, q)

\* A mapping that answers 0 leaves its page with exactly the flags asked for, no
\* operation going on and every other entry alone; a later mapping undoes it only
\* when it is of a page with the same last bits; and an operation is left going
\* on only by a page without an entry. (HalPagingMgrAMD64.cc:74)
PagesAgree ==
  \A made \in SUBSET (0..(PtEntries - 1)) : \A p, q \in Pages :
    \A f, g \in (SUBSET Flags) \ {{}} :
      LET one == mm_map_page(Unmapped(made), p, f)
          two == mm_map_page(one.s, q, g)
      IN  /\ one.code = 0 => /\ one.s.pte[PteOf(p)] = {"present"} \union f
                             /\ ~one.s.fStoreOp
          /\ one.code = 0 /\ one.s.pte[PteOf(p)] # two.s.pte[PteOf(p)] =>
               PteOf(q) = PteOf(p)
          /\ two.s.fStoreOp => PteOf(q) \notin made
          /\ two.code = 0 <=> PteOf(q) \in made

\* A page that was freed is reclaimed once; no toggle of the other flags brings
\* it back. (Pmm.cc:49, PageMgr.cc:44)
ReclaimAgrees ==
  \A rw, user, nx, e \in BOOLEAN :
    LET freed == FreePage(PTEWrapper(rw, user, nx))
        toggled == ToggleShare(ToggleRw(ToggleUser(freed, e), e), e)
    IN  /\ Reclaim(toggled).answer
        /\ ~Reclaim(Reclaim(toggled).page).answer
        /\ RequestPage(user, rw) = {}

\* No hardware wait is longer than what was asked; it is as long only when the
\* counter stood at zero. (HalTimerAMD64.cc:82)
WaitsAgree ==
  \A c, t \in Ticks : /\ HardwareWait(c, t) =< t
                      /\ HardwareWait(c, t) = t <=> c = 0 \/ t = 0

\* Of a sequence of calls the port's first one for a page fails and the second
\* never returns: no page is ever mapped. (HalPagingMgrARM64.cc:62)
ArmPagesAgree ==
  \A p, q \in Pages : \A f, g \in (SUBSET Flags) \ {{}} :
    LET one == arm_mm_map_page(NothingMapped, p, f)
        two == arm_mm_map_page(one.s, q, g)
    IN  one.code = 1 /\ two.code = Never

\* However often the controller is initialised, it is set up as the first time;
\* its one interrupt never gets to the processor it is for, as its priority is
\* no higher than the mask. (ARM64/HalApplicationProcessor.cc:65, :76)
GicAgrees ==
  LET one == mp_initialize_gic(GicReset)
      two == mp_initialize_gic(one.gic)
  IN  /\ one.answer /\ ~two.answer /\ two.gic = one.gic
      /\ one.gic.on = {32} /\ \A p \in 0..1 : Signalled(one.gic, p) = {}
      /\ \A id \in {0, 32, 1019, 1020, 1023, 1024 + 32} :
           mp_handle_gic_interrupt_el0(id) <=> id % 1024 \notin 1020..1023

\* What the kernel makes of the tables it is given is what they say, and of the
\* processors' records what slots of one size say.
\* (ACPIFactoryInterface.cc:15, HalApplicationProcessor.cc:192, HalPagingMgrAMD64.cc:67)
HardwareAgrees ==
  /\ TablesAgree /\ CoresAgree /\ ContextsAgree /\ PagesAgree /\ ReclaimAgrees /\ WaitsAgree
  /\ ArmPagesAgree /\ GicAgrees
=============================================================================
