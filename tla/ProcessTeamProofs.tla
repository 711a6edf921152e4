------------------------- MODULE ProcessTeamProofs -------------------------
(***************************************************************************)
(* Theorems about the process team, for every number of slots and          *)
(* processors, whatever its callers do.                                    *)
(***************************************************************************)
EXTENDS ProcessTeam, FiniteSetTheorems, TLAPS

-----------------------------------------------------------------------------
LEMMA TickInRange ==
  ASSUME NEW t \in 0 .. (Wrap - 1)
  PROVE  (t - 1) % Wrap \in 0 .. (Wrap - 1)
BY TeamAssumption

LEMMA SlotFacts ==
  /\ 0 \in Slots /\ Slots \subseteq Int
  /\ None \notin Slots /\ None \in Int
  /\ Quantum \in 0 .. (Wrap - 1) /\ 0 \in 0 .. (Wrap - 1)
BY TeamAssumption DEF Slots, None

(* Changing one process to another process keeps the list a list.          *)
LEMMA ProcTypes ==
  ASSUME TypeOK, NEW s \in Slots, NEW p \in Process
  PROVE  [proc EXCEPT ![s] = p] \in [Slots -> Process]
BY DEF TypeOK

(* ... and the two ways a process is rewritten give a process.             *)
LEMMA RewrittenTypes ==
  ASSUME NEW p \in Process, NEW s \in Slots
  PROVE  /\ Ended(p) \in Process /\ Spawned(p, s) \in Process
         /\ [p EXCEPT !.code = TRUE] \in Process
BY SlotFacts DEF Ended, Spawned, Process, Status

(* A pass of Run that is under way stands at a slot.                       *)
LEMMA CursorInside ==
  ASSUME TypeOK, NEW c \in Cpus, cursor[c] < N
  PROVE  cursor[c] \in Slots /\ cursor[c] + 1 \in 0 .. N
BY TeamAssumption DEF TypeOK, Slots

LEMMA CalledStale ==
  ASSUME TypeOK, NEW s \in Slots, Called(s)
  PROVE  /\ stale' \in 0 .. StaleCalls /\ stale <= stale'
         /\ stale' = 0 => stale = 0 /\ Live(s) /\ ~Ending(s)
         /\ ~(Live(s) /\ ~Ending(s)) => stale' = stale + 1
BY TeamAssumption DEF Called, TypeOK

(* Every value the team keeps has its type (UserProcessScheduler.cc).      *)
THEOREM TypeCorrect == Spec => []TypeOK
<1>1. Init => TypeOK
  BY SlotFacts, TeamAssumption DEF Init, TypeOK, Process, Status
<1>2. TypeOK /\ [Next]_teamVars => TypeOK'
  <2> SUFFICES ASSUME TypeOK, [Next]_teamVars
               PROVE  TypeOK'
    OBVIOUS
  <2> USE DEF TypeOK
  <2>1. ASSUME NEW c \in Cpus, SpawnBegin(c) PROVE TypeOK'
    <3>1. left - 1 \in 0 .. Spawns
      BY <2>1, TeamAssumption DEF SpawnBegin
    <3> QED BY <2>1, <3>1
            DEF SpawnBegin, Goto, slotVars, countVars, runVars
  <2>2. ASSUME NEW c \in Cpus, SpawnRead(c) \/ ExitRead(c) PROVE TypeOK'
    <3>1. PICK to : step' = [step EXCEPT ![c] = to] /\ to \in {"add", "subtract"}
      BY <2>2 DEF SpawnRead, ExitRead, ReadCount, Goto
    <3>2. /\ held' = [held EXCEPT ![c] = count]
          /\ UNCHANGED <<slotVars, runVars, count, lost, spawn, exit, left, stale>>
      BY <2>2 DEF SpawnRead, ExitRead, ReadCount
    <3> QED BY <3>1, <3>2 DEF slotVars, runVars
  <2>3. ASSUME NEW c \in Cpus, SpawnStore(c) PROVE TypeOK'
    <3>1. /\ count' \in Int /\ lost' \in Int /\ held' \in [Cpus -> Int]
          /\ step' = [step EXCEPT ![c] = "fill"]
          /\ UNCHANGED <<runVars, spawn, exit, left, stale>>
      BY <2>3 DEF SpawnStore, StoreCount, Goto
    <3>2. proc' \in [Slots -> Process] /\ overrun' \subseteq {"process", "fields"}
      <4>1. CASE spawn[c] \in Slots
        <5>1. [proc[spawn[c]] EXCEPT !.code = TRUE] \in Process
          BY <4>1, RewrittenTypes
        <5>2. proc' = [proc EXCEPT ![spawn[c]] = [proc[spawn[c]] EXCEPT !.code = TRUE]]
          BY <2>3, <4>1 DEF SpawnStore
        <5> QED BY <2>3, <4>1, <5>1, <5>2, ProcTypes DEF SpawnStore
      <4>2. CASE spawn[c] \notin Slots
        BY <2>3, <4>2 DEF SpawnStore
      <4> QED BY <4>1, <4>2
    <3> QED BY <3>1, <3>2 DEF runVars
  <2>4. ASSUME NEW c \in Cpus, SpawnEnd(c) PROVE TypeOK'
    <3>1. proc' \in [Slots -> Process]
      BY <2>4, RewrittenTypes DEF SpawnEnd
    <3> QED BY <2>4, <3>1 DEF SpawnEnd, Goto, countVars, runVars
  <2>5. ASSUME NEW c \in Cpus, SpawnRefused(c) PROVE TypeOK'
    BY <2>5 DEF SpawnRefused, countVars, runVars
  <2>6. ASSUME NEW c \in Cpus, NEW s \in Slots, NEW wakeup \in BOOLEAN,
               Wake(c, s, wakeup)
        PROVE TypeOK'
    <3>1. stale' \in 0 .. StaleCalls
      BY <2>6, CalledStale DEF Wake
    <3>2. proc' \in [Slots -> Process]
      BY <2>6, SlotFacts DEF Wake, Process, Status
    <3> QED BY <2>6, <3>1, <3>2 DEF Wake, countVars, runVars
  <2>7. ASSUME NEW c \in Cpus, NEW s \in Slots,
               NEW status \in {"killed", "frozen"}, ExitBegin(c, s, status)
        PROVE TypeOK'
    <3>1. stale' \in 0 .. StaleCalls
      BY <2>7, CalledStale DEF ExitBegin
    <3>2. proc' \in [Slots -> Process]
      BY <2>7, SlotFacts DEF ExitBegin, Process, Status
    <3> QED BY <2>7, <3>1, <3>2 DEF ExitBegin, Goto, countVars, runVars
  <2>8. ASSUME NEW c \in Cpus, ExitFree(c) PROVE TypeOK'
    <3>1. CASE exit[c] \in Slots
      <4>1. Ended(proc[exit[c]]) \in Process
        BY <3>1, RewrittenTypes
      <4>2. proc' \in [Slots -> Process]
        BY <2>8, <3>1, <4>1, ProcTypes DEF ExitFree
      <4> QED BY <2>8, <4>2 DEF ExitFree, Goto, countVars, runVars
    <3>2. CASE exit[c] \notin Slots
      <4>1. proc' = proc
        BY <2>8, <3>2 DEF ExitFree
      <4> QED BY <2>8, <4>1 DEF ExitFree, Goto, countVars, runVars
    <3> QED BY <3>1, <3>2
  <2>9. ASSUME NEW c \in Cpus, ExitStore(c) PROVE TypeOK'
    BY <2>9 DEF ExitStore, StoreCount, Goto, slotVars, runVars
  <2>10. ASSUME NEW c \in Cpus, RunBegin(c) PROVE TypeOK'
    BY <2>10, TeamAssumption DEF RunBegin, slotVars, countVars
  <2>11. ASSUME NEW c \in Cpus, RunSlot(c) PROVE TypeOK'
    <3>1. cursor[c] \in Slots /\ cursor[c] + 1 \in 0 .. N
      BY <2>11, CursorInside DEF RunSlot
    <3>2. CASE Pick(c, cursor[c])
      <4>1. [proc[cursor[c]] EXCEPT !.ptime = Quantum] \in Process
        BY <3>1, SlotFacts DEF Process
      <4>2. proc' = [proc EXCEPT ![cursor[c]] = [proc[cursor[c]] EXCEPT !.ptime = Quantum]]
        BY <3>2 DEF Pick
      <4>3. proc' \in [Slots -> Process]
        BY <3>1, <4>1, <4>2, ProcTypes
      <4> QED BY <2>11, <3>2, <4>3 DEF RunSlot, Pick, countVars
    <3>3. CASE PassBy(c, cursor[c])
      <4>1. Tick(proc[cursor[c]]) \in Process
        BY <3>1, TickInRange DEF Tick, Process
      <4>2. proc' \in [Slots -> Process]
        BY <3>1, <3>3, <4>1, ProcTypes DEF PassBy
      <4> QED BY <2>11, <3>1, <3>3, <4>2 DEF RunSlot, PassBy, countVars
    <3> QED BY <2>11, <3>2, <3>3 DEF RunSlot
  <2>12. ASSUME NEW c \in Cpus, RunSwitch(c) PROVE TypeOK'
    <3>1. cursor[c] \in Slots /\ cursor[c] + 1 \in 0 .. N
      BY <2>12, CursorInside DEF RunSwitch
    <3>2. proc[cursor[c]].pid \in Slots \cup {None}
      BY <3>1 DEF Process
    <3> QED BY <2>12, <3>1, <3>2 DEF RunSwitch, slotVars, countVars
  <2>13. CASE UNCHANGED teamVars
    BY <2>13 DEF teamVars, slotVars, countVars, runVars
  <2> QED BY <2>1, <2>2, <2>3, <2>4, <2>5, <2>6, <2>7, <2>8, <2>9, <2>10, <2>11, <2>12,
             <2>13, TeamAssumption
          DEF Next, Spawning, Exiting, Scheduling, Crash, RunEmpty
<1> QED BY <1>1, <1>2, PTL DEF Spec

-----------------------------------------------------------------------------
(* As long as nobody has used a process that had ended, a live one,        *)
(* runnable or not yet, has its slot's pid and its stack.                  *)
LiveIsWhole == stale = 0 => \A s \in Slots : Live(s) => Whole(s)

(* A step of a pass of Run changes nothing of a process but its time.      *)
LEMMA RunKeeps ==
  ASSUME TypeOK, NEW c \in Cpus, RunSlot(c)
  PROVE  \A s \in Slots : /\ proc'[s].status = proc[s].status
                          /\ proc'[s].pid = proc[s].pid
                          /\ proc'[s].stack = proc[s].stack
BY DEF RunSlot, Pick, PassBy, Tick, TypeOK, Process

(* The store of a code pointer changes nothing else of any process.        *)
LEMMA StoreKeeps ==
  ASSUME TypeOK, NEW c \in Cpus, SpawnStore(c)
  PROVE  \A s \in Slots : /\ proc'[s].status = proc[s].status
                          /\ proc'[s].pid = proc[s].pid
                          /\ proc'[s].stack = proc[s].stack
BY DEF SpawnStore, TypeOK, Process

LEMMA LiveIsWholeInductive ==
  ASSUME TypeOK, LiveIsWhole, [Next]_teamVars
  PROVE  LiveIsWhole'
<1> USE DEF TypeOK, Process, LiveIsWhole, Whole, Live
<1>1. ASSUME NEW c \in Cpus, SpawnStore(c) PROVE LiveIsWhole'
  BY <1>1, StoreKeeps DEF SpawnStore
<1>2. ASSUME NEW c \in Cpus, SpawnEnd(c) PROVE LiveIsWhole'
  BY <1>2 DEF SpawnEnd, Spawned
<1>3. ASSUME NEW c \in Cpus, NEW s \in Slots, NEW wakeup \in BOOLEAN,
             Wake(c, s, wakeup)
      PROVE LiveIsWhole'
  <2>1. stale' = 0 => stale = 0 /\ Live(s)
    BY <1>3, CalledStale DEF Wake
  <2> QED BY <1>3, <2>1 DEF Wake
<1>4. ASSUME NEW c \in Cpus, NEW s \in Slots,
             NEW status \in {"killed", "frozen"}, ExitBegin(c, s, status)
      PROVE LiveIsWhole'
  <2>1. stale' = 0 => stale = 0 /\ Live(s)
    BY <1>4, CalledStale DEF ExitBegin
  <2> QED BY <1>4, <2>1 DEF ExitBegin
<1>5. ASSUME NEW c \in Cpus, ExitFree(c) PROVE LiveIsWhole'
  BY <1>5 DEF ExitFree, Ended
<1>6. ASSUME NEW c \in Cpus, RunSlot(c) PROVE LiveIsWhole'
  BY <1>6, RunKeeps DEF RunSlot
<1>7. CASE UNCHANGED <<proc, stale>>
  BY <1>7
<1> QED BY <1>1, <1>2, <1>3, <1>4, <1>5, <1>6, <1>7, TeamAssumption
        DEF Next, Spawning, Exiting, Scheduling, Crash, SpawnBegin, SpawnRead, SpawnRefused,
            ReadCount, ExitRead, ExitStore, RunEmpty, RunBegin, RunSwitch, teamVars, slotVars

LEMMA LiveStayWhole == Spec => []LiveIsWhole
<1>1. Init => LiveIsWhole
  BY DEF Init, LiveIsWhole, Live
<1>2. TypeOK /\ LiveIsWhole /\ [Next]_teamVars => LiveIsWhole'
  BY LiveIsWholeInductive
<1> QED BY <1>1, <1>2, TypeCorrect, PTL DEF Spec

(* A process the scheduler may pick has the pid of its own slot and a      *)
(* stack that was not freed, whatever is spawned, ended or woken between   *)
(* two steps of a pass of Run (lines 439-463 and 499-517), until somebody  *)
(* uses a process that had ended.                                          *)
THEOREM RunnableWhole == Spec => []RunnableIsWhole
<1>1. LiveIsWhole => RunnableIsWhole
  BY DEF LiveIsWhole, RunnableIsWhole, Runnable, Live
<1> QED BY <1>1, LiveStayWhole, PTL

-----------------------------------------------------------------------------
(* On one processor nothing comes between CanBeScheduled and Switch.       *)
OneProcessor == \A c, d \in Cpus : c = d

PickedHeld == \A c \in Cpus : picked[c] => cursor[c] < N /\ Whole(cursor[c])

LEMMA PickedHeldInductive ==
  ASSUME OneProcessor, StaleCalls = 0, TypeOK, LiveIsWhole, PickedHeld, [Next]_teamVars
  PROVE  PickedHeld'
<1> USE DEF TypeOK, PickedHeld
<1>0. stale = 0
  OBVIOUS
<1>1. ASSUME NEW c \in Cpus, cursor[c] = N, cursor' = cursor, picked' = picked
      PROVE PickedHeld'
  BY <1>1, TeamAssumption DEF OneProcessor
<1>2. ASSUME NEW c \in Cpus, RunBegin(c) PROVE PickedHeld'
  <2>1. \A d \in Cpus : ~picked'[d]
    BY <1>2, TeamAssumption DEF RunBegin, OneProcessor
  <2> QED BY <2>1
<1>3. ASSUME NEW c \in Cpus, RunSlot(c) PROVE PickedHeld'
  <2>1. cursor[c] \in Slots
    BY <1>3, CursorInside DEF RunSlot
  <2>2. CASE Pick(c, cursor[c])
    <3>1. Whole(cursor[c])
      BY <1>0, <2>1, <2>2 DEF Pick, CanBeScheduled, LiveIsWhole, Live
    <3>2. cursor' = cursor /\ cursor[c] < N
      BY <1>3, <2>2 DEF RunSlot, Pick
    <3>3. Whole(cursor[c])'
      BY <1>3, <2>1, <3>1, <3>2, RunKeeps DEF Whole
    <3> QED BY <3>2, <3>3 DEF OneProcessor
  <2>3. CASE PassBy(c, cursor[c])
    <3>1. \A d \in Cpus : ~picked'[d]
      BY <1>3, <2>3 DEF RunSlot, PassBy, OneProcessor
    <3> QED BY <3>1
  <2> QED BY <1>3, <2>2, <2>3 DEF RunSlot
<1>4. ASSUME NEW c \in Cpus, RunSwitch(c) PROVE PickedHeld'
  <2>1. \A d \in Cpus : ~picked'[d]
    BY <1>4 DEF RunSwitch, OneProcessor
  <2> QED BY <2>1
<1>5. CASE UNCHANGED <<proc, cursor, picked>>
  BY <1>5 DEF Whole
<1>6. ASSUME NEW c \in Cpus, Spawning(c) PROVE PickedHeld'
  <2>1. CASE UNCHANGED <<proc, cursor, picked>>
    BY <1>5, <2>1
  <2>2. CASE cursor[c] = N /\ cursor' = cursor /\ picked' = picked
    BY <1>1, <2>2
  <2> QED BY <1>6, <2>1, <2>2
          DEF Spawning, SpawnBegin, SpawnRead, SpawnStore, SpawnEnd, SpawnRefused, ReadCount,
              Idle, In, runVars, slotVars
<1>7. ASSUME NEW c \in Cpus, Exiting(c) PROVE PickedHeld'
  <2>1. cursor[c] = N /\ cursor' = cursor /\ picked' = picked
    BY <1>7 DEF Exiting, ExitBegin, Crash, ExitFree, ExitRead, ExitStore, ReadCount, Idle, In,
                runVars
  <2> QED BY <1>1, <2>1
<1>8. ASSUME NEW c \in Cpus, NEW s \in Slots, NEW wakeup \in BOOLEAN, Wake(c, s, wakeup)
      PROVE PickedHeld'
  BY <1>1, <1>8 DEF Wake, Idle, runVars
<1> QED BY <1>2, <1>3, <1>4, <1>5, <1>6, <1>7, <1>8, TeamAssumption
        DEF Next, Scheduling, RunEmpty, teamVars, slotVars, runVars

(* On one processor Switch hands over the process CanBeScheduled looked    *)
(* at, with its own pid and a stack (Run, lines 444-455), although the     *)
(* interrupt comes in the middle of spawns and exits.                      *)
THEOREM PickedWhole ==
  ASSUME OneProcessor, StaleCalls = 0
  PROVE  Spec => []PickedIsWhole
<1>1. Init => PickedHeld
  BY DEF Init, PickedHeld
<1>2. TypeOK /\ LiveIsWhole /\ PickedHeld /\ [Next]_teamVars => PickedHeld'
  BY PickedHeldInductive
<1>3. PickedHeld => PickedIsWhole
  BY DEF PickedHeld, PickedIsWhole
<1> QED BY <1>1, <1>2, <1>3, TypeCorrect, LiveStayWhole, PTL DEF Spec

-----------------------------------------------------------------------------
(* A spawn counts its process before the slot shows it, and an exit counts *)
(* it out after: the count, with what stores have overwritten of it and    *)
(* the uses of ended processes, covers the slots in use, the spawns that   *)
(* have counted and the exits that have not.                               *)
Kept == {s \in Slots : Live(s) /\ ~Ending(s)}
Fillers == {c \in Cpus : step[c] = "fill"}
Enders == {c \in Cpus : step[c] \in {"free", "uncount", "subtract"}}
InUse == {s \in Slots : Live(s)}

ExitsKnown == \A c \in Cpus : step[c] = "free" <=> exit[c] # None

Covered == Cardinality(Kept) + Cardinality(Fillers) + Cardinality(Enders)
             <= count + lost + stale

LEMMA FiniteParts ==
  /\ IsFiniteSet(Kept) /\ Cardinality(Kept) \in Nat
  /\ IsFiniteSet(Fillers) /\ Cardinality(Fillers) \in Nat
  /\ IsFiniteSet(Enders) /\ Cardinality(Enders) \in Nat
  /\ IsFiniteSet(InUse) /\ Cardinality(InUse) \in Nat
<1>1. IsFiniteSet(Slots)
  BY FS_Interval, TeamAssumption DEF Slots
<1>2. /\ IsFiniteSet(Kept) /\ IsFiniteSet(Fillers) /\ IsFiniteSet(Enders)
      /\ IsFiniteSet(InUse)
  BY <1>1, TeamAssumption, FS_Subset DEF Kept, Fillers, Enders, InUse
<1> QED BY <1>2, FS_CardinalityType

LEMMA CardinalityAdd ==
  ASSUME NEW S, IsFiniteSet(S), NEW x
  PROVE  /\ Cardinality(S) \in Nat /\ Cardinality(S \cup {x}) \in Nat
         /\ Cardinality(S \cup {x}) <= Cardinality(S) + 1
<1>1. Cardinality(S) \in Nat
  BY FS_CardinalityType
<1>2. CASE x \in S
  <2>1. S \cup {x} = S
    BY <1>2
  <2>2. Cardinality(S \cup {x}) = Cardinality(S)
    BY <2>1, Zenon
  <2> QED BY <1>1, <2>2
<1>3. CASE x \notin S
  <2>1. Cardinality(S \cup {x}) = Cardinality(S) + 1
    BY <1>3, FS_AddElement
  <2> QED BY <1>1, <2>1
<1> QED BY <1>2, <1>3

LEMMA CardinalityRemove ==
  ASSUME NEW S, IsFiniteSet(S), NEW x \in S
  PROVE  /\ Cardinality(S) \in Nat /\ Cardinality(S \ {x}) \in Nat
         /\ Cardinality(S \ {x}) = Cardinality(S) - 1
<1>1. Cardinality(S \ {x}) = Cardinality(S) - 1 /\ IsFiniteSet(S \ {x})
  BY FS_RemoveElement
<1>2. Cardinality(S) \in Nat /\ Cardinality(S \ {x}) \in Nat
  BY <1>1, FS_CardinalityType
<1> QED BY <1>1, <1>2

(* Every slot that is being ended has a processor that ends it.            *)
LEMMA UseIsCovered ==
  ASSUME TypeOK, ExitsKnown
  PROVE  Cardinality(InUse) <= Cardinality(Kept) + Cardinality(Enders)
<1> DEFINE F == {c \in Cpus : step[c] = "free"}
           E == {s \in Slots : Ending(s)}
           f == [c \in F |-> exit[c]]
<1>1. f \in Surjection(F, E)
  <2>1. \A c \in F : exit[c] \in E
    BY DEF ExitsKnown, Ending, TypeOK
  <2>2. \A s \in E : \E c \in F : f[c] = s
    BY SlotFacts DEF ExitsKnown, Ending
  <2> QED BY <2>1, <2>2 DEF Surjection
<1>2. IsFiniteSet(F) /\ Cardinality(F) <= Cardinality(Enders)
  BY FiniteParts, FS_Subset DEF Enders
<1>3. IsFiniteSet(E) /\ Cardinality(E) <= Cardinality(F)
  <2> HIDE DEF f, F, E
  <2> QED BY <1>1, <1>2, FS_Surjection
<1>4. InUse \subseteq Kept \cup E
  BY DEF InUse, Kept
<1>5. /\ IsFiniteSet(Kept \cup E)
      /\ Cardinality(Kept \cup E) = Cardinality(Kept) + Cardinality(E) - Cardinality(Kept \cap E)
  <2> HIDE DEF E
  <2> QED BY <1>3, FiniteParts, FS_Union
<1>6. Cardinality(Kept \cap E) \in Nat
  <2> HIDE DEF E
  <2>1. IsFiniteSet(Kept \cap E)
    BY FiniteParts, FS_Intersection
  <2> QED BY <2>1, FS_CardinalityType
<1>7. Cardinality(InUse) <= Cardinality(Kept \cup E)
  <2> HIDE DEF E
  <2> QED BY <1>4, <1>5, FS_Subset
<1>8. Cardinality(E) \in Nat /\ Cardinality(F) \in Nat
  <2> HIDE DEF E, F
  <2> QED BY <1>2, <1>3, FS_CardinalityType
<1> HIDE DEF E, F
<1> QED BY <1>2, <1>3, <1>5, <1>6, <1>7, <1>8, FiniteParts

LEMMA ExitsKnownInductive ==
  ASSUME TypeOK, ExitsKnown, [Next]_teamVars
  PROVE  ExitsKnown'
<1> USE DEF TypeOK, ExitsKnown
<1>1. ASSUME NEW c \in Cpus, NEW place, step' = [step EXCEPT ![c] = place],
             place # "free", step[c] # "free", exit' = exit
      PROVE ExitsKnown'
  BY <1>1
<1>2. ASSUME NEW c \in Cpus, NEW s \in Slots,
             NEW status \in {"killed", "frozen"}, ExitBegin(c, s, status)
      PROVE ExitsKnown'
  BY <1>2, SlotFacts DEF ExitBegin, Goto
<1>3. ASSUME NEW c \in Cpus, ExitFree(c) PROVE ExitsKnown'
  BY <1>3 DEF ExitFree, Goto
<1>4. ASSUME NEW c \in Cpus,
             SpawnBegin(c) \/ SpawnRead(c) \/ SpawnStore(c) \/ SpawnEnd(c)
             \/ ExitRead(c) \/ ExitStore(c)
      PROVE ExitsKnown'
  BY <1>1, <1>4 DEF SpawnBegin, SpawnRead, SpawnStore, SpawnEnd, ExitRead, ExitStore, ReadCount,
                    Goto, In, Idle
<1>5. CASE UNCHANGED <<step, exit>>
  BY <1>5
<1> QED BY <1>2, <1>3, <1>4, <1>5, TeamAssumption
        DEF Next, Spawning, SpawnRefused, Wake, Exiting, Crash, Scheduling, RunEmpty, RunBegin,
            RunSlot, RunSwitch, teamVars

LEMMA FinitePartsNext ==
  /\ Cardinality(Kept') \in Nat /\ Cardinality(Fillers') \in Nat
  /\ Cardinality(Enders') \in Nat
<1>1. IsFiniteSet(Slots)
  BY FS_Interval, TeamAssumption DEF Slots
<1>2. IsFiniteSet(Kept') /\ IsFiniteSet(Fillers') /\ IsFiniteSet(Enders')
  BY <1>1, TeamAssumption, FS_Subset DEF Kept, Fillers, Enders
<1> QED BY <1>2, FS_CardinalityType

(* One processor's step from one place to another.                         *)
LEMMA Moves ==
  ASSUME TypeOK, NEW c \in Cpus, NEW place, step' = [step EXCEPT ![c] = place]
  PROVE  /\ \A S \in SUBSET {"idle", "count", "add", "fill", "free", "uncount", "subtract"} :
              LET P == {d \in Cpus : step[d] \in S}
                  Q == {d \in Cpus : step'[d] \in S}
              IN  /\ (step[c] \in S <=> place \in S) => Cardinality(Q) <= Cardinality(P) + 0
                  /\ step[c] \notin S => Cardinality(Q) <= Cardinality(P) + 1
                  /\ step[c] \in S /\ place \notin S => Cardinality(Q) <= Cardinality(P) + (-1)
<1> SUFFICES ASSUME NEW S \in SUBSET {"idle", "count", "add", "fill", "free", "uncount", "subtract"}
             PROVE
    LET P == {d \in Cpus : step[d] \in S}
        Q == {d \in Cpus : step'[d] \in S}
    IN  /\ (step[c] \in S <=> place \in S) => Cardinality(Q) <= Cardinality(P) + 0
        /\ step[c] \notin S => Cardinality(Q) <= Cardinality(P) + 1
        /\ step[c] \in S /\ place \notin S => Cardinality(Q) <= Cardinality(P) + (-1)
  OBVIOUS
<1> DEFINE P == {d \in Cpus : step[d] \in S}
           Q == {d \in Cpus : step'[d] \in S}
<1>1. IsFiniteSet(P)
  BY TeamAssumption, FS_Subset
<1>2. \A d \in Cpus : step'[d] = IF d = c THEN place ELSE step[d]
  BY DEF TypeOK
<1>3. /\ (step[c] \in S <=> place \in S) => Q = P
      /\ step[c] \notin S /\ place \in S => Q = P \cup {c}
      /\ step[c] \in S /\ place \notin S => Q = P \ {c} /\ c \in P
  BY <1>2
<1> HIDE DEF P, Q
<1>4. Cardinality(P) \in Nat
  BY <1>1, FS_CardinalityType
<1>5. CASE step[c] \in S <=> place \in S
  <2>1. Cardinality(Q) = Cardinality(P)
    BY <1>3, <1>5, Zenon
  <2> QED BY <1>4, <1>5, <2>1 DEF P, Q
<1>6. CASE step[c] \notin S /\ place \in S
  <2>1. Cardinality(Q) = Cardinality(P \cup {c})
    BY <1>3, <1>6, Zenon
  <2>2. Cardinality(P \cup {c}) \in Nat /\ Cardinality(P \cup {c}) <= Cardinality(P) + 1
    BY <1>1, CardinalityAdd
  <2> QED BY <1>4, <1>6, <2>1, <2>2 DEF P, Q
<1>7. CASE step[c] \in S /\ place \notin S
  <2>1. c \in P
    BY <1>3, <1>7
  <2>2. Cardinality(Q) = Cardinality(P \ {c})
    BY <1>3, <1>7, Zenon
  <2>3. Cardinality(P \ {c}) = Cardinality(P) - 1
    BY <1>1, <2>1, CardinalityRemove
  <2> QED BY <1>4, <1>7, <2>2, <2>3 DEF P, Q
<1> QED BY <1>5, <1>6, <1>7
(* The places that are counted.                                            *)
LEMMA FillersSame ==
  ASSUME TypeOK, NEW c \in Cpus, NEW place, step' = [step EXCEPT ![c] = place],
         step[c] \in {"fill"} <=> place \in {"fill"}
  PROVE  Cardinality(Fillers') <= Cardinality(Fillers) + 0
<1> DEFINE S == {"fill"}
<1>1. Cardinality({d \in Cpus : step'[d] \in S}) <= Cardinality({d \in Cpus : step[d] \in S}) + 0
  <2>1. S \in SUBSET {"idle", "count", "add", "fill", "free", "uncount", "subtract"}
    OBVIOUS
  <2>2. step[c] \in S <=> place \in S
    OBVIOUS
  <2> HIDE DEF S
  <2> QED BY <2>1, <2>2, Moves
<1>2. {d \in Cpus : step[d] \in S} = Fillers /\ {d \in Cpus : step'[d] \in S} = Fillers'
  BY DEF Fillers
<1> QED BY <1>1, <1>2, Zenon

LEMMA FillersMore ==
  ASSUME TypeOK, NEW c \in Cpus, NEW place, step' = [step EXCEPT ![c] = place],
         step[c] \notin {"fill"}
  PROVE  Cardinality(Fillers') <= Cardinality(Fillers) + 1
<1> DEFINE S == {"fill"}
<1>1. Cardinality({d \in Cpus : step'[d] \in S}) <= Cardinality({d \in Cpus : step[d] \in S}) + 1
  <2>1. S \in SUBSET {"idle", "count", "add", "fill", "free", "uncount", "subtract"}
    OBVIOUS
  <2>2. step[c] \notin S
    OBVIOUS
  <2> HIDE DEF S
  <2> QED BY <2>1, <2>2, Moves
<1>2. {d \in Cpus : step[d] \in S} = Fillers /\ {d \in Cpus : step'[d] \in S} = Fillers'
  BY DEF Fillers
<1> QED BY <1>1, <1>2, Zenon

LEMMA FillersLess ==
  ASSUME TypeOK, NEW c \in Cpus, NEW place, step' = [step EXCEPT ![c] = place],
         step[c] \in {"fill"}, place \notin {"fill"}
  PROVE  Cardinality(Fillers') <= Cardinality(Fillers) + (-1)
<1> DEFINE S == {"fill"}
<1>1. Cardinality({d \in Cpus : step'[d] \in S}) <= Cardinality({d \in Cpus : step[d] \in S}) + (-1)
  <2>1. S \in SUBSET {"idle", "count", "add", "fill", "free", "uncount", "subtract"}
    OBVIOUS
  <2>2. step[c] \in S /\ place \notin S
    OBVIOUS
  <2> HIDE DEF S
  <2> QED BY <2>1, <2>2, Moves
<1>2. {d \in Cpus : step[d] \in S} = Fillers /\ {d \in Cpus : step'[d] \in S} = Fillers'
  BY DEF Fillers
<1> QED BY <1>1, <1>2, Zenon

LEMMA EndersSame ==
  ASSUME TypeOK, NEW c \in Cpus, NEW place, step' = [step EXCEPT ![c] = place],
         step[c] \in {"free", "uncount", "subtract"} <=> place \in {"free", "uncount", "subtract"}
  PROVE  Cardinality(Enders') <= Cardinality(Enders) + 0
<1> DEFINE S == {"free", "uncount", "subtract"}
<1>1. Cardinality({d \in Cpus : step'[d] \in S}) <= Cardinality({d \in Cpus : step[d] \in S}) + 0
  <2>1. S \in SUBSET {"idle", "count", "add", "fill", "free", "uncount", "subtract"}
    OBVIOUS
  <2>2. step[c] \in S <=> place \in S
    OBVIOUS
  <2> HIDE DEF S
  <2> QED BY <2>1, <2>2, Moves
<1>2. {d \in Cpus : step[d] \in S} = Enders /\ {d \in Cpus : step'[d] \in S} = Enders'
  BY DEF Enders
<1> QED BY <1>1, <1>2, Zenon

LEMMA EndersMore ==
  ASSUME TypeOK, NEW c \in Cpus, NEW place, step' = [step EXCEPT ![c] = place],
         step[c] \notin {"free", "uncount", "subtract"}
  PROVE  Cardinality(Enders') <= Cardinality(Enders) + 1
<1> DEFINE S == {"free", "uncount", "subtract"}
<1>1. Cardinality({d \in Cpus : step'[d] \in S}) <= Cardinality({d \in Cpus : step[d] \in S}) + 1
  <2>1. S \in SUBSET {"idle", "count", "add", "fill", "free", "uncount", "subtract"}
    OBVIOUS
  <2>2. step[c] \notin S
    OBVIOUS
  <2> HIDE DEF S
  <2> QED BY <2>1, <2>2, Moves
<1>2. {d \in Cpus : step[d] \in S} = Enders /\ {d \in Cpus : step'[d] \in S} = Enders'
  BY DEF Enders
<1> QED BY <1>1, <1>2, Zenon

LEMMA EndersLess ==
  ASSUME TypeOK, NEW c \in Cpus, NEW place, step' = [step EXCEPT ![c] = place],
         step[c] \in {"free", "uncount", "subtract"}, place \notin {"free", "uncount", "subtract"}
  PROVE  Cardinality(Enders') <= Cardinality(Enders) + (-1)
<1> DEFINE S == {"free", "uncount", "subtract"}
<1>1. Cardinality({d \in Cpus : step'[d] \in S}) <= Cardinality({d \in Cpus : step[d] \in S}) + (-1)
  <2>1. S \in SUBSET {"idle", "count", "add", "fill", "free", "uncount", "subtract"}
    OBVIOUS
  <2>2. step[c] \in S /\ place \notin S
    OBVIOUS
  <2> HIDE DEF S
  <2> QED BY <2>1, <2>2, Moves
<1>2. {d \in Cpus : step[d] \in S} = Enders /\ {d \in Cpus : step'[d] \in S} = Enders'
  BY DEF Enders
<1> QED BY <1>1, <1>2, Zenon

(* Nothing else than the slots changes hands.                              *)
LEMMA SameKept ==
  ASSUME TypeOK, exit' = exit, \A s \in Slots : proc'[s].status = proc[s].status
  PROVE  Cardinality(Kept') <= Cardinality(Kept) + 0
<1>1. Kept' = Kept
  BY DEF Kept, Live, Ending
<1>2. Cardinality(Kept') = Cardinality(Kept)
  BY <1>1, Zenon
<1> QED BY <1>2, FiniteParts

LEMMA SamePlaces ==
  ASSUME TypeOK, step' = step
  PROVE  /\ Cardinality(Fillers') <= Cardinality(Fillers) + 0
         /\ Cardinality(Enders') <= Cardinality(Enders) + 0
<1>1. Fillers' = Fillers /\ Enders' = Enders
  BY DEF Fillers, Enders
<1>2. /\ Cardinality(Fillers') = Cardinality(Fillers)
      /\ Cardinality(Enders') = Cardinality(Enders)
  BY <1>1, Zenon
<1> QED BY <1>2, FiniteParts

(* One more slot at most, when only one slot is written.                   *)
LEMMA OneMoreKept ==
  ASSUME TypeOK, NEW s \in Slots, Kept' \subseteq Kept \cup {s}
  PROVE  Cardinality(Kept') <= Cardinality(Kept) + 1
<1>1. IsFiniteSet(Kept \cup {s})
  BY FiniteParts, FS_AddElement
<1>2. Cardinality(Kept') <= Cardinality(Kept \cup {s})
  BY <1>1, FS_Subset
<1>3. /\ Cardinality(Kept \cup {s}) \in Nat
      /\ Cardinality(Kept \cup {s}) <= Cardinality(Kept) + 1
  BY FiniteParts, CardinalityAdd
<1>4. Cardinality(Kept') \in Nat
  BY <1>1, FS_Subset, FS_CardinalityType
<1> QED BY <1>2, <1>3, <1>4, FiniteParts

LEMMA AddKeepsOrder ==
  \A a, s, t \in Int : s <= t => a + s <= a + t
  OBVIOUS

LEMMA CoveredInductive ==
  ASSUME TypeOK, TypeOK', ExitsKnown, Covered, [Next]_teamVars
  PROVE  Covered'
<1>0. /\ count \in Int /\ lost \in Int /\ stale \in Int
      /\ count' \in Int /\ lost' \in Int /\ stale' \in Int
      /\ \A c \in Cpus : held[c] \in Int
  BY DEF TypeOK
<1>c. PICK x \in Nat, y \in Nat, z \in Nat :
        x = Cardinality(Kept) /\ y = Cardinality(Fillers) /\ z = Cardinality(Enders)
  BY FiniteParts
<1>d. PICK u \in Nat, v \in Nat, w \in Nat :
        u = Cardinality(Kept') /\ v = Cardinality(Fillers') /\ w = Cardinality(Enders')
  BY FinitePartsNext
<1>e. PICK m \in Int : m = count + lost + stale
  <2>1. count + lost + stale \in Int
    BY <1>0
  <2> QED BY <2>1
<1>f. PICK n \in Int : n = count' + lost' + stale'
  <2>1. count' + lost' + stale' \in Int
    BY <1>0
  <2> QED BY <2>1
<1>g. x + y + z <= m
  BY <1>c, <1>e DEF Covered
<1>h. ASSUME u + v + w <= n PROVE Covered'
  BY <1>d, <1>f, <1>h DEF Covered
<1>a. ASSUME UNCHANGED <<step, exit, count, lost, stale>>,
             \A s \in Slots : proc'[s].status = proc[s].status
      PROVE  Covered'
  <2>1. u <= x + 0 /\ v <= y + 0 /\ w <= z + 0
    BY <1>c, <1>d, <1>a, SameKept, SamePlaces
  <2>0. n = m
    BY <1>0, <1>e, <1>f, <1>a
  <2>2. m + 0 + 0 + 0 <= n
    BY <2>0
  <2>3. u + v + w <= n
    BY <1>g, <2>1, <2>2
  <2> QED BY <1>h, <2>3
<1>b. ASSUME NEW c \in Cpus, NEW place, step' = [step EXCEPT ![c] = place],
             step[c] # "fill", place # "fill",
             step[c] \in {"free", "uncount", "subtract"} <=> place \in {"free", "uncount", "subtract"},
             UNCHANGED <<exit, proc, count, lost, stale>>
      PROVE  Covered'
  <2>1. Cardinality(Kept') <= Cardinality(Kept) + 0
    BY <1>b, SameKept
  <2>2. /\ Cardinality(Fillers') <= Cardinality(Fillers) + 0
        /\ Cardinality(Enders') <= Cardinality(Enders) + 0
    BY <1>b, FillersSame, EndersSame
  <2> QED
    <3>1. u <= x + 0 /\ v <= y + 0 /\ w <= z + 0
      BY <1>c, <1>d, <1>b, <2>1, <2>2
    <3>0. n = m
      BY <1>0, <1>e, <1>f, <1>b
    <3>2. m + 0 + 0 + 0 <= n
      BY <3>0
    <3>3. u + v + w <= n
      BY <1>g, <3>1, <3>2
    <3> QED BY <1>h, <3>3
<1>1. ASSUME NEW c \in Cpus, SpawnBegin(c) PROVE Covered'
  BY <1>1, <1>b DEF SpawnBegin, Idle, Goto, slotVars, countVars
<1>2. ASSUME NEW c \in Cpus, SpawnRead(c) PROVE Covered'
  BY <1>2, <1>b DEF SpawnRead, ReadCount, In, Goto, slotVars
<1>3. ASSUME NEW c \in Cpus, ExitRead(c) PROVE Covered'
  BY <1>3, <1>b DEF ExitRead, ReadCount, In, Goto, slotVars
<1>4. ASSUME NEW c \in Cpus, SpawnStore(c) PROVE Covered'
  <2>1. Cardinality(Kept') <= Cardinality(Kept) + 0
    BY <1>4, SameKept, StoreKeeps DEF SpawnStore
  <2>2. /\ Cardinality(Fillers') <= Cardinality(Fillers) + 1
        /\ Cardinality(Enders') <= Cardinality(Enders) + 0
    <3>1. PICK place : place = "fill" /\ step' = [step EXCEPT ![c] = place]
      BY <1>4 DEF SpawnStore, In, Goto
    <3>2. step[c] = "add"
      BY <1>4 DEF SpawnStore, In, Goto
    <3> QED BY <3>1, <3>2, FillersMore, EndersSame
  <2>3. count' + lost' + stale' = count + lost + stale + 1
    BY <1>0, <1>4 DEF SpawnStore, StoreCount
  <2> QED
    <3>1. u <= x + 0 /\ v <= y + 1 /\ w <= z + 0
      BY <1>c, <1>d, <2>1, <2>2, <2>3
    <3>0. n = m + 1
      BY <1>0, <1>e, <1>f, <2>3
    <3>2. m + 0 + 1 + 0 <= n
      BY <3>0
    <3>3. u + v + w <= n
      BY <1>g, <3>1, <3>2
    <3> QED BY <1>h, <3>3
<1>5. ASSUME NEW c \in Cpus, SpawnEnd(c) PROVE Covered'
  <2>1. Cardinality(Kept') <= Cardinality(Kept) + 1
    <3>1. CASE spawn[c] \in Slots
      <4>1. Kept' \subseteq Kept \cup {spawn[c]}
        BY <1>5 DEF SpawnEnd, Kept, Live, Ending
      <4> QED BY <3>1, <4>1, OneMoreKept
    <3>2. CASE spawn[c] \notin Slots
      <4>1. Kept' = Kept
        BY <1>5, <3>2 DEF SpawnEnd, Kept, Live, Ending
      <4>2. Cardinality(Kept') = Cardinality(Kept)
        BY <4>1, Zenon
      <4> QED BY <4>2, FiniteParts
    <3> QED BY <3>1, <3>2
  <2>2. /\ Cardinality(Fillers') <= Cardinality(Fillers) + (-1)
        /\ Cardinality(Enders') <= Cardinality(Enders) + 0
    <3>1. PICK place : place = "idle" /\ step' = [step EXCEPT ![c] = place]
      BY <1>5 DEF SpawnEnd, In, Goto
    <3>2. step[c] = "fill"
      BY <1>5 DEF SpawnEnd, In, Goto
    <3> QED BY <3>1, <3>2, FillersLess, EndersSame
  <2>3. count' + lost' + stale' = count + lost + stale
    BY <1>5 DEF SpawnEnd, countVars
  <2> QED
    <3>1. u <= x + 1 /\ v <= y + (-1) /\ w <= z + 0
      BY <1>c, <1>d, <2>1, <2>2, <2>3
    <3>0. n = m
      BY <1>0, <1>e, <1>f, <2>3
    <3>2. m + 1 + (-1) + 0 <= n
      BY <3>0
    <3>3. u + v + w <= n
      BY <1>g, <3>1, <3>2
    <3> QED BY <1>h, <3>3
<1>6. ASSUME NEW c \in Cpus, NEW s \in Slots, NEW wakeup \in BOOLEAN,
             Wake(c, s, wakeup)
      PROVE Covered'
  <2>1. /\ Cardinality(Fillers') <= Cardinality(Fillers) + 0
        /\ Cardinality(Enders') <= Cardinality(Enders) + 0
    BY <1>6, SamePlaces DEF Wake
  <2>2. count' + lost' = count + lost
    BY <1>6 DEF Wake, countVars
  <2>3. CASE Live(s) /\ ~Ending(s)
    <3>1. Kept' = Kept
      BY <1>6, <2>3 DEF Wake, Kept, Live, Ending, TypeOK, Process
    <3>2. Cardinality(Kept') = Cardinality(Kept)
      BY <3>1, Zenon
    <3>3. Cardinality(Kept') <= Cardinality(Kept) + 0
      BY <3>2, FiniteParts
    <3>4. stale <= stale'
      BY <1>6, CalledStale DEF Wake
    <3> QED
      <4>1. u <= x + 0 /\ v <= y + 0 /\ w <= z + 0
        BY <1>c, <1>d, <2>1, <2>2, <3>3, <3>4
      <4>a. n = count + lost + stale'
        BY <1>0, <1>f, <2>2
      <4>b. count + lost \in Int
        BY <1>0
      <4>0. m <= n
        BY <1>0, <1>e, <4>a, <4>b, <3>4, AddKeepsOrder
      <4>2. m + 0 + 0 + 0 <= n
        BY <4>0
      <4>3. u + v + w <= n
        BY <1>g, <4>1, <4>2
      <4> QED BY <1>h, <4>3
  <2>4. CASE ~(Live(s) /\ ~Ending(s))
    <3>1. Kept' \subseteq Kept \cup {s}
      BY <1>6 DEF Wake, Kept, Live, Ending, TypeOK
    <3>2. Cardinality(Kept') <= Cardinality(Kept) + 1
      BY <3>1, OneMoreKept
    <3>3. stale' = stale + 1
      BY <1>6, <2>4, CalledStale DEF Wake
    <3> QED
      <4>1. u <= x + 1 /\ v <= y + 0 /\ w <= z + 0
        BY <1>c, <1>d, <2>1, <2>2, <3>2, <3>3
      <4>a. n = count + lost + (stale + 1)
        BY <1>0, <1>f, <2>2, <3>3
      <4>0. n = m + 1
        BY <1>0, <1>e, <4>a
      <4>2. m + 1 + 0 + 0 <= n
        BY <4>0
      <4>3. u + v + w <= n
        BY <1>g, <4>1, <4>2
      <4> QED BY <1>h, <4>3
  <2> QED BY <2>3, <2>4
<1>7. ASSUME NEW c \in Cpus, NEW s \in Slots,
             NEW status \in {"killed", "frozen"}, ExitBegin(c, s, status)
      PROVE Covered'
  <2>1. /\ Cardinality(Fillers') <= Cardinality(Fillers) + 0
        /\ Cardinality(Enders') <= Cardinality(Enders) + 1
    <3>1. PICK place : place = "free" /\ step' = [step EXCEPT ![c] = place]
      BY <1>7 DEF ExitBegin, Idle, Goto
    <3>2. step[c] = "idle"
      BY <1>7 DEF ExitBegin, Idle, Goto
    <3> QED BY <3>1, <3>2, FillersSame, EndersMore
  <2>2. count' + lost' = count + lost
    BY <1>7 DEF ExitBegin, countVars
  <2>3. Kept' = Kept \ {s}
    <3>1. Ending(s)'
      BY <1>7 DEF ExitBegin, Ending, TypeOK
    <3>2. \A t \in Slots \ {s} : proc'[t] = proc[t]
      BY <1>7 DEF ExitBegin, TypeOK
    <3>3. \A t \in Slots \ {s} : Ending(t)' <=> Ending(t)
      BY <1>7, SlotFacts DEF ExitBegin, Ending, Idle, ExitsKnown, TypeOK
    <3> QED BY <3>1, <3>2, <3>3 DEF Live, Kept
  <2>4. CASE Live(s) /\ ~Ending(s)
    <3>1. s \in Kept
      BY <2>4 DEF Kept
    <3>2. Cardinality(Kept') = Cardinality(Kept \ {s})
      BY <2>3, Zenon
    <3>3. Cardinality(Kept \ {s}) = Cardinality(Kept) - 1
      BY <3>1, FiniteParts, CardinalityRemove
    <3>4. Cardinality(Kept') <= Cardinality(Kept) + (-1)
      BY <3>2, <3>3, FiniteParts
    <3>5. stale <= stale'
      BY <1>7, CalledStale DEF ExitBegin
    <3> QED
      <4>1. u <= x + (-1) /\ v <= y + 0 /\ w <= z + 1
        BY <1>c, <1>d, <2>1, <2>2, <3>4, <3>5
      <4>a. n = count + lost + stale'
        BY <1>0, <1>f, <2>2
      <4>b. count + lost \in Int
        BY <1>0
      <4>0. m <= n
        BY <1>0, <1>e, <4>a, <4>b, <3>5, AddKeepsOrder
      <4>2. m + (-1) + 0 + 1 <= n
        BY <4>0
      <4>3. u + v + w <= n
        BY <1>g, <4>1, <4>2
      <4> QED BY <1>h, <4>3
  <2>5. CASE ~(Live(s) /\ ~Ending(s))
    <3>1. Kept' = Kept
      BY <2>3, <2>5 DEF Kept
    <3>2. Cardinality(Kept') = Cardinality(Kept)
      BY <3>1, Zenon
    <3>3. Cardinality(Kept') <= Cardinality(Kept) + 0
      BY <3>2, FiniteParts
    <3>4. stale' = stale + 1
      BY <1>7, <2>5, CalledStale DEF ExitBegin
    <3> QED
      <4>1. u <= x + 0 /\ v <= y + 0 /\ w <= z + 1
        BY <1>c, <1>d, <2>1, <2>2, <3>3, <3>4
      <4>a. n = count + lost + (stale + 1)
        BY <1>0, <1>f, <2>2, <3>4
      <4>0. n = m + 1
        BY <1>0, <1>e, <4>a
      <4>2. m + 0 + 0 + 1 <= n
        BY <4>0
      <4>3. u + v + w <= n
        BY <1>g, <4>1, <4>2
      <4> QED BY <1>h, <4>3
  <2> QED BY <2>4, <2>5
<1>8. ASSUME NEW c \in Cpus, ExitFree(c) PROVE Covered'
  <2>1. /\ Cardinality(Fillers') <= Cardinality(Fillers) + 0
        /\ Cardinality(Enders') <= Cardinality(Enders) + 0
    <3>1. PICK place : place = "uncount" /\ step' = [step EXCEPT ![c] = place]
      BY <1>8 DEF ExitFree, In, Goto
    <3>2. step[c] = "free"
      BY <1>8 DEF ExitFree, In, Goto
    <3> QED BY <3>1, <3>2, FillersSame, EndersSame
  <2>2. PICK s \in Slots : exit[c] = s
    BY <1>8 DEF ExitFree, In, ExitsKnown, TypeOK
  <2>3. \A t \in Slots \ {s} : proc'[t] = proc[t] /\ (Ending(t)' <=> Ending(t))
    BY <1>8, <2>2, SlotFacts DEF ExitFree, Ending, TypeOK
  <2>4. ~Live(s)' /\ Ending(s)
    BY <1>8, <2>2 DEF ExitFree, Ended, Live, Ending, TypeOK
  <2>5. Kept' = Kept
    BY <2>3, <2>4 DEF Kept, Live
  <2>6. Cardinality(Kept') = Cardinality(Kept)
    BY <2>5, Zenon
  <2>7. Cardinality(Kept') <= Cardinality(Kept) + 0
    BY <2>6, FiniteParts
  <2>8. count' + lost' + stale' = count + lost + stale
    BY <1>8 DEF ExitFree, countVars
  <2> QED
    <3>1. u <= x + 0 /\ v <= y + 0 /\ w <= z + 0
      BY <1>c, <1>d, <2>1, <2>7, <2>8
    <3>0. n = m
      BY <1>0, <1>e, <1>f, <2>8
    <3>2. m + 0 + 0 + 0 <= n
      BY <3>0
    <3>3. u + v + w <= n
      BY <1>g, <3>1, <3>2
    <3> QED BY <1>h, <3>3
<1>9. ASSUME NEW c \in Cpus, ExitStore(c) PROVE Covered'
  <2>1. Cardinality(Kept') <= Cardinality(Kept) + 0
    BY <1>9, SameKept DEF ExitStore, slotVars
  <2>2. /\ Cardinality(Fillers') <= Cardinality(Fillers) + 0
        /\ Cardinality(Enders') <= Cardinality(Enders) + (-1)
    <3>1. PICK place : place = "idle" /\ step' = [step EXCEPT ![c] = place]
      BY <1>9 DEF ExitStore, In, Goto
    <3>2. step[c] = "subtract"
      BY <1>9 DEF ExitStore, In, Goto
    <3> QED BY <3>1, <3>2, FillersSame, EndersLess
  <2>3. count' + lost' + stale' = count + lost + stale - 1
    BY <1>0, <1>9 DEF ExitStore, StoreCount
  <2> QED
    <3>1. u <= x + 0 /\ v <= y + 0 /\ w <= z + (-1)
      BY <1>c, <1>d, <2>1, <2>2, <2>3
    <3>a. n = count + lost + stale - 1
      BY <1>0, <1>f, <2>3
    <3>0. n = m - 1
      BY <1>0, <1>e, <3>a
    <3>2. m + 0 + 0 + (-1) <= n
      BY <3>0
    <3>3. u + v + w <= n
      BY <1>g, <3>1, <3>2
    <3> QED BY <1>h, <3>3
<1>10. ASSUME NEW c \in Cpus, RunSlot(c) PROVE Covered'
  BY <1>10, <1>a, RunKeeps DEF RunSlot, countVars
<1>11. CASE UNCHANGED <<proc, step, exit, count, lost, stale>>
  BY <1>11, <1>a
<1> QED BY <1>1, <1>2, <1>3, <1>4, <1>5, <1>6, <1>7, <1>8, <1>9, <1>10, <1>11, TeamAssumption
        DEF Next, Spawning, Exiting, Scheduling, Crash, SpawnRefused, RunEmpty,
            RunBegin, RunSwitch, teamVars, slotVars, countVars

(* The live processes missing from the count are no more than the changes  *)
(* of it that another's store has overwritten (lines 272 and 292), and one *)
(* for each use of a process that had ended (line 398): without either,    *)
(* Run, which returns at once below 1 (lines 430-434), ignores none.       *)
THEOREM LiveAreCounted == Spec => []LiveCounted
<1>1. Init => ExitsKnown /\ Covered
  <2> SUFFICES ASSUME Init PROVE ExitsKnown /\ Covered
    OBVIOUS
  <2>1. Kept = {} /\ Fillers = {} /\ Enders = {}
    BY SlotFacts DEF Init, Kept, Live, Fillers, Enders
  <2>2. Cardinality(Kept) = 0 /\ Cardinality(Fillers) = 0 /\ Cardinality(Enders) = 0
    BY <2>1, FS_EmptySet
  <2> QED BY <2>2 DEF Init, Covered, ExitsKnown
<1>2. TypeOK /\ ExitsKnown /\ [Next]_teamVars => ExitsKnown'
  BY ExitsKnownInductive
<1>3. TypeOK /\ TypeOK' /\ ExitsKnown /\ Covered /\ [Next]_teamVars => Covered'
  BY CoveredInductive
<1>4. TypeOK /\ ExitsKnown /\ Covered => LiveCounted
  <2> SUFFICES ASSUME TypeOK, ExitsKnown, Covered PROVE LiveCounted
    OBVIOUS
  <2>1. count + lost + stale \in Int
    BY DEF TypeOK
  <2> QED BY <2>1, UseIsCovered, FiniteParts DEF Covered, LiveCounted, InUse
<1> QED BY <1>1, <1>2, <1>3, <1>4, TypeCorrect, PTL DEF Spec
=============================================================================
