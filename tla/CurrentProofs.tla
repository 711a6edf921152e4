---------------------------- MODULE CurrentProofs ----------------------------
(***************************************************************************)
(* Theorems about the current process, its interrupts and a semaphore, for *)
(* any heap, any nesting of handlers and any number of callers; and about  *)
(* the tables the kernel is given, whatever their length and contents.     *)
(* MCCurrent is where the two modules meet.                                *)
(***************************************************************************)
EXTENDS MCCurrent, FiniteSetTheorems, WellFoundedInduction, TLAPS

-----------------------------------------------------------------------------
(* The semaphore: a call that is past its look saw it free; until something*)
(* comes in between, whoever was told he has it is alone and it is taken.  *)
OneHolder ==
  /\ \A c, d \in Callers : told[c] /\ told[d] => c = d
  /\ \A c \in Callers : told[c] => sem
  /\ sem /\ (\A c \in Callers : ~told[c]) => silent

SemaphoreInv ==
  /\ sem \in BOOLEAN /\ torn \in BOOLEAN /\ told \in [Callers -> BOOLEAN]
  /\ pc \in [Callers -> {"idle", "lock", "first", "waiting"}]
  /\ seen = [c \in Callers |-> FALSE]
  /\ ~torn => OneHolder

LEMMA SemaphoreInductive ==
  ASSUME SemaphoreInv, [Next]_vars
  PROVE  SemaphoreInv'
<1>1. ASSUME UNCHANGED semaphore PROVE SemaphoreInv'
  BY <1>1 DEF semaphore, SemaphoreInv, OneHolder
<1>2. ASSUME NEW c \in Callers, Lock(c) \/ LockOrWaitBegin(c) \/ LockOrWaitEnd(c)
      PROVE  SemaphoreInv'
  <2>1. /\ UNCHANGED <<sem, told, silent, torn>>
        /\ \E place \in {"idle", "lock", "first", "waiting"} : pc' = [pc EXCEPT ![c] = place]
        /\ seen' = [seen EXCEPT ![c] = FALSE]
    BY <1>2 DEF Lock, LockOrWaitBegin, LockOrWaitEnd, Looks, Locks
  <2> QED BY <2>1 DEF SemaphoreInv, OneHolder
<1>3. ASSUME NEW c \in Callers, LockStore(c) PROVE SemaphoreInv'
  <2>1. /\ pc[c] \in {"lock", "first"} /\ sem' = (status = "running")
        /\ silent' = (pc[c] = "first") /\ told' = [told EXCEPT ![c] = pc[c] = "lock"]
        /\ seen' = [seen EXCEPT ![c] = FALSE]
        /\ pc' = [pc EXCEPT ![c] = IF pc[c] = "lock" THEN "idle" ELSE "waiting"]
        /\ torn' = (torn \/ sem # seen[c] \/ status # "running")
    BY <1>3 DEF LockStore
  <2>2. ASSUME ~torn' PROVE ~torn /\ sem = FALSE /\ sem' = TRUE
    BY <2>1, <2>2 DEF SemaphoreInv
  <2>3. ASSUME ~torn' PROVE OneHolder'
    <3>1. \A d \in Callers : ~told[d]
      BY <2>2, <2>3 DEF SemaphoreInv, OneHolder
    <3>2. \A d \in Callers : told'[d] <=> d = c /\ pc[c] = "lock"
      BY <2>1, <3>1 DEF SemaphoreInv
    <3> QED BY <2>1, <2>2, <2>3, <3>2 DEF OneHolder
  <2>4. sem' \in BOOLEAN /\ torn' \in BOOLEAN
    BY <2>1 DEF SemaphoreInv
  <2> QED BY <2>1, <2>3, <2>4 DEF SemaphoreInv
<1>5. ASSUME NEW c \in Callers, Unlock(c) PROVE SemaphoreInv'
  BY <1>5 DEF Unlock, SemaphoreInv, OneHolder
<1>6. ASSUME Memory PROVE SemaphoreInv'
  BY <1>1, <1>6 DEF Memory, Exit, Crash, Wake, New, Delete, OtherTakes, OtherGives
<1>7. ASSUME Interrupts \/ Handlers PROVE SemaphoreInv'
  BY <1>1, <1>7 DEF Interrupts, Interrupt, Handlers, CheckRunning, KillProcess, Spin,
     SetFlag, RunScheduler, ClearFlag, Call, Iret
<1>8. ASSUME UNCHANGED vars PROVE SemaphoreInv'
  BY <1>1, <1>8 DEF vars
<1> QED BY <1>2, <1>3, <1>5, <1>6, <1>7, <1>8 DEF Next, Semaphores

LEMMA AtMostOne ==
  ASSUME OneHolder
  PROVE  SemaphoreExcludes
<1>1. CASE \A c \in Callers : ~told[c]
  <2>1. {c \in Callers : told[c]} = {}
    BY <1>1
  <2> QED BY <1>1, <2>1, FS_EmptySet DEF SemaphoreExcludes, OneHolder
<1>2. CASE \E c \in Callers : told[c]
  <2>1. PICK c \in Callers : told[c]
    BY <1>2
  <2>2. {d \in Callers : told[d]} = {c}
    BY <2>1 DEF OneHolder
  <2> QED BY <2>1, <2>2, FS_Singleton DEF SemaphoreExcludes, OneHolder
<1> QED BY <1>1, <1>2

(* Of any number of callers on any number of processors, two are told they *)
(* have the semaphore only if one stored between the other's look and its  *)
(* store, or the process ended there (Semaphore.cc:28).                    *)
THEOREM HoldersExclude == Spec => []SemaphoreExcludes
<1>1. Init => SemaphoreInv
  BY DEF Init, SemaphoreInv, OneHolder
<1>2. SemaphoreInv => SemaphoreExcludes
  BY AtMostOne DEF SemaphoreInv, SemaphoreExcludes
<1> QED BY <1>1, <1>2, SemaphoreInductive, PTL DEF Spec
-----------------------------------------------------------------------------
(* Interrupts: only exceptions come on top of another handler, and a frame *)
(* stands where its vector's handler goes.                                 *)
Places == {"check", "kill", "spin", "set", "run", "clear", "call", "iret", "astray"}
Frames == [v : Vectors, pc : Places]

InterruptInv ==
  /\ stack \in Seq(Frames)
  /\ flag \in BOOLEAN
  /\ tries = Tries
  /\ \A i \in 1..Len(stack) :
       /\ stack[i].pc \in {"spin", "set", "run", "clear"} => stack[i].v = Tick
       /\ i < Len(stack) => stack[i].v \in Exception
  /\ flag => \E i \in 1..Len(stack) : stack[i].v = Tick /\ stack[i].pc \in {"run", "clear"}

LEMMA TickIsNoException == Tick \notin Exception
BY DEF Tick, Exception

(* Putting the handler that runs somewhere else leaves the others alone.   *)
LEMMA Moved ==
  ASSUME stack \in Seq(Frames), stack # <<>>, NEW place \in Places, Goto(place)
  PROVE  /\ stack' \in Seq(Frames) /\ Len(stack') = Len(stack) /\ Len(stack) >= 1
         /\ stack'[1].pc = place /\ stack'[1].v = stack[1].v
         /\ \A i \in 1..Len(stack) : i # 1 => stack'[i] = stack[i]
<1>1. Len(stack) \in Nat /\ Len(stack) >= 1 /\ stack[1] \in Frames
  OBVIOUS
<1>2. [stack[1] EXCEPT !.pc = place] \in Frames
  BY <1>1 DEF Frames
<1>3. stack' = [stack EXCEPT ![1] = [stack[1] EXCEPT !.pc = place]]
  BY DEF Goto
<1> QED BY <1>1, <1>2, <1>3 DEF Frames

(* A tick that runs the handler is the only frame.                         *)
LEMMA TickAtBottom ==
  ASSUME InterruptInv, stack # <<>>, stack[1].v = Tick
  PROVE  Len(stack) = 1
<1>1. stack \in Seq(Frames)
  BY DEF InterruptInv
<1>2. Len(stack) \in Nat /\ Len(stack) >= 1
  BY <1>1
<1>3. 1 < Len(stack) => stack[1].v \in Exception
  BY <1>2 DEF InterruptInv
<1>4. ~(1 < Len(stack))
  BY <1>3, TickIsNoException, Zenon
<1> QED BY <1>2, <1>4

(* Steps that keep a tick out of spinning in vain.                         *)
LEMMA MovedKeeps ==
  ASSUME InterruptInv, stack # <<>>, NEW place \in Places, Goto(place),
         tries' = Tries, flag' \in BOOLEAN,
         place \in {"spin", "set", "run", "clear"} => stack[1].v = Tick,
         flag' => \/ stack[1].v = Tick /\ place \in {"run", "clear"}
                  \/ stack[1].v # Tick /\ flag
  PROVE  InterruptInv'
<1>1. /\ stack' \in Seq(Frames) /\ Len(stack') = Len(stack) /\ Len(stack) \in Nat
      /\ Len(stack) >= 1
      /\ stack'[1].pc = place /\ stack'[1].v = stack[1].v
      /\ \A i \in 1..Len(stack) : i # 1 => stack'[i] = stack[i]
  <2>1. stack \in Seq(Frames)
    BY DEF InterruptInv
  <2> QED BY ONLY <2>1, Moved, stack # <<>>, place \in Places, Goto(place)
<1>2. \A i \in 1..Len(stack') :
       /\ stack'[i].pc \in {"spin", "set", "run", "clear"} => stack'[i].v = Tick
       /\ i < Len(stack') => stack'[i].v \in Exception
  BY <1>1 DEF InterruptInv
<1>3. flag' => \E i \in 1..Len(stack') : stack'[i].v = Tick /\ stack'[i].pc \in {"run", "clear"}
  BY <1>1 DEF InterruptInv
<1> QED BY <1>1, <1>2, <1>3 DEF InterruptInv

LEMMA InterruptInductive ==
  ASSUME InterruptInv, [Next]_vars, \A v \in Vectors : v \in Int
  PROVE  InterruptInv'
<1>1. ASSUME UNCHANGED <<stack, flag, tries>> PROVE InterruptInv'
  BY <1>1 DEF InterruptInv
<1>2. ASSUME Memory \/ Semaphores \/ UNCHANGED vars PROVE InterruptInv'
  BY <1>1, <1>2 DEF Memory, Exit, Crash, Wake, New, Delete, OtherTakes, OtherGives,
     Semaphores, Lock, LockOrWaitBegin, LockOrWaitEnd, Looks, LockStore, Unlock, vars, interrupts
<1>3. ASSUME NEW v \in Vectors, Interrupt(v) PROVE InterruptInv'
  <2>1. /\ stack' = <<Frame(v)>> \o stack
        /\ flag' = flag /\ tries' = tries
    BY <1>3 DEF Interrupt
  <2>2. Frame(v) \in Frames
    BY <1>3 DEF Frame, Frames, Places
  <2>3. /\ stack' \in Seq(Frames) /\ Len(stack') = Len(stack) + 1 /\ Len(stack) \in Nat
        /\ stack'[1] = Frame(v)
        /\ \A i \in 1..Len(stack) : stack'[i + 1] = stack[i]
    BY <2>1, <2>2 DEF InterruptInv
  <2>4. stack # <<>> => v \in Exception
    BY <1>3 DEF Interrupt, Comes, GateMasks
  <2>5. Frame(v).v = v /\ (Frame(v).pc \in {"spin", "set", "run", "clear"} => v = Tick)
    BY DEF Frame
  <2>6. ASSUME NEW i \in 1..Len(stack')
        PROVE  /\ stack'[i].pc \in {"spin", "set", "run", "clear"} => stack'[i].v = Tick
               /\ i < Len(stack') => stack'[i].v \in Exception
    <3>1. CASE i = 1
      BY <2>3, <2>4, <2>5, <3>1 DEF InterruptInv
    <3>2. CASE i # 1
      <4>1. i - 1 \in 1..Len(stack) /\ stack'[i] = stack[i - 1]
        BY <2>3, <3>2
      <4> QED BY <2>3, <4>1 DEF InterruptInv
    <3> QED BY <3>1, <3>2
  <2>7. flag' => \E i \in 1..Len(stack') : stack'[i].v = Tick /\ stack'[i].pc \in {"run", "clear"}
    <3> SUFFICES ASSUME flag PROVE \E i \in 1..Len(stack') :
                   stack'[i].v = Tick /\ stack'[i].pc \in {"run", "clear"}
      BY <2>1
    <3>1. PICK i \in 1..Len(stack) : stack[i].v = Tick /\ stack[i].pc \in {"run", "clear"}
      BY DEF InterruptInv
    <3>2. i + 1 \in 1..Len(stack') /\ stack'[i + 1] = stack[i]
      BY <2>3
    <3> QED BY <3>1, <3>2
  <2> QED BY <2>1, <2>3, <2>6, <2>7 DEF InterruptInv
<1>4. ASSUME CheckRunning PROVE InterruptInv'
  <2>1. PICK place \in {"kill", "iret"} : Goto(place)
    BY <1>4 DEF CheckRunning
  <2>2. stack # <<>> /\ Top.pc = "check" /\ UNCHANGED <<flag, tries>>
    BY <1>4 DEF CheckRunning, At
  <2>3. CASE Top.v = Tick
    BY <2>1, <2>2, <2>3, MovedKeeps, TickAtBottom DEF Places, InterruptInv, Top
  <2>4. CASE Top.v # Tick
    BY <2>1, <2>2, <2>4, MovedKeeps DEF Places, InterruptInv, Top
  <2> QED BY <2>3, <2>4
<1>5. ASSUME KillProcess PROVE InterruptInv'
  BY <1>5, MovedKeeps DEF KillProcess, At, Top, Places, InterruptInv
<1>6. ASSUME Spin PROVE InterruptInv'
  <2>1. stack # <<>> /\ stack[1].pc = "spin" /\ stack[1].v = Tick /\ 1 \in 1..Len(stack)
    BY <1>6 DEF Spin, At, Top, InterruptInv
  <2>2. ~flag
    BY <2>1, TickAtBottom DEF InterruptInv
  <2> QED BY <1>6, <2>1, <2>2, MovedKeeps DEF Spin, Places, InterruptInv
<1>7. ASSUME SetFlag \/ RunScheduler \/ ClearFlag PROVE InterruptInv'
  <2>1. stack # <<>> /\ 1 \in 1..Len(stack) /\ stack[1].pc \in {"set", "run", "clear"}
    BY <1>7 DEF SetFlag, RunScheduler, ClearFlag, At, Top, InterruptInv
  <2>2. stack[1].v = Tick
    BY <2>1 DEF InterruptInv
  <2> QED BY <1>7, <2>1, <2>2, MovedKeeps
          DEF SetFlag, RunScheduler, ClearFlag, Places, InterruptInv
<1>8. ASSUME Call PROVE InterruptInv'
  <2>1. stack # <<>> /\ Top.pc = "call" /\ Goto("iret") /\ UNCHANGED <<flag, tries>>
    BY <1>8 DEF Call, At
  <2>2. CASE Top.v = Tick
    BY <2>1, <2>2, MovedKeeps, TickAtBottom DEF Places, InterruptInv, Top
  <2>3. CASE Top.v # Tick
    BY <2>1, <2>3, MovedKeeps DEF Places, InterruptInv, Top
  <2> QED BY <2>2, <2>3
<1>9. ASSUME Iret, Goto("astray") PROVE InterruptInv'
  <2>1. stack # <<>> /\ stack[1].pc = "iret" /\ UNCHANGED <<flag, tries>>
    BY <1>9 DEF Iret, At, Top
  <2>2. CASE stack[1].v = Tick
    <3>1. flag => FALSE
      BY <2>1, <2>2, TickAtBottom DEF InterruptInv
    <3> QED BY <1>9, <2>1, <3>1, MovedKeeps DEF Places, InterruptInv
  <2>3. CASE stack[1].v # Tick
    BY <1>9, <2>1, <2>3, MovedKeeps DEF Places, InterruptInv
  <2> QED BY <2>2, <2>3
<1>11. ASSUME Iret, stack' = Tail(stack) PROVE InterruptInv'
  <2>1. /\ stack # <<>> /\ stack[1].pc = "iret" /\ stack' = Tail(stack)
        /\ UNCHANGED <<flag, tries>>
    BY <1>11 DEF Iret, At, Top
  <2>2. /\ stack' \in Seq(Frames) /\ Len(stack') = Len(stack) - 1 /\ Len(stack) \in Nat
        /\ \A i \in 1..Len(stack') : stack'[i] = stack[i + 1] /\ i + 1 \in 1..Len(stack)
    BY <2>1 DEF InterruptInv
  <2>3. flag => \E i \in 1..Len(stack') : stack'[i].v = Tick /\ stack'[i].pc \in {"run", "clear"}
    <3> SUFFICES ASSUME flag PROVE \E i \in 1..Len(stack') :
                   stack'[i].v = Tick /\ stack'[i].pc \in {"run", "clear"}
      OBVIOUS
    <3>1. PICK i \in 1..Len(stack) : stack[i].v = Tick /\ stack[i].pc \in {"run", "clear"}
      BY DEF InterruptInv
    <3>2. i # 1
      BY <2>1, <3>1
    <3>3. i - 1 \in 1..Len(stack') /\ stack'[i - 1] = stack[i]
      BY <2>2, <3>2
    <3> QED BY <3>1, <3>3
  <2> QED BY <2>1, <2>2, <2>3 DEF InterruptInv
<1>10. ASSUME Interrupts PROVE InterruptInv'
  BY <1>3, <1>10, CurrentAssumption DEF Interrupts
<1>12. Iret => Goto("astray") \/ stack' = Tail(stack)
  BY DEF Iret
<1> QED BY <1>2, <1>4, <1>5, <1>6, <1>7, <1>8, <1>9, <1>10, <1>11, <1>12 DEF Next, Handlers

LEMMA InterruptsAtStart ==
  ASSUME Init PROVE InterruptInv
<1>1. stack = <<>> /\ flag = FALSE /\ tries = Tries
  BY DEF Init
<1>2. stack \in Seq(Frames) /\ Len(stack) = 0
  BY <1>1
<1>3. \A i \in 1..Len(stack) : FALSE
  BY <1>2
<1> QED BY <1>1, <1>2, <1>3, CurrentAssumption DEF InterruptInv

LEMMA OneTick ==
  ASSUME InterruptInv PROVE TickAlone
<1> DEFINE TickFrames == {i \in DOMAIN stack : stack[i].v = Tick}
<1>1. stack \in Seq(Frames) /\ Len(stack) \in Nat /\ DOMAIN stack = 1..Len(stack)
  BY DEF InterruptInv
<1>2. \A i \in 1..Len(stack) : i < Len(stack) => stack[i].v \in Exception
  BY DEF InterruptInv
<1>3. \A i \in 1..Len(stack) : stack[i].v = Tick => ~(i < Len(stack))
  BY <1>2, TickIsNoException, Zenon
<1>4. TickFrames \subseteq {Len(stack)}
  BY <1>1, <1>3
<1>5. Cardinality(TickFrames) =< 1
  <2> HIDE DEF TickFrames
  <2>1. TickFrames = {} \/ TickFrames = {Len(stack)}
    BY <1>4
  <2>2. Cardinality({}) = 0 /\ Cardinality({Len(stack)}) = 1
    BY FS_EmptySet, FS_Singleton
  <2>3. Cardinality(TickFrames) = 0 \/ Cardinality(TickFrames) = 1
    BY <2>1, <2>2, Zenon
  <2> QED BY <2>3
<1> QED BY <1>1, <1>2, <1>5 DEF TickAlone, InterruptInv

(* The flag is up only inside the one timer interrupt, whatever faults cut *)
(* it short: the wait for it is never entered                              *)
(* (HalCoreInterruptHandlerAMD64.cc:68).                                   *)
THEOREM TickIsAlone == Spec => []TickAlone
<1>1. InterruptInv /\ [Next]_vars => InterruptInv'
  BY InterruptInductive, CurrentAssumption
<1> QED BY <1>1, InterruptsAtStart, OneTick, PTL DEF Spec

-----------------------------------------------------------------------------
(* Memory: what the list says of the blocks as long as the process runs.   *)
Entries == [block : Blocks, size : {0, 1}]
DataBlocks == {b \in Blocks : heap[b] = "data"}

MemoryType ==
  /\ status \in Status /\ exited \in BOOLEAN
  /\ heap \in [Blocks -> {"free", "data", "other"}]
  /\ list \in Seq(Entries) /\ Len(list) =< 2
  /\ used \in 0..MaxUsed
  /\ deleted \subseteq Blocks /\ hurt \subseteq Blocks

MemoryInv ==
  /\ hurt \subseteq deleted
  /\ ~exited => hurt = {}
  /\ \A b \in Listed : heap[b] = "data" \/ b \in deleted \/ exited
  /\ \A b \in Blocks : ~exited /\ heap[b] = "data" /\ b \notin Listed => Len(list) = 2
  /\ ~exited => used >= Cardinality(DataBlocks)

LEMMA ListedFacts ==
  ASSUME MemoryType
  PROVE  /\ Listed \subseteq Blocks
         /\ Len(list) \in Nat /\ DOMAIN list = 1..Len(list)
         /\ list = <<>> => Listed = {} /\ Len(list) = 0
         /\ list # <<>> => list[1] \in Entries /\ list[1].block \in Listed
<1>1. list \in Seq(Entries)
  BY DEF MemoryType
<1>2. /\ Len(list) \in Nat /\ DOMAIN list = 1..Len(list)
      /\ \A i \in 1..Len(list) : list[i] \in Entries
      /\ list # <<>> => 1 \in 1..Len(list)
      /\ list = <<>> => Len(list) = 0
  BY <1>1
<1>3. \A e \in Entries : e.block \in Blocks
  BY DEF Entries
<1>4. Listed \subseteq Blocks
  BY <1>2, <1>3 DEF Listed
<1>5. list = <<>> => Listed = {}
  BY <1>2 DEF Listed
<1> QED BY <1>2, <1>4, <1>5 DEF Listed

LEMMA DataFinite ==
  ASSUME MemoryType
  PROVE  IsFiniteSet(DataBlocks) /\ Cardinality(DataBlocks) \in Nat
<1>1. DataBlocks \subseteq Blocks /\ IsFiniteSet(Blocks)
  BY CurrentAssumption DEF DataBlocks
<1> QED BY <1>1, FS_Subset, FS_CardinalityType

LEMMA NewKeeps ==
  ASSUME MemoryType, MemoryInv, NEW b \in Blocks, New(b)
  PROVE  MemoryType' /\ MemoryInv'
<1>1. /\ ~exited /\ ~exited' /\ heap[b] = "free" /\ used < MaxUsed /\ hurt' = hurt
      /\ heap' = [heap EXCEPT ![b] = "data"] /\ used' = used + 1
      /\ deleted' = deleted \ {b} /\ status' = status /\ exited' = exited
  BY DEF New
<1>2. list' = IF list = <<>> THEN <<Entry(b, 1)>> ELSE <<list[1], Entry(b, 0)>>
  BY DEF New
<1>3. Entry(b, 1) \in Entries /\ Entry(b, 0) \in Entries /\ Entry(b, 1).block = b
      /\ Entry(b, 0).block = b
  BY DEF Entry, Entries
<1>4. CASE list = <<>>
  <2>1. list' = <<Entry(b, 1)>>
    BY <1>2, <1>4
  <2>2. list' \in Seq(Entries) /\ Len(list') = 1 /\ Listed' = {b}
    BY <1>3, <2>1 DEF Listed
  <2>3. DataBlocks = {}
    BY <1>1, <1>4, ListedFacts DEF MemoryInv, DataBlocks
  <2>4. DataBlocks' = {b}
    BY <1>1, <2>3 DEF DataBlocks, MemoryType
  <2>5. Cardinality(DataBlocks') = 1
    BY <2>4, FS_Singleton
  <2>6. MemoryType'
    BY <1>1, <2>2, CurrentAssumption DEF MemoryType
  <2>7. used' >= Cardinality(DataBlocks')
    BY <1>1, <2>5 DEF MemoryType
  <2>8. \A x \in Blocks : heap'[x] = "data" => x = b
    BY <2>4 DEF DataBlocks
  <2> QED BY <1>1, <2>2, <2>6, <2>7, <2>8 DEF MemoryInv, MemoryType
<1>5. CASE list # <<>>
  <2>1. list' = <<list[1], Entry(b, 0)>> /\ list[1] \in Entries /\ list[1].block \in Listed
    BY <1>2, <1>5, ListedFacts
  <2>2. list' \in Seq(Entries) /\ Len(list') = 2 /\ Listed' = {list[1].block, b}
    <3>1. list' \in Seq(Entries) /\ Len(list') = 2 /\ list'[1] = list[1] /\ list'[2] = Entry(b, 0)
          /\ DOMAIN list' = {1, 2}
      BY <1>3, <2>1
    <3> QED BY <1>3, <3>1 DEF Listed
  <2>3. DataBlocks' = DataBlocks \cup {b} /\ b \notin DataBlocks
    BY <1>1 DEF DataBlocks, MemoryType
  <2>4. Cardinality(DataBlocks') = Cardinality(DataBlocks) + 1
    BY <2>3, DataFinite, FS_AddElement
  <2>5. used' >= Cardinality(DataBlocks')
    BY <1>1, <2>4, DataFinite DEF MemoryType, MemoryInv
  <2>6. MemoryType'
    BY <1>1, <2>2, CurrentAssumption DEF MemoryType
  <2>7. heap'[b] = "data" /\ \A x \in Blocks : x # b => heap'[x] = heap[x]
    BY <1>1 DEF MemoryType
  <2>8. list[1].block \in Blocks
    BY <2>1 DEF Entries
  <2>9. \A x \in Listed' : heap'[x] = "data" \/ x \in deleted'
    BY <1>1, <2>1, <2>2, <2>7, <2>8 DEF MemoryInv
  <2> QED BY <1>1, <2>2, <2>5, <2>6, <2>9 DEF MemoryInv
<1> QED BY <1>4, <1>5

LEMMA DeleteKeeps ==
  ASSUME MemoryType, MemoryInv, NEW b \in Blocks, Delete(b)
  PROVE  MemoryType' /\ MemoryInv'
<1>1. /\ ~exited /\ heap[b] = "data" /\ UNCHANGED <<status, list, exited, hurt>>
  BY DEF Delete
<1>2. Listed' = Listed
  BY <1>1 DEF Listed
<1>3. CASE b \in Listed
  <2>1. PICK i \in DOMAIN list : /\ used' = used - list[i].size
                                 /\ heap' = [heap EXCEPT ![b] = "free"]
                                 /\ deleted' = deleted \cup {b}
    <3> DEFINE IsFirst(i) == list[i].block = b /\ \A j \in 1..(i - 1) : list[j].block # b
               First == CHOOSE i \in DOMAIN list : IsFirst(i)
    <3>1. \E i \in DOMAIN list : IsFirst(i)
      <4>1. PICK k \in 1..Len(list) : list[k].block = b
        BY <1>3, ListedFacts DEF Listed
      <4>2. Len(list) \in Nat /\ Len(list) =< 2 /\ DOMAIN list = 1..Len(list)
        BY ListedFacts DEF MemoryType
      <4>3. CASE list[1].block = b
        BY <4>1, <4>2, <4>3
      <4>4. CASE list[1].block # b
        <5>1. k = 2
          BY <4>1, <4>2, <4>4
        <5> QED BY <4>1, <4>2, <4>4, <5>1
      <4> QED BY <4>3, <4>4
    <3>2. First \in DOMAIN list
      BY <3>1
    <3> QED BY <1>3, <3>2 DEF Delete
  <2>2. list[i] \in Entries
    BY ListedFacts DEF MemoryType
  <2>3. list[i].size \in {0, 1}
    BY <2>2 DEF Entries
  <2>4. DataBlocks' = DataBlocks \ {b} /\ b \in DataBlocks
    BY <1>1, <2>1 DEF DataBlocks, MemoryType
  <2>5. Cardinality(DataBlocks') = Cardinality(DataBlocks) - 1
    BY <2>4, DataFinite, FS_RemoveElement
  <2>6. DataBlocks # {} /\ Cardinality(DataBlocks) \in Nat \ {0}
    BY <2>4, DataFinite, FS_EmptySet
  <2>7. used' \in 0..MaxUsed /\ used' >= Cardinality(DataBlocks')
    BY <1>1, <2>1, <2>3, <2>5, <2>6, CurrentAssumption DEF MemoryType, MemoryInv
  <2>8. MemoryType'
    BY <1>1, <2>1, <2>7 DEF MemoryType
  <2>9. heap'[b] = "free" /\ \A x \in Blocks : x # b => heap'[x] = heap[x]
    BY <2>1 DEF MemoryType
  <2> QED BY <1>1, <1>2, <2>1, <2>7, <2>8, <2>9, ListedFacts DEF MemoryInv
<1>4. CASE b \notin Listed
  <2>1. UNCHANGED <<used, heap, deleted>>
    BY <1>4 DEF Delete
  <2> QED BY <1>1, <1>2, <2>1 DEF MemoryType, MemoryInv, DataBlocks
<1> QED BY <1>3, <1>4

LEMMA OtherKeeps ==
  ASSUME MemoryType, MemoryInv, NEW b \in Blocks, OtherTakes(b) \/ OtherGives(b)
  PROVE  MemoryType' /\ MemoryInv'
<1>1. /\ heap[b] # "data" /\ UNCHANGED <<status, list, used, exited, deleted, hurt>>
      /\ \E h \in {"other", "free"} : heap' = [heap EXCEPT ![b] = h]
  BY DEF OtherTakes, OtherGives
<1>2. Listed' = Listed
  BY <1>1 DEF Listed
<1>3. DataBlocks' = DataBlocks
  BY <1>1 DEF DataBlocks, MemoryType
<1>4. MemoryType'
  BY <1>1 DEF MemoryType
<1>5. \A x \in Blocks : heap'[x] = "data" <=> heap[x] = "data"
  BY <1>1 DEF MemoryType
<1> QED BY <1>1, <1>2, <1>3, <1>4, <1>5, ListedFacts DEF MemoryInv

LEMMA ExitKeeps ==
  ASSUME MemoryType, MemoryInv, Exit
  PROVE  MemoryType' /\ MemoryInv'
<1>1. /\ ~exited /\ exited' /\ exited' = TRUE /\ status' = "finished"
      /\ heap' = [b \in Blocks |-> IF b \in Listed THEN "free" ELSE heap[b]]
      /\ hurt' = hurt \cup {b \in Listed : heap[b] = "other"}
      /\ UNCHANGED <<list, used, deleted>>
  BY DEF Exit
<1>2. Listed' = Listed
  BY <1>1 DEF Listed
<1>3. hurt' \subseteq deleted'
  BY <1>1 DEF MemoryInv
<1>4. MemoryType'
  BY <1>1, ListedFacts DEF MemoryType, Status
<1> QED BY <1>1, <1>2, <1>3, <1>4 DEF MemoryInv

LEMMA MemoryInductive ==
  ASSUME MemoryType, MemoryInv, [Next]_vars
  PROVE  MemoryType' /\ MemoryInv'
<1>1. ASSUME UNCHANGED memory, status' \in Status PROVE MemoryType' /\ MemoryInv'
  BY <1>1 DEF memory, MemoryType, MemoryInv, Listed, DataBlocks
<1>2. ASSUME UNCHANGED <<status, memory>> PROVE MemoryType' /\ MemoryInv'
  BY <1>1, <1>2 DEF MemoryType
<1>3. ASSUME NEW wakeup \in BOOLEAN, Wake(wakeup) PROVE MemoryType' /\ MemoryInv'
  BY <1>1, <1>3 DEF Wake, Status
<1>4. ASSUME KillProcess PROVE MemoryType' /\ MemoryInv'
  BY <1>1, <1>4 DEF KillProcess, Status
<1>5. ASSUME Semaphores \/ Interrupts \/ UNCHANGED vars PROVE MemoryType' /\ MemoryInv'
  BY <1>2, <1>5 DEF Semaphores, Lock, LockOrWaitBegin, LockOrWaitEnd, Looks, LockStore, Unlock, Interrupts,
     Interrupt, vars
<1>6. ASSUME \/ CheckRunning \/ Spin \/ SetFlag \/ RunScheduler \/ ClearFlag \/ Call \/ Iret
      PROVE  MemoryType' /\ MemoryInv'
  BY <1>2, <1>6 DEF CheckRunning, Spin, SetFlag, RunScheduler, ClearFlag, Call, Iret
<1> QED BY <1>3, <1>4, <1>5, <1>6, NewKeeps, DeleteKeeps, OtherKeeps, ExitKeeps
        DEF Next, Memory, Crash, Handlers
(* A fault handler is on the stack, and Exit out of reach, from the look   *)
(* at the status to the mark.                                              *)
EndedInv ==
  /\ exited => status = "finished"
  /\ \A i \in 1..Len(stack) : stack[i].pc = "kill" => ~exited

LEMMA EndedInductive ==
  ASSUME EndedInv, MemoryType, InterruptInv, [Next]_vars
  PROVE  EndedInv'
<1>1. stack \in Seq(Frames) /\ Len(stack) \in Nat
  BY DEF InterruptInv
<1>2. ASSUME UNCHANGED <<stack, exited, status>> PROVE EndedInv'
  BY <1>2 DEF EndedInv
<1>3. ASSUME Alone, UNCHANGED stack, exited' => status' = "finished" PROVE EndedInv'
  <2>1. \A i \in 1..Len(stack') : FALSE
    BY <1>3 DEF Alone
  <2> QED BY <1>3, <2>1 DEF EndedInv
<1>4. ASSUME Memory PROVE EndedInv'
  <2>1. Alone /\ UNCHANGED stack
    BY <1>4 DEF Memory, Exit, Crash, Wake, New, Delete, OtherTakes, OtherGives, interrupts
  <2>2. \/ exited' = TRUE /\ status' = "finished"
        \/ ~exited /\ exited' = exited
        \/ exited' = exited /\ status' = status
    BY <1>4 DEF Memory, Exit, Crash, Wake, New, Delete, OtherTakes, OtherGives, memory
  <2> QED BY <1>3, <2>1, <2>2 DEF EndedInv
<1>5. ASSUME Semaphores \/ UNCHANGED vars PROVE EndedInv'
  BY <1>2, <1>5 DEF Semaphores, Lock, LockOrWaitBegin, LockOrWaitEnd, Looks, LockStore, Unlock, vars,
     interrupts, memory
<1>6. ASSUME NEW v \in Vectors, Interrupt(v) PROVE EndedInv'
  <2>1. stack' = <<Frame(v)>> \o stack /\ UNCHANGED <<exited, status>>
    BY <1>6 DEF Interrupt, memory
  <2>2. Frame(v) \in Frames /\ Frame(v).pc # "kill"
    BY DEF Frame, Frames, Places
  <2>3. /\ Len(stack') = Len(stack) + 1
        /\ stack'[1] = Frame(v)
        /\ \A i \in 1..Len(stack) : stack'[i + 1] = stack[i]
    BY <1>1, <2>1, <2>2
  <2>4. ASSUME NEW i \in 1..Len(stack'), stack'[i].pc = "kill" PROVE ~exited
    <3>1. i # 1
      BY <2>2, <2>3, <2>4
    <3>2. i - 1 \in 1..Len(stack) /\ stack'[i] = stack[i - 1]
      BY <1>1, <2>3, <3>1
    <3> QED BY <2>4, <3>2 DEF EndedInv
  <2> QED BY <2>1, <2>4 DEF EndedInv
<1>7. ASSUME NEW place \in Places, stack # <<>>, Goto(place), UNCHANGED exited,
             exited' => status' = "finished", place = "kill" => ~exited
      PROVE  EndedInv'
  <2>1. /\ Len(stack') = Len(stack) /\ stack'[1].pc = place
        /\ \A i \in 1..Len(stack) : i # 1 => stack'[i] = stack[i]
    BY <1>1, <1>7, Moved
  <2>2. \A i \in 1..Len(stack') : stack'[i].pc = "kill" => ~exited
    BY <1>7, <2>1 DEF EndedInv
  <2> QED BY <1>7, <2>2 DEF EndedInv
<1>8. ASSUME CheckRunning PROVE EndedInv'
  <2>1. UNCHANGED <<exited, status>> /\ stack # <<>>
    BY <1>8 DEF CheckRunning, At, memory
  <2>2. CASE status = "running"
    BY <1>7, <1>8, <2>1, <2>2 DEF CheckRunning, EndedInv, Places
  <2>3. CASE status # "running"
    BY <1>7, <1>8, <2>1, <2>3 DEF CheckRunning, EndedInv, Places
  <2> QED BY <2>2, <2>3
<1>9. ASSUME KillProcess PROVE EndedInv'
  <2>1. /\ stack # <<>> /\ stack[1].pc = "kill" /\ Goto("iret") /\ UNCHANGED exited
        /\ 1 \in 1..Len(stack)
    BY <1>1, <1>9 DEF KillProcess, At, Top, memory
  <2>2. ~exited
    BY <2>1 DEF EndedInv
  <2> QED BY <1>7, <2>1, <2>2 DEF Places
<1>10. ASSUME Spin \/ SetFlag \/ RunScheduler \/ ClearFlag \/ Call PROVE EndedInv'
  <2>1. stack # <<>> /\ UNCHANGED <<exited, status>>
    BY <1>10 DEF Spin, SetFlag, RunScheduler, ClearFlag, Call, At, memory
  <2>2. CASE UNCHANGED stack
    BY <1>2, <2>1, <2>2
  <2>3. ASSUME NEW place \in Places \ {"kill"}, Goto(place) PROVE EndedInv'
    BY <1>7, <2>1, <2>3 DEF EndedInv
  <2> QED BY <1>10, <2>2, <2>3 DEF Spin, SetFlag, RunScheduler, ClearFlag, Call, Places
<1>11. ASSUME Iret, stack' = Tail(stack) PROVE EndedInv'
  <2>1. stack # <<>> /\ stack' = Tail(stack) /\ UNCHANGED <<exited, status>>
    BY <1>11 DEF Iret, At, memory
  <2>2. \A i \in 1..Len(stack') : stack'[i] = stack[i + 1] /\ i + 1 \in 1..Len(stack)
    BY <1>1, <2>1
  <2> QED BY <2>1, <2>2 DEF EndedInv
<1>12. ASSUME Iret, Goto("astray") PROVE EndedInv'
  <2>1. stack # <<>> /\ UNCHANGED <<exited, status>>
    BY <1>12 DEF Iret, At, memory
  <2> QED BY <1>7, <1>12, <2>1 DEF EndedInv, Places
<1>13. ASSUME Interrupts PROVE EndedInv'
  BY <1>6, <1>13 DEF Interrupts
<1>14. Iret => Goto("astray") \/ stack' = Tail(stack)
  BY DEF Iret
<1> QED BY <1>4, <1>5, <1>8, <1>9, <1>10, <1>11, <1>12, <1>13, <1>14 DEF Next, Handlers

-----------------------------------------------------------------------------
(* The bounds on handlers.                                                 *)
BoundInv == Len(stack) =< Depth /\ budget \in 0..Faults

LEMMA BoundInductive ==
  ASSUME BoundInv, InterruptInv, [Next]_vars
  PROVE  BoundInv'
<1>1. stack \in Seq(Frames) /\ Len(stack) \in Nat
  BY DEF InterruptInv
<1>2. ASSUME UNCHANGED <<stack, budget>> PROVE BoundInv'
  BY <1>2 DEF BoundInv
<1>3. ASSUME Memory \/ Semaphores \/ UNCHANGED vars PROVE BoundInv'
  BY <1>2, <1>3 DEF Memory, Exit, Crash, Wake, New, Delete, OtherTakes, OtherGives,
     Semaphores, Lock, LockOrWaitBegin, LockOrWaitEnd, Looks, LockStore, Unlock, vars, interrupts
<1>4. ASSUME NEW v \in Vectors, Interrupt(v) PROVE BoundInv'
  <2>1. /\ stack' = <<Frame(v)>> \o stack /\ budget' = budget - 1
        /\ Len(stack) < Depth /\ budget > 0
    BY <1>4 DEF Interrupt, Comes
  <2>2. Frame(v) \in Frames
    BY DEF Frame, Frames, Places
  <2>3. Len(stack') = Len(stack) + 1
    BY <1>1, <2>1, <2>2
  <2> QED BY <1>1, <2>1, <2>3, CurrentAssumption DEF BoundInv
<1>5. ASSUME NEW place \in Places, stack # <<>>, Goto(place), UNCHANGED budget PROVE BoundInv'
  BY <1>1, <1>5, Moved DEF BoundInv
<1>6. ASSUME Handlers PROVE BoundInv'
  <2>1. CASE Iret /\ stack' = Tail(stack)
    <3>1. stack # <<>> /\ stack' = Tail(stack) /\ budget' = budget
      BY <2>1 DEF Iret, At
    <3>2. Len(stack') = Len(stack) - 1
      BY <1>1, <3>1
    <3> QED BY <1>1, <3>1, <3>2, CurrentAssumption DEF BoundInv
  <2>2. CASE ~(Iret /\ stack' = Tail(stack))
    <3>1. stack # <<>> /\ UNCHANGED budget
      BY <1>6, <2>2 DEF Handlers, CheckRunning, KillProcess, Spin, SetFlag, RunScheduler,
         ClearFlag, Call, Iret, At
    <3>2. UNCHANGED stack \/ \E place \in Places : Goto(place)
      BY <1>6, <2>2 DEF Handlers, CheckRunning, KillProcess, Spin, SetFlag, RunScheduler,
         ClearFlag, Call, Iret, Places
    <3> QED BY <1>2, <1>5, <3>1, <3>2
  <2> QED BY <2>1, <2>2
<1>7. ASSUME Interrupts PROVE BoundInv'
  BY <1>4, <1>7, CurrentAssumption DEF Interrupts
<1> QED BY <1>3, <1>6, <1>7 DEF Next

-----------------------------------------------------------------------------
IInv == /\ MemoryType /\ MemoryInv /\ EndedInv
        /\ InterruptInv /\ BoundInv /\ SemaphoreInv

LEMMA AtStart == Init => IInv
<1> SUFFICES ASSUME Init PROVE IInv
  OBVIOUS
<1>1. stack = <<>> /\ list = <<>> /\ used = 0 /\ exited = FALSE /\ deleted = {} /\ hurt = {}
      /\ heap = [b \in Blocks |-> "free"] /\ status \in Status
      /\ flag = FALSE /\ tries = Tries /\ budget = Faults
  BY DEF Init
<1>2. /\ list \in Seq(Entries) /\ Len(list) = 0 /\ DOMAIN list = {}
      /\ stack \in Seq(Frames) /\ Len(stack) = 0
  BY <1>1
<1>3. Listed = {} /\ DataBlocks = {}
  BY <1>1, <1>2 DEF Listed, DataBlocks
<1>4. Cardinality(DataBlocks) = 0
  BY <1>3, FS_EmptySet
<1>5. MemoryType
  <2>1. used \in 0..MaxUsed /\ Len(list) =< 2
    BY <1>1, <1>2, CurrentAssumption
  <2>2. heap \in [Blocks -> {"free", "data", "other"}] /\ exited \in BOOLEAN
    BY <1>1
  <2> QED BY <1>1, <1>2, <2>1, <2>2 DEF MemoryType
<1>6. MemoryInv
  BY <1>1, <1>3, <1>4 DEF MemoryInv
<1>7. \A i \in 1..Len(stack) : FALSE
  BY <1>2
<1>8. EndedInv
  BY <1>1, <1>7 DEF EndedInv
<1>9. InterruptInv
  BY <1>1, <1>2, <1>7 DEF InterruptInv
<1>10. BoundInv
  BY <1>1, <1>2, CurrentAssumption DEF BoundInv
<1>11. SemaphoreInv
  BY DEF Init, SemaphoreInv, OneHolder
<1> QED BY <1>5, <1>6, <1>8, <1>9, <1>10, <1>11 DEF IInv

LEMMA Inductive == IInv /\ [Next]_vars => IInv'
BY MemoryInductive, EndedInductive, InterruptInductive, BoundInductive, SemaphoreInductive,
   CurrentAssumption DEF IInv

LEMMA Implied == IInv => ProcessKept
<1> SUFFICES ASSUME IInv PROVE ProcessKept
  OBVIOUS
<1>1. TypeOK
  BY CurrentAssumption
     DEF IInv, MemoryType, InterruptInv, BoundInv, SemaphoreInv, TypeOK
<1>2. {b \in Blocks : heap[b] = "data"} = DataBlocks
  BY DEF DataBlocks
<1>3. status = "killed" => ~exited
  BY DEF IInv, EndedInv
<1>4. BlocksAccounted
  BY <1>2, <1>3, ListedFacts DEF IInv, MemoryInv, BlocksAccounted
<1>5. SemaphoreExcludes
  BY AtMostOne DEF IInv, SemaphoreInv, SemaphoreExcludes
<1>6. TickAlone
  BY OneTick DEF IInv
<1> QED BY <1>1, <1>4, <1>5, <1>6 DEF ProcessKept

(* Of a process's blocks, whatever its program, its faults and the other   *)
(* users of the heap do, none is freed under another user that the process *)
(* had not deleted, none is lost but when the list is full, and a killed   *)
(* process keeps all (UserProcessScheduler.cc:138, :208); and the          *)
(* semaphore excludes.                                                     *)
THEOREM ProcessIsKept == Spec => []ProcessKept
BY AtStart, Inductive, Implied, PTL DEF Spec

-----------------------------------------------------------------------------
(* The tables the hardware hands the kernel.                               *)

(* A set of numbers has a least one.                                       *)
LEMMA LeastOne ==
  ASSUME NEW S \in SUBSET Nat, S # {}
  PROVE  \E x \in S : \A y \in S : x =< y
<1>1. PICK x \in S : \A y \in S : ~ (<<y, x>> \in OpToRel(<, Nat))
  BY NatLessThanWellFounded, WFMin
<1>2. \A y \in S : <<y, x>> \in OpToRel(<, Nat) <=> y < x
  BY DEF OpToRel
<1>3. \A y \in S : ~ (y < x)
  BY <1>1, <1>2
<1> QED BY <1>3

LEMMA Waits == WaitsAgree
<1> SUFFICES ASSUME NEW c \in Ticks, NEW t \in Ticks
             PROVE  /\ HardwareWait(c, t) =< t
                    /\ HardwareWait(c, t) = t <=> c = 0 \/ t = 0
  BY DEF WaitsAgree
<1>1. c \in Nat /\ t \in Nat
  BY HardwareAssumption
<1> QED BY <1>1 DEF HardwareWait

(* The flags but fPresent are the toggles'.                                *)
Wrappers == [fRw : BOOLEAN, fUser : BOOLEAN, fExecDisable : BOOLEAN, fShareable : BOOLEAN,
             fPresent : BOOLEAN]

LEMMA TogglesKeep ==
  ASSUME NEW p \in Wrappers, NEW e \in BOOLEAN
  PROVE  /\ ToggleUser(p, e) \in Wrappers /\ ToggleUser(p, e).fPresent = p.fPresent
         /\ ToggleRw(p, e) \in Wrappers /\ ToggleRw(p, e).fPresent = p.fPresent
         /\ ToggleShare(p, e) \in Wrappers /\ ToggleShare(p, e).fPresent = p.fPresent
BY DEF Wrappers, ToggleUser, ToggleRw, ToggleShare

LEMMA Reclaims == ReclaimAgrees
<1> SUFFICES ASSUME NEW rw \in BOOLEAN, NEW user \in BOOLEAN, NEW nx \in BOOLEAN, NEW e \in BOOLEAN
             PROVE  LET freed == FreePage(PTEWrapper(rw, user, nx))
                        toggled == ToggleShare(ToggleRw(ToggleUser(freed, e), e), e)
                    IN  /\ Reclaim(toggled).answer
                        /\ ~Reclaim(Reclaim(toggled).page).answer
                        /\ RequestPage(user, rw) = {}
  BY DEF ReclaimAgrees
<1>1. PICK freed : freed = FreePage(PTEWrapper(rw, user, nx))
  OBVIOUS
<1>2. freed \in Wrappers /\ ~freed.fPresent
  BY <1>1 DEF FreePage, PTEWrapper, Wrappers
<1>3. PICK u : u = ToggleUser(freed, e)
  OBVIOUS
<1>4. u \in Wrappers /\ ~u.fPresent
  BY <1>2, <1>3, TogglesKeep
<1>5. PICK r : r = ToggleRw(u, e)
  OBVIOUS
<1>6. r \in Wrappers /\ ~r.fPresent
  BY <1>4, <1>5, TogglesKeep
<1>7. PICK toggled : toggled = ToggleShare(r, e)
  OBVIOUS
<1>8. toggled \in Wrappers /\ ~toggled.fPresent
  BY <1>6, <1>7, TogglesKeep
<1>9. Reclaim(toggled).answer /\ Reclaim(toggled).page.fPresent
  BY <1>8 DEF Reclaim, Wrappers
<1>10. ~Reclaim(Reclaim(toggled).page).answer
  BY <1>9 DEF Reclaim
<1>11. RequestPage(user, rw) = {}
  <2>1. PTEWrapper(user, rw, FALSE).fPresent
    BY DEF PTEWrapper
  <2> QED BY <2>1 DEF RequestPage
<1> QED BY <1>1, <1>3, <1>5, <1>7, <1>9, <1>10, <1>11

LEMMA ArmMapsNone == ArmPagesAgree
<1> SUFFICES ASSUME NEW p \in Pages, NEW q \in Pages,
                    NEW f \in (SUBSET Flags) \ {{}}, NEW g \in (SUBSET Flags) \ {{}}
             PROVE  LET one == arm_mm_map_page(NothingMapped, p, f)
                        two == arm_mm_map_page(one.s, q, g)
                    IN  one.code = 1 /\ two.code = Never
  BY DEF ArmPagesAgree
<1>1. p # 0 /\ q # 0
  BY HardwareAssumption
<1>2. NothingMapped.fStoreOp = FALSE /\ NothingMapped.fVAddr = 0 /\ f # {} /\ g # {}
  BY DEF NothingMapped
<1>3. PICK s : s = [NothingMapped EXCEPT !.fStoreOp = TRUE]
  OBVIOUS
<1>4. s.fStoreOp
  BY <1>3 DEF NothingMapped
<1>5. arm_mm_map_page(NothingMapped, p, f) = [code |-> 1, s |-> s]
  BY <1>1, <1>2, <1>3 DEF arm_mm_map_page
<1>6. arm_mm_map_page(s, q, g) = [code |-> Never, s |-> s]
  BY <1>1, <1>2, <1>4 DEF arm_mm_map_page
<1>7. arm_mm_map_page(NothingMapped, p, f).code = 1 /\ arm_mm_map_page(NothingMapped, p, f).s = s
  BY <1>5
<1>8. arm_mm_map_page(s, q, g).code = Never
  BY <1>6
<1> QED BY <1>7, <1>8

LEMMA GicIsQuiet == GicAgrees
<1>1. PICK reset : reset = [GicReset EXCEPT !.enabled = TRUE]
  OBVIOUS
<1>2. /\ reset = [enabled |-> TRUE, signals |-> {}, mask |-> 0, edge |-> {}, on |-> {},
                  target |-> [irq \in 32..35 |-> {}], priority |-> [irq \in 32..35 |-> 0]]
      /\ GicReset.enabled = FALSE
  BY <1>1 DEF GicReset
<1>3. PICK gic : gic = mp_setup_gic_el0(reset)
  OBVIOUS
<1>4. gic = [enabled |-> TRUE, signals |-> {"group0", "group1"}, mask |-> 255, edge |-> {32},
             on |-> {32}, target |-> [irq \in 32..35 |-> IF irq = 32 THEN {1} ELSE {}],
             priority |-> [irq \in 32..35 |-> IF irq = 32 THEN 255 ELSE 0]]
  BY <1>2, <1>3 DEF mp_setup_gic_el0
<1>5. gic.enabled /\ gic.on = {32} /\ gic.mask = 255 /\ gic.priority[32] = 255
  BY <1>4
<1>6. mp_initialize_gic(GicReset) = [answer |-> TRUE, gic |-> gic]
  BY <1>1, <1>2, <1>3 DEF mp_initialize_gic
<1>7. mp_initialize_gic(gic) = [answer |-> FALSE, gic |-> gic]
  BY <1>5 DEF mp_initialize_gic
<1>8. \A p \in 0..1 : Signalled(gic, p) = {}
  BY <1>5 DEF Signalled
<1>9. \A id \in {0, 32, 1019, 1020, 1023, 1024 + 32} :
        mp_handle_gic_interrupt_el0(id) <=> id % 1024 \notin 1020..1023
  BY DEF mp_handle_gic_interrupt_el0
<1>10. /\ mp_initialize_gic(GicReset).answer /\ mp_initialize_gic(GicReset).gic = gic
       /\ ~mp_initialize_gic(gic).answer /\ mp_initialize_gic(gic).gic = gic
  BY <1>6, <1>7
<1> QED BY <1>5, <1>8, <1>9, <1>10 DEF GicAgrees

(* The block of a process of a team is the one of its number.              *)
LEMMA OwnIndex ==
  ASSUME NEW p \in 0..(kSchedProcessLimitPerTeam - 1)
  PROVE  ProcessIndex(p) = p
BY HardwareAssumption DEF ProcessIndex

LEMMA ContextsApart == ContextsAgree
<1> SUFFICES ASSUME NEW p \in 0..(kSchedProcessLimitPerTeam - 1),
                    NEW q \in 0..(kSchedProcessLimitPerTeam - 1)
             PROVE  LET none == [i \in 0..(kSchedProcessLimitPerTeam - 1) |-> None]
                        first == mp_register_process(none, <<1>>, p, p).blocks
                        both == mp_register_process(first, <<1>>, q, q).blocks
                    IN  /\ p # q => /\ mp_get_current_context(both, p) = p
                                    /\ mp_get_current_context(both, q) = q
                        /\ both = arm_mp_register_process(arm_mp_register_process(none, p, p), q, q)
  BY DEF ContextsAgree
<1>1. ProcessIndex(p) = p /\ ProcessIndex(q) = q
  BY OwnIndex
<1> QED BY <1>1 DEF mp_register_process, mp_get_current_context, arm_mp_register_process

(* What one mapping answers and leaves.                                    *)
Store(made) == [pte : [0..(PtEntries - 1) -> SUBSET (Flags \union {"present"})], made : {made},
                fVAddr : Nat, fPte : Nat \union {None}, fStoreOp : BOOLEAN]

Mapped(s, page, flags, r) ==
  /\ PteOf(page) \in s.made =>
       /\ r.code = 0 /\ r.s.fVAddr = page /\ r.s.fPte = PteOf(page) /\ r.s.fStoreOp = FALSE
       /\ r.s.pte = [s.pte EXCEPT ![PteOf(page)] = {"present"} \union flags]
  /\ PteOf(page) \notin s.made =>
       /\ r.code = 1 /\ r.s.fVAddr = s.fVAddr /\ r.s.fPte = s.fPte /\ r.s.pte = s.pte

LEMMA PteInTable ==
  ASSUME NEW page \in Nat
  PROVE  PteOf(page) \in 0..(PtEntries - 1)
BY HardwareAssumption DEF PteOf

LEMMA EntryMapped ==
  ASSUME NEW made, NEW s \in Store(made), NEW page \in Nat, NEW flags \in SUBSET Flags,
         NEW op \in BOOLEAN, NEW r,
         r = mmi_map_page_table_entry([s EXCEPT !.fStoreOp = op], page, flags, PteOf(page))
  PROVE  Mapped(s, page, flags, r) /\ r.s \in Store(made)
<1>1. PICK e \in 0..(PtEntries - 1) : e = PteOf(page)
  BY PteInTable
<1>2. flags \intersect Flags = flags
  OBVIOUS
<1>3. PICK t : t = [s EXCEPT !.fStoreOp = op]
  OBVIOUS
<1>4. /\ t \in Store(made) /\ t.pte = s.pte /\ t.made = s.made /\ t.fVAddr = s.fVAddr
      /\ t.fPte = s.fPte
  BY <1>3 DEF Store
<1>5. CASE e \notin s.made
  <2>1. r = [code |-> 1, s |-> t]
    BY <1>1, <1>3, <1>4, <1>5 DEF mmi_map_page_table_entry
  <2> QED BY <1>1, <1>4, <1>5, <2>1 DEF Mapped
<1>6. CASE e \in s.made
  <2>1. PICK u : u = [t EXCEPT !.pte[e] = {"present"} \union flags,
                              !.fVAddr = page, !.fPte = e, !.fStoreOp = FALSE]
    OBVIOUS
  <2>2. r = [code |-> 0, s |-> u]
    BY <1>1, <1>2, <1>3, <1>4, <1>6, <2>1 DEF mmi_map_page_table_entry
  <2>3. /\ u.fVAddr = page /\ u.fPte = e /\ u.fStoreOp = FALSE
        /\ u.pte = [s.pte EXCEPT ![e] = {"present"} \union flags]
    BY <1>4, <2>1 DEF Store
  <2>4. {"present"} \union flags \in SUBSET (Flags \union {"present"})
    OBVIOUS
  <2>5. u.pte \in [0..(PtEntries - 1) -> SUBSET (Flags \union {"present"})]
    BY <2>3, <2>4 DEF Store
  <2>6. u \in Store(made)
    <3>1. u = [pte |-> u.pte, made |-> t.made, fVAddr |-> page, fPte |-> e, fStoreOp |-> FALSE]
      BY <1>4, <2>1 DEF Store
    <3>2. t.made = made /\ e \in Nat
      BY <1>4, HardwareAssumption DEF Store
    <3>3. [pte |-> u.pte, made |-> t.made, fVAddr |-> page, fPte |-> e, fStoreOp |-> FALSE]
            \in Store(made)
      BY <2>5, <3>2 DEF Store
    <3> QED BY <3>1, <3>3
  <2> QED BY <1>1, <1>6, <2>2, <2>3, <2>6 DEF Mapped
<1> QED BY <1>5, <1>6

LEMMA PageMapped ==
  ASSUME NEW made, NEW s \in Store(made), NEW page \in Pages,
         NEW flags \in (SUBSET Flags) \ {{}}, s.fVAddr = page => s.fPte = PteOf(page)
  PROVE  /\ Mapped(s, page, flags, mm_map_page(s, page, flags))
         /\ mm_map_page(s, page, flags).s \in Store(made)
<1>1. page \in Nat /\ page # 0 /\ flags # {} /\ flags \in SUBSET Flags
  BY HardwareAssumption
<1>2. PICK op \in BOOLEAN : mm_map_page(s, page, flags) =
        mmi_map_page_table_entry([s EXCEPT !.fStoreOp = op], page, flags, PteOf(page))
  BY <1>1 DEF mm_map_page
<1> QED BY <1>1, <1>2, EntryMapped

LEMMA PagesStand == PagesAgree
<1> SUFFICES ASSUME NEW made \in SUBSET (0..(PtEntries - 1)), NEW p \in Pages, NEW q \in Pages,
                    NEW f \in (SUBSET Flags) \ {{}}, NEW g \in (SUBSET Flags) \ {{}}
             PROVE  LET one == mm_map_page(Unmapped(made), p, f)
                        two == mm_map_page(one.s, q, g)
                    IN  /\ one.code = 0 => /\ one.s.pte[PteOf(p)] = {"present"} \union f
                                           /\ ~one.s.fStoreOp
                        /\ one.code = 0 /\ one.s.pte[PteOf(p)] # two.s.pte[PteOf(p)] =>
                             PteOf(q) = PteOf(p)
                        /\ two.s.fStoreOp => PteOf(q) \notin made
                        /\ two.code = 0 <=> PteOf(q) \in made
  BY DEF PagesAgree
<1>1. p \in Nat \ {0} /\ q \in Nat \ {0}
  BY HardwareAssumption
<1>2. PICK s \in Store(made) : s = Unmapped(made) /\ s.fVAddr = 0 /\ s.made = made
  <2>1. [i \in 0..(PtEntries - 1) |-> {}] \in
          [0..(PtEntries - 1) -> SUBSET (Flags \union {"present"})]
    OBVIOUS
  <2>2. Unmapped(made) \in Store(made)
    BY <2>1 DEF Unmapped, Store
  <2>3. Unmapped(made).fVAddr = 0 /\ Unmapped(made).made = made
    BY DEF Unmapped
  <2> QED BY <2>2, <2>3
<1>3. PICK one : one = mm_map_page(s, p, f)
  OBVIOUS
<1>4. Mapped(s, p, f, one) /\ one.s \in Store(made)
  BY <1>1, <1>2, <1>3, PageMapped
<1>5. one.s.made = made
  BY <1>4 DEF Store
<1>6. one.s.fVAddr = q => one.s.fPte = PteOf(q)
  BY <1>1, <1>2, <1>4 DEF Mapped
<1>7. PICK two : two = mm_map_page(one.s, q, g)
  OBVIOUS
<1>8. Mapped(one.s, q, g, two)
  BY <1>4, <1>6, <1>7, PageMapped
<1>9. one.code = 0 => /\ one.s.pte[PteOf(p)] = {"present"} \union f
                      /\ ~one.s.fStoreOp
  <2>1. PteOf(p) \in DOMAIN s.pte
    BY <1>1, PteInTable DEF Store
  <2> QED BY <1>4, <2>1 DEF Mapped
<1>10. PteOf(q) # PteOf(p) => one.s.pte[PteOf(p)] = two.s.pte[PteOf(p)]
  <2>1. PteOf(p) \in DOMAIN one.s.pte
    BY <1>1, <1>4, PteInTable DEF Store
  <2> QED BY <1>8, <2>1 DEF Mapped
<1>11. two.s.fStoreOp => PteOf(q) \notin made
  BY <1>5, <1>8 DEF Mapped
<1>12. two.code = 0 <=> PteOf(q) \in made
  BY <1>5, <1>8 DEF Mapped
<1> QED BY <1>2, <1>3, <1>7, <1>9, <1>10, <1>11, <1>12

(* The first table of a name.                                              *)
LEMMA FirstFound ==
  ASSUME NEW t \in Tables, NEW sig \in Signatures
  PROVE  LET at == Find(2, t, sig) IN
           /\ at = None <=> ~\E i \in 1..Len(t) : t[i] = sig
           /\ at # None => t[at] = sig /\ \A i \in 1..(at - 1) : t[i] # sig
<1> DEFINE hits == {i \in 1..Len(t) : t[i] = sig}
<1>1. t \in Seq(Signatures) /\ Len(t) \in Nat /\ sig # <<>>
  BY HardwareAssumption
<1>2. CASE hits = {}
  <2>1. Find(2, t, sig) = None
    BY <1>2 DEF Find
  <2> QED BY <1>2, <2>1
<1>3. CASE hits # {}
  <2>1. hits \in SUBSET Nat
    BY <1>1
  <2>2. \E i \in hits : \A j \in hits : i =< j
    <3> HIDE DEF hits
    <3> QED BY <1>3, <2>1, LeastOne
  <2>3. PICK at : at = CHOOSE i \in hits : \A j \in hits : i =< j
    OBVIOUS
  <2>4. at \in hits /\ \A j \in hits : at =< j
    <3> HIDE DEF hits
    <3> QED BY <2>2, <2>3
  <2>5. Len(t) >= 1
    BY <1>1, <2>4
  <2>6. Find(2, t, sig) = at
    BY <1>1, <1>3, <2>3, <2>5 DEF Find
  <2>7. \A i \in 1..(at - 1) : t[i] # sig
    BY <1>1, <2>4
  <2> QED BY <2>4, <2>6, <2>7, <1>1 DEF None
<1> QED BY <1>2, <1>3

(* Loops.  A value is stepped n times: the list of all its values exists.  *)
Iterates(c, init, step, n) ==
  c = [i \in 0..n |-> IF i = 0 THEN init ELSE step[i][c[i - 1]]]

IteratesTo(S, init, step, n) == \E c \in [0..n -> S] : Iterates(c, init, step, n)

LEMMA IterationsExist ==
  ASSUME NEW S, NEW init \in S, NEW len \in Nat, NEW step \in [1..len -> [S -> S]]
  PROVE  IteratesTo(S, init, step, len)
<1> DEFINE Bad == {n \in 0..len : ~IteratesTo(S, init, step, n)}
<1>1. SUFFICES ASSUME Bad # {} PROVE FALSE
  OBVIOUS
<1>2. PICK n \in Bad : \A k \in Bad : n =< k
  <2>1. Bad \in SUBSET Nat
    OBVIOUS
  <2> HIDE DEF Bad
  <2> QED BY <1>1, <2>1, LeastOne
<1>3. CASE n = 0
  <2>1. [i \in 0..0 |-> init] \in [0..0 -> S]
    OBVIOUS
  <2>2. Iterates([i \in 0..0 |-> init], init, step, 0)
    BY DEF Iterates
  <2> QED BY <1>2, <1>3, <2>1, <2>2 DEF IteratesTo
<1>4. CASE n # 0
  <2>1. n - 1 \in 0..len /\ n - 1 \notin Bad /\ n \in 1..len
    BY <1>2, <1>4
  <2>2. PICK c \in [0..(n - 1) -> S] : Iterates(c, init, step, n - 1)
    BY <2>1 DEF IteratesTo
  <2>3. PICK last \in S : last = step[n][c[n - 1]]
    <3>1. c[n - 1] \in S
      BY <2>1, <2>2
    <3> QED BY <2>1, <3>1
  <2> DEFINE d == [i \in 0..n |-> IF i = n THEN last ELSE c[i]]
  <2>4. d \in [0..n -> S]
    BY <2>1, <2>2, <2>3
  <2>5. \A i \in 0..n : d[i] = IF i = 0 THEN init ELSE step[i][d[i - 1]]
    <3> TAKE i \in 0..n
    <3>1. CASE i = n
      <4>1. d[n] = last /\ d[n - 1] = c[n - 1]
        BY <1>4, <2>1
      <4> HIDE DEF d
      <4> QED BY <1>4, <2>3, <3>1, <4>1
    <3>2. CASE i # n
      <4>1. i \in 0..(n - 1) /\ (i # 0 => i - 1 \in 0..(n - 1))
        BY <2>1, <3>2
      <4>2. c[i] = IF i = 0 THEN init ELSE step[i][c[i - 1]]
        BY <2>2, <4>1 DEF Iterates
      <4>3. d[i] = c[i] /\ (i # 0 => d[i - 1] = c[i - 1])
        BY <2>1, <3>2, <4>1
      <4> HIDE DEF d
      <4> QED BY <4>2, <4>3
    <3> QED BY <3>1, <3>2
  <2>6. Iterates(d, init, step, n)
    <3>1. d = [i \in 0..n |-> d[i]]
      OBVIOUS
    <3> HIDE DEF d
    <3> QED BY <2>5, <3>1 DEF Iterates
  <2> HIDE DEF d
  <2> QED BY <1>2, <2>4, <2>6 DEF IteratesTo
<1> QED BY <1>3, <1>4

Added(x, a) == (x + a) % 256

(* A checksum is the last of the sums of the bytes so far.                 *)
Summed(c, bytes) ==
  c = [i \in 0..Len(bytes) |-> IF i = 0 THEN 0 ELSE Added(c[i - 1], bytes[i])]

Sums(c, bytes) ==
  /\ c[0] = 0
  /\ \A i \in 1..Len(bytes) : c[i] = Added(c[i - 1], bytes[i])
  /\ Checksum(bytes) <=> c[Len(bytes)] = 0

(* Sums of bytes; a byte added is told from another.                       *)
LEMMA ByteSum ==
  ASSUME NEW x \in 0..255, NEW a \in 0..255
  PROVE  /\ Added(x, a) = IF x + a < 256 THEN x + a ELSE x + a - 256
         /\ Added(x, a) \in 0..255
<1>1. PICK s \in 0..510 : s = x + a
  OBVIOUS
<1>2. s < 256 => s % 256 = s
  OBVIOUS
<1>3. s >= 256 => s % 256 = s - 256
  OBVIOUS
<1> QED BY <1>1, <1>2, <1>3 DEF Added

LEMMA BytesDiffer ==
  ASSUME NEW x \in 0..255, NEW y \in 0..255, NEW a \in 0..255, x # y
  PROVE  Added(x, a) # Added(y, a) /\ Added(a, x) # Added(a, y)
<1>1. Added(x, a) = x + a \/ Added(x, a) = x + a - 256
  BY ByteSum
<1>2. Added(y, a) = y + a \/ Added(y, a) = y + a - 256
  BY ByteSum
<1>3. Added(x, a) \in 0..255 /\ Added(y, a) \in 0..255
  BY ByteSum
<1>4. Added(x, a) # Added(y, a)
  BY <1>1, <1>2, <1>3
<1>5. Added(a, x) = Added(x, a) /\ Added(a, y) = Added(y, a)
  <2>1. a + x = x + a /\ a + y = y + a
    OBVIOUS
  <2> QED BY <2>1 DEF Added
<1> QED BY <1>4, <1>5

LEMMA ByteAt ==
  ASSUME NEW S, NEW bytes \in Seq(S), NEW i \in 1..Len(bytes)
  PROVE  bytes[i] \in S
OBVIOUS

LEMMA SumsExist ==
  ASSUME NEW bytes \in Seq(0..255)
  PROVE  \E c : Sums(c, bytes)
<1>1. PICK len \in Nat : len = Len(bytes)
  OBVIOUS
<1> DEFINE step == [i \in 1..len |-> [x \in 0..255 |-> Added(x, bytes[i])]]
           c == CHOOSE g : Summed(g, bytes)
<1>2. \A i \in 1..len : bytes[i] \in 0..255
  BY <1>1
<1>3. \A i \in 1..len : \A x \in 0..255 : Added(x, bytes[i]) \in 0..255
  BY <1>2, ByteSum
<1>4. step \in [1..len -> [0..255 -> 0..255]]
  BY <1>3
<1>5. \E g : Summed(g, bytes)
  <2>1. PICK g \in [0..len -> 0..255] : Iterates(g, 0, step, len)
    <3>1. IteratesTo(0..255, 0, step, len)
      <4>1. 0 \in 0..255
        OBVIOUS
      <4> HIDE DEF step
      <4> QED BY <1>4, <4>1, IterationsExist
    <3> QED BY <3>1 DEF IteratesTo
  <2>2. \A i \in 0..len : g[i] = IF i = 0 THEN 0 ELSE Added(g[i - 1], bytes[i])
    <3> TAKE i \in 0..len
    <3>1. g[i] = IF i = 0 THEN 0 ELSE step[i][g[i - 1]]
      <4> HIDE DEF step
      <4> QED BY <2>1 DEF Iterates
    <3>2. CASE i = 0
      BY <3>1, <3>2
    <3>3. CASE i # 0
      <4>1. i \in 1..len /\ g[i - 1] \in 0..255
        BY <2>1, <3>3
      <4>2. step[i][g[i - 1]] = Added(g[i - 1], bytes[i])
        BY <4>1
      <4> QED BY <3>1, <3>3, <4>2
    <3> QED BY <3>2, <3>3
  <2>3. g = [i \in 0..len |-> g[i]]
    BY <2>1
  <2> HIDE DEF step, c
  <2>4. g = [i \in 0..len |-> IF i = 0 THEN 0 ELSE Added(g[i - 1], bytes[i])]
    BY <2>2, <2>3
  <2>5. Summed(g, bytes)
    BY <1>1, <2>4 DEF Summed
  <2> QED BY <2>5
<1>6. Summed(c, bytes)
  BY <1>5
<1>7. Checksum(bytes) <=> c[Len(bytes)] = 0
  BY DEF Checksum, Summed, Added
<1> HIDE DEF c
<1>8. c[0] = 0 /\ \A i \in 1..Len(bytes) : c[i] = Added(c[i - 1], bytes[i])
  BY <1>1, <1>6 DEF Summed
<1> QED BY <1>7, <1>8 DEF Sums

LEMMA OneByteShows ==
  ASSUME NEW a \in Seq(0..255), NEW b \in Seq(0..255), Checksum(a), Checksum(b), Len(a) = Len(b),
         NEW k \in 1..Len(a), a[k] # b[k], \A i \in 1..Len(a) : i # k => a[i] = b[i]
  PROVE  FALSE
<1>1. PICK len \in Nat : len = Len(a) /\ len = Len(b)
  OBVIOUS
<1>2. \A i \in 1..len : a[i] \in 0..255 /\ b[i] \in 0..255
  BY <1>1, ByteAt
<1>3. PICK c : Sums(c, a)
  BY SumsExist
<1>4. PICK d : Sums(d, b)
  BY SumsExist
<1> DEFINE Told(i) == /\ c[i] \in 0..255 /\ d[i] \in 0..255
                      /\ i < k => c[i] = d[i]
                      /\ i >= k => c[i] # d[i]
           Bad == {i \in 0..len : ~Told(i)}
<1>5. ASSUME Bad # {} PROVE FALSE
  <2>1. PICK n \in Bad : \A j \in Bad : n =< j
    <3>1. Bad \in SUBSET Nat
      OBVIOUS
    <3> HIDE DEF Bad
    <3> QED BY <1>5, <3>1, LeastOne
  <2>2. n # 0
    <3>1. Told(0)
      BY <1>1, <1>3, <1>4 DEF Sums
    <3> QED BY <2>1, <3>1
  <2>3. n \in 1..len /\ n - 1 \in 0..len /\ n - 1 \notin Bad
    BY <2>1, <2>2
  <2>4. Told(n - 1)
    BY <2>3
  <2>5. PICK x \in 0..255, y \in 0..255 : x = c[n - 1] /\ y = d[n - 1]
    BY <2>4
  <2>6. PICK p \in 0..255, q \in 0..255 : p = a[n] /\ q = b[n]
    BY <1>2, <2>3
  <2>7. c[n] = Added(x, p) /\ d[n] = Added(y, q)
    BY <1>1, <1>3, <1>4, <2>3, <2>5, <2>6 DEF Sums
  <2>8. Added(x, p) \in 0..255 /\ Added(y, q) \in 0..255
    BY ByteSum
  <2>9. CASE n < k
    <3>1. x = y /\ p = q
      BY <1>1, <2>3, <2>4, <2>5, <2>6, <2>9
    <3>2. Told(n)
      BY <2>7, <2>8, <2>9, <3>1
    <3> QED BY <2>1, <3>2
  <2>10. CASE n = k
    <3>1. x = y /\ p # q
      BY <1>1, <2>3, <2>4, <2>5, <2>6, <2>10
    <3>2. Added(x, p) # Added(x, q)
      <4>1. p # q
        BY <3>1
      <4> HIDE DEF Told, Bad
      <4> QED BY <4>1, BytesDiffer
    <3>3. Told(n)
      BY <2>7, <2>8, <2>10, <3>1, <3>2
    <3> QED BY <2>1, <3>3
  <2>11. CASE n > k
    <3>1. x # y /\ p = q
      BY <1>1, <2>3, <2>4, <2>5, <2>6, <2>11
    <3>2. Added(x, p) # Added(y, p)
      <4>1. x # y
        BY <3>1
      <4> HIDE DEF Told, Bad
      <4> QED BY <4>1, BytesDiffer
    <3>3. Told(n)
      BY <2>7, <2>8, <2>11, <3>1, <3>2
    <3> QED BY <2>1, <3>3
  <2> QED BY <2>3, <2>9, <2>10, <2>11
<1>6. Told(len)
  <2>1. len \in 0..len /\ len \notin Bad
    <3>1. len \in 0..len
      BY <1>1
    <3> HIDE DEF Bad
    <3> QED BY <1>5, <3>1
  <2> QED BY <2>1
<1>7. c[len] = 0 /\ d[len] = 0
  BY <1>1, <1>3, <1>4 DEF Sums
<1> QED BY <1>1, <1>6, <1>7

LEMMA TablesStand == TablesAgree
<1>1. ASSUME NEW a \in Texts, NEW b \in Texts, Checksum(a), Checksum(b), Len(a) = Len(b)
      PROVE  Cardinality({i \in 1..Len(a) : a[i] # b[i]}) # 1
  <2> DEFINE D == {i \in 1..Len(a) : a[i] # b[i]}
  <2>1. a \in Seq(0..255) /\ b \in Seq(0..255)
    BY HardwareAssumption
  <2>2. IsFiniteSet(D)
    <3>1. Len(a) \in Nat
      BY <2>1
    <3>2. IsFiniteSet(1..Len(a))
      BY <3>1, FS_Interval
    <3> QED BY <3>2, FS_Subset
  <2>3. ASSUME Cardinality(D) = 1 PROVE FALSE
    <3>1. PICK k : D = {k}
      <4> HIDE DEF D
      <4> QED BY <2>2, <2>3, FS_Singleton
    <3>2. k \in 1..Len(a) /\ a[k] # b[k] /\ \A i \in 1..Len(a) : i # k => a[i] = b[i]
      BY <3>1
    <3> QED BY <1>1, <2>1, <3>2, OneByteShows
  <2> QED BY <2>3
<1> QED BY <1>1, FirstFound DEF TablesAgree

(* The loop over the slots for processors, in the memory of a table.       *)
Start == [started |-> <<>>, index |-> 0, over |-> FALSE]

Walked(c, madt, end) == c = [i \in 0..end |-> IF i = 0 THEN Start ELSE Turn(madt, c[i - 1])]

Walks(c, madt, end) ==
  /\ mp_get_cores(madt) = c[end]
  /\ c[0] = Start /\ \A i \in 1..end : c[i] = Turn(madt, c[i - 1])

LEMMA TurnKeeps ==
  ASSUME NEW madt, NEW ids, NEW w \in [started : Seq(ids), index : Nat, over : BOOLEAN],
         \A n \in Nat : ProcessorID(madt, n) \in ids
  PROVE  Turn(madt, w) \in [started : Seq(ids), index : Nat, over : BOOLEAN]
<1>1. PICK s \in Seq(ids) : s = w.started
  OBVIOUS
<1>2. PICK id \in ids : id = ProcessorID(madt, Len(s))
  OBVIOUS
<1>3. Append(s, id) \in Seq(ids)
  OBVIOUS
<1>4. PICK more \in BOOLEAN : more <=> /\ Type(madt, w.index) = 0
                                      /\ ~(ProcessorID(madt, Len(s)) < 1)
  OBVIOUS
<1>5. \/ Turn(madt, w) = w
      \/ Turn(madt, w) = [w EXCEPT !.over = TRUE]
      \/ Turn(madt, w) = [w EXCEPT !.index = @ + 1,
                                  !.started = IF more THEN Append(s, id) ELSE s]
  BY <1>1, <1>2, <1>4 DEF Turn
<1>6. CASE Turn(madt, w) = [w EXCEPT !.index = @ + 1,
                                    !.started = IF more THEN Append(s, id) ELSE s]
  <2>1. PICK t \in Seq(ids) : t = IF more THEN Append(s, id) ELSE s
    BY <1>3
  <2>2. Turn(madt, w) = [w EXCEPT !.index = @ + 1, !.started = t]
    BY <1>6, <2>1
  <2>3. w.index + 1 \in Nat
    OBVIOUS
  <2> QED BY <2>1, <2>2, <2>3
<1> QED BY <1>5, <1>6

LEMMA WalkExists ==
  ASSUME NEW madt \in Madts, NEW end \in Nat, end = Len(madt) + 1
  PROVE  \E c : Walks(c, madt, end)
<1> DEFINE ids == {ProcessorID(madt, k) : k \in Nat}
           W == [started : Seq(ids), index : Nat, over : BOOLEAN]
           step == [i \in 1..end |-> [w \in W |-> Turn(madt, w)]]
           c == CHOOSE g : Walked(g, madt, end)
<1>1. \A w \in W : Turn(madt, w) \in W
  <2> TAKE w \in W
  <2>1. \A n \in Nat : ProcessorID(madt, n) \in ids
    OBVIOUS
  <2> HIDE DEF ids
  <2> QED BY <2>1, TurnKeeps
<1>2. step \in [1..end -> [W -> W]]
  <2> HIDE DEF W
  <2> QED BY <1>1
<1>3. Start \in W
  <2> HIDE DEF ids
  <2> QED BY DEF Start
<1>4. \E g : Walked(g, madt, end)
  <2>1. PICK g \in [0..end -> W] : Iterates(g, Start, step, end)
    <3>1. IteratesTo(W, Start, step, end)
      <4> HIDE DEF step, W
      <4> QED BY <1>2, <1>3, IterationsExist
    <3> QED BY <3>1 DEF IteratesTo
  <2>2. \A i \in 0..end : g[i] = IF i = 0 THEN Start ELSE Turn(madt, g[i - 1])
    <3> TAKE i \in 0..end
    <3>1. g[i] = IF i = 0 THEN Start ELSE step[i][g[i - 1]]
      <4> HIDE DEF step, W
      <4> QED BY <2>1 DEF Iterates
    <3>2. CASE i = 0
      BY <3>1, <3>2
    <3>3. CASE i # 0
      <4> HIDE DEF W
      <4>1. i \in 1..end /\ g[i - 1] \in W
        BY <2>1, <3>3
      <4>2. step[i][g[i - 1]] = Turn(madt, g[i - 1])
        BY <4>1
      <4> QED BY <3>1, <3>3, <4>2
    <3> QED BY <3>2, <3>3
  <2>3. g = [i \in 0..end |-> g[i]]
    <3> HIDE DEF W
    <3> QED BY <2>1
  <2> HIDE DEF step, c, W
  <2>4. g = [i \in 0..end |-> IF i = 0 THEN Start ELSE Turn(madt, g[i - 1])]
    BY <2>2, <2>3
  <2> QED BY <2>4 DEF Walked
<1>5. Walked(c, madt, end)
  BY <1>4
<1>6. mp_get_cores(madt) = c[end]
  BY DEF mp_get_cores, Walked, Start
<1> HIDE DEF c
<1>7. c[0] = Start /\ \A i \in 1..end : c[i] = Turn(madt, c[i - 1])
  BY <1>5 DEF Walked
<1> QED BY <1>6, <1>7 DEF Walks

Locals(madt, i) == {j \in 0..(i - 1) : Type(madt, j) = 0}

LEMMA LocalsCounted ==
  ASSUME NEW madt, NEW i \in Nat \ {0}
  PROVE  /\ Cardinality(Locals(madt, i - 1)) \in Nat
         /\ Cardinality(Locals(madt, i)) =
              Cardinality(Locals(madt, i - 1)) + IF Type(madt, i - 1) = 0 THEN 1 ELSE 0
         /\ Cardinality(Locals(madt, 0)) = 0
         /\ Cardinality(Locals(madt, i)) \in Nat
<1>1. IsFiniteSet(Locals(madt, i - 1))
  <2>1. i - 2 \in Int
    OBVIOUS
  <2>2. IsFiniteSet(0..(i - 2))
    BY <2>1, FS_Interval
  <2>3. Locals(madt, i - 1) \subseteq 0..(i - 2)
    BY DEF Locals
  <2> QED BY <2>2, <2>3, FS_Subset
<1>2. Cardinality(Locals(madt, i - 1)) \in Nat
  BY <1>1, FS_CardinalityType
<1>3. Locals(madt, i) = IF Type(madt, i - 1) = 0 THEN Locals(madt, i - 1) \union {i - 1}
                        ELSE Locals(madt, i - 1)
  BY DEF Locals
<1>4. i - 1 \notin Locals(madt, i - 1)
  BY DEF Locals
<1>5. Cardinality(Locals(madt, i - 1) \union {i - 1}) = Cardinality(Locals(madt, i - 1)) + 1
  BY <1>1, <1>4, FS_AddElement
<1>6. Cardinality(Locals(madt, i)) =
        Cardinality(Locals(madt, i - 1)) + IF Type(madt, i - 1) = 0 THEN 1 ELSE 0
  BY <1>2, <1>3, <1>5
<1>7. Cardinality(Locals(madt, 0)) = 0
  <2>1. Locals(madt, 0) = {}
    BY DEF Locals
  <2> QED BY <2>1, FS_EmptySet
<1> QED BY <1>2, <1>6, <1>7

\* The processors started are those of the first slots, and it is known why
\* the loop has ended.
StartedWell(madt, w) ==
  /\ w \in [started : Seq(0..255), index : Nat, over : BOOLEAN]
  /\ Len(w.started) =< w.index
  /\ \A k \in 1..Len(w.started) : /\ w.started[k] = ProcessorID(madt, k - 1)
                                  /\ w.started[k] # 0
  /\ \A k \in 0..(w.index - 1) : Inside(madt, k) /\ Type(madt, k) =< 9
  /\ Inside(madt, 0) /\ ProcessorID(madt, 0) = 0 => Len(w.started) = 0
  /\ Len(w.started) =< Cardinality(Locals(madt, w.index))
  /\ Len(w.started) =< kSchedProcessLimitPerTeam + 1
  /\ w.over => Type(madt, w.index) > 9 \/ Len(w.started) > kSchedProcessLimitPerTeam

\* After i turns the loop is at slot i, unless it has ended.
Reached(madt, w, i) == w.over \/ ~Inside(madt, w.index) \/ w.index = i

LEMMA EachElement ==
  ASSUME NEW S, NEW s \in Seq(S), NEW p \in 1..Len(s)
  PROVE  s[p] \in S
OBVIOUS

LEMMA InsideBelow ==
  ASSUME NEW madt \in Seq(0..255), NEW i \in Nat, NEW n \in 0..i, Inside(madt, i)
  PROVE  /\ Inside(madt, n) /\ Type(madt, n) \in 0..255 /\ ProcessorID(madt, n) \in 0..255
<1>1. PICK a \in Nat : a = n * Stride
  BY HardwareAssumption
<1>2. PICK b \in Nat : b = i * Stride
  BY HardwareAssumption
<1>3. a =< b
  <2>1. PICK d \in Nat : i = n + d
    <3>1. i - n \in Nat /\ i = n + (i - n)
      OBVIOUS
    <3> QED BY <3>1
  <2>2. d * Stride \in Nat /\ b = a + d * Stride
    BY <1>1, <1>2, <2>1, HardwareAssumption
  <2> QED BY <2>2
<1>4. ListAt + b + IdAt < Len(madt) /\ ListAt \in Nat /\ IdAt \in Nat
  BY <1>2, HardwareAssumption DEF Inside
<1>5. ListAt + a + IdAt < Len(madt)
  BY <1>3, <1>4
<1>6. ListAt + a + 1 \in 1..Len(madt) /\ ListAt + a + IdAt + 1 \in 1..Len(madt)
  BY <1>4, <1>5
<1>7. madt[ListAt + a + 1] \in 0..255 /\ madt[ListAt + a + IdAt + 1] \in 0..255
  BY <1>6, EachElement
<1> QED BY <1>1, <1>5, <1>7 DEF Inside, Type, ProcessorID

LEMMA OneMore ==
  ASSUME NEW madt \in Seq(0..255), NEW w, StartedWell(madt, w),
         ~w.over, Inside(madt, w.index), Type(madt, w.index) =< 9,
         ~(Len(w.started) > kSchedProcessLimitPerTeam)
  PROVE  StartedWell(madt, Turn(madt, w)) /\ Turn(madt, w).index = w.index + 1
<1>1. PICK i \in Nat : i = w.index
  BY DEF StartedWell
<1>2. PICK s \in Seq(0..255) : s = w.started
  BY DEF StartedWell
<1>3. PICK n \in Nat : n = Len(s) /\ n =< i
  BY <1>1, <1>2 DEF StartedWell
<1>4. PICK x : x = Cardinality(Locals(madt, i))
  OBVIOUS
<1>5. PICK y : y = Cardinality(Locals(madt, i + 1))
  OBVIOUS
<1>6. x \in Nat /\ y = x + IF Type(madt, i) = 0 THEN 1 ELSE 0
  <2>1. i + 1 \in Nat \ {0} /\ (i + 1) - 1 = i
    OBVIOUS
  <2> QED BY <1>4, <1>5, <2>1, LocalsCounted
<1>7. n =< x /\ n =< kSchedProcessLimitPerTeam /\ Inside(madt, i)
  BY <1>1, <1>2, <1>3, <1>4, HardwareAssumption DEF StartedWell
<1>8. PICK id \in 0..255 : id = ProcessorID(madt, n)
  <2>1. n \in 0..i
    BY <1>3
  <2> QED BY <1>7, <2>1, InsideBelow
<1>9. PICK more \in BOOLEAN : more <=> Type(madt, i) = 0 /\ ~(id < 1)
  OBVIOUS
<1>10. PICK t : t = IF more THEN Append(s, id) ELSE s
  OBVIOUS
<1>11. Turn(madt, w) = [w EXCEPT !.index = i + 1, !.started = t]
  <2>1. ~(Type(madt, i) > 9)
    <3>1. i \in 0..i
      OBVIOUS
    <3>2. PICK ty \in 0..255 : ty = Type(madt, i)
      BY <1>7, <3>1, InsideBelow
    <3>3. ty =< 9
      BY <1>1, <3>2
    <3>4. ~(ty > 9)
      BY <3>3
    <3> QED BY <3>2, <3>4
  <2>2. Turn(madt, w) = [w EXCEPT !.index = @ + 1, !.started = IF more THEN Append(@, id) ELSE @]
    BY <1>1, <1>2, <1>3, <1>8, <1>9, <2>1 DEF Turn
  <2> QED BY <1>1, <1>2, <1>10, <2>2 DEF StartedWell
<1>12. PICK v : v = Turn(madt, w)
  OBVIOUS
<1>13. v = [started |-> t, index |-> i + 1, over |-> FALSE]
  BY <1>11, <1>12 DEF StartedWell
<1>14. \A k \in 1..n : s[k] = ProcessorID(madt, k - 1) /\ s[k] # 0
  BY <1>2, <1>3 DEF StartedWell
<1>15. /\ t \in Seq(0..255) /\ Len(t) =< i + 1 /\ Len(t) =< y
       /\ Len(t) =< kSchedProcessLimitPerTeam + 1
       /\ \A k \in 1..Len(t) : t[k] = ProcessorID(madt, k - 1) /\ t[k] # 0
       /\ Inside(madt, 0) /\ ProcessorID(madt, 0) = 0 => Len(t) = 0
  <2>1. CASE more
    <3>1. t \in Seq(0..255) /\ Len(t) = n + 1 /\ t[n + 1] = id /\ \A k \in 1..n : t[k] = s[k]
      BY <1>2, <1>3, <1>10, <2>1
    <3>2. id # 0 /\ y = x + 1
      BY <1>6, <1>9, <2>1
    <3>3. \A k \in 1..Len(t) : t[k] = ProcessorID(madt, k - 1) /\ t[k] # 0
      <4> TAKE k \in 1..Len(t)
      <4>1. CASE k = n + 1
        <5>1. k - 1 = n
          BY <4>1
        <5> QED BY <1>8, <3>1, <3>2, <4>1, <5>1
      <4>2. CASE k # n + 1
        <5>1. k \in 1..n
          BY <3>1, <4>2
        <5> QED BY <1>14, <3>1, <5>1
      <4> QED BY <4>1, <4>2
    <3>4. ProcessorID(madt, 0) # 0
      <4>1. 1 \in 1..Len(t) /\ 1 - 1 = 0
        BY <3>1
      <4> QED BY <3>3, <4>1
    <3>5. n + 1 =< i + 1 /\ n + 1 =< y /\ n + 1 =< kSchedProcessLimitPerTeam + 1
      BY <1>3, <1>6, <1>7, <3>2, HardwareAssumption
    <3> QED BY <3>1, <3>3, <3>4, <3>5
  <2>2. CASE ~more
    <3>1. t = s
      BY <1>10, <2>2
    <3>2. Inside(madt, 0) /\ ProcessorID(madt, 0) = 0 => Len(t) = 0
      BY <1>2, <3>1 DEF StartedWell
    <3>3. n =< i + 1 /\ n =< y /\ n =< kSchedProcessLimitPerTeam + 1
      BY <1>3, <1>6, <1>7, HardwareAssumption
    <3> QED BY <1>2, <1>3, <1>14, <3>1, <3>2, <3>3
  <2> QED BY <2>1, <2>2
<1>16. \A k \in 0..i : Inside(madt, k) /\ Type(madt, k) =< 9
  <2> TAKE k \in 0..i
  <2>1. CASE k = i
    BY <1>1, <1>7, <2>1
  <2>2. CASE k # i
    <3>1. k \in 0..(i - 1)
      BY <2>2
    <3> QED BY <1>1, <3>1 DEF StartedWell
  <2> QED BY <2>1, <2>2
<1>17. (i + 1) - 1 = i /\ i + 1 \in Nat
  OBVIOUS
<1>18. StartedWell(madt, v)
  BY <1>5, <1>13, <1>15, <1>16, <1>17 DEF StartedWell
<1> QED BY <1>1, <1>12, <1>13, <1>18

LEMMA EachTurn ==
  ASSUME NEW madt \in Seq(0..255), NEW w, StartedWell(madt, w), NEW i \in Nat, Reached(madt, w, i)
  PROVE  StartedWell(madt, Turn(madt, w)) /\ Reached(madt, Turn(madt, w), i + 1)
<1>1. CASE w.over \/ ~Inside(madt, w.index)
  <2>1. Turn(madt, w) = w
    BY <1>1 DEF Turn
  <2> QED BY <1>1, <2>1 DEF Reached
<1>2. CASE /\ ~w.over /\ Inside(madt, w.index)
           /\ Type(madt, w.index) > 9 \/ Len(w.started) > kSchedProcessLimitPerTeam
  <2>1. Turn(madt, w) = [w EXCEPT !.over = TRUE]
    BY <1>2 DEF Turn
  <2>2. PICK v : v = Turn(madt, w)
    OBVIOUS
  <2>3. /\ v \in [started : Seq(0..255), index : Nat, over : BOOLEAN]
        /\ v.started = w.started /\ v.index = w.index /\ v.over
    BY <2>1, <2>2 DEF StartedWell
  <2>4. StartedWell(madt, v)
    BY <1>2, <2>3 DEF StartedWell
  <2> QED BY <2>2, <2>3, <2>4 DEF Reached
<1>3. CASE /\ ~w.over /\ Inside(madt, w.index)
           /\ ~(Type(madt, w.index) > 9 \/ Len(w.started) > kSchedProcessLimitPerTeam)
  <2>1. w.index \in Nat
    BY DEF StartedWell
  <2>2. PICK ty \in 0..255 : ty = Type(madt, w.index)
    <3>1. w.index \in 0..w.index
      BY <2>1
    <3> QED BY <1>3, <2>1, <3>1, InsideBelow
  <2>3. Type(madt, w.index) =< 9
    <3>1. ~(ty > 9)
      BY <1>3, <2>2
    <3>2. ty =< 9
      BY <3>1
    <3> QED BY <2>2, <3>2
  <2>4. StartedWell(madt, Turn(madt, w)) /\ Turn(madt, w).index = w.index + 1
    BY <1>3, <2>3, OneMore
  <2> QED BY <1>3, <2>4 DEF Reached
<1> QED BY <1>1, <1>2, <1>3

LEMMA WalkEndsWell ==
  ASSUME NEW madt \in Madts
  PROVE  StartedWell(madt, mp_get_cores(madt)) /\ Reached(madt, mp_get_cores(madt), Len(madt) + 1)
<1>1. madt \in Seq(0..255)
  BY HardwareAssumption
<1>2. PICK end \in Nat : end = Len(madt) + 1
  BY <1>1
<1>3. PICK c : Walks(c, madt, end)
  BY <1>2, WalkExists
<1> DEFINE Bad == {i \in 0..end : ~(StartedWell(madt, c[i]) /\ Reached(madt, c[i], i))}
<1>4. ASSUME Bad # {} PROVE FALSE
  <2>1. PICK n \in Bad : \A k \in Bad : n =< k
    <3>1. Bad \in SUBSET Nat
      OBVIOUS
    <3> HIDE DEF Bad
    <3> QED BY <1>4, <3>1, LeastOne
  <2>2. CASE n = 0
    <3>1. c[0] = Start /\ Cardinality(Locals(madt, 0)) = 0
      <4>1. 1 \in Nat \ {0}
        OBVIOUS
      <4> QED BY <1>3, <4>1, LocalsCounted DEF Walks
    <3>2. StartedWell(madt, Start) /\ Reached(madt, Start, 0)
      BY <3>1, HardwareAssumption DEF StartedWell, Start, Reached
    <3> QED BY <2>1, <2>2, <3>1, <3>2
  <2>3. CASE n # 0
    <3>1. n \in 1..end /\ n - 1 \in 0..end /\ n - 1 \notin Bad /\ n - 1 \in Nat /\ (n - 1) + 1 = n
      BY <2>1, <2>3
    <3>2. StartedWell(madt, c[n - 1]) /\ Reached(madt, c[n - 1], n - 1)
      BY <3>1
    <3>3. c[n] = Turn(madt, c[n - 1])
      BY <1>3, <3>1 DEF Walks
    <3>4. PICK w : w = c[n - 1]
      OBVIOUS
    <3>5. PICK i \in Nat : i = n - 1 /\ i + 1 = n
      BY <3>1
    <3>6. StartedWell(madt, Turn(madt, w)) /\ Reached(madt, Turn(madt, w), i + 1)
      BY <1>1, <3>2, <3>4, <3>5, EachTurn
    <3> QED BY <2>1, <3>3, <3>4, <3>5, <3>6
  <2> QED BY <2>2, <2>3
<1>5. end \in 0..end /\ end \notin Bad
  <2>1. end \in 0..end
    BY <1>2
  <2> HIDE DEF Bad
  <2> QED BY <1>4, <2>1
<1>6. StartedWell(madt, c[end]) /\ Reached(madt, c[end], end)
  BY <1>5
<1> QED BY <1>2, <1>3, <1>6 DEF Walks

LEMMA CoresStand == CoresAgree
<1> SUFFICES ASSUME NEW madt \in Madts
             PROVE
    LET w == mp_get_cores(madt)
        n == Len(w.started)
    IN  /\ \A k \in 1..n : w.started[k] = ProcessorID(madt, k - 1) /\ w.started[k] # 0
        /\ Inside(madt, 0) /\ ProcessorID(madt, 0) = 0 => n = 0
        /\ n =< Cardinality({i \in 0..(w.index - 1) : Type(madt, i) = 0})
        /\ n =< kSchedProcessLimitPerTeam + 1
        /\ w.over => Type(madt, w.index) > 9 \/ n > kSchedProcessLimitPerTeam
        /\ ~w.over => /\ \A i \in 0..(w.index - 1) : Type(madt, i) =< 9
                      /\ ~Inside(madt, w.index)
  BY DEF CoresAgree
<1>1. PICK w : w = mp_get_cores(madt)
  OBVIOUS
<1>2. StartedWell(madt, w) /\ Reached(madt, w, Len(madt) + 1)
  BY <1>1, WalkEndsWell
<1>3. ~w.over => ~Inside(madt, w.index)
  <2>1. PICK n \in Nat : n = Len(madt) + 1
    BY HardwareAssumption
  <2>2. ASSUME w.index = n PROVE ~Inside(madt, w.index)
    <3>1. PICK a \in Nat : a = n * Stride
      BY HardwareAssumption
    <3>2. a >= n
      <4>1. PICK d \in Nat : Stride = 1 + d
        <5>1. Stride - 1 \in Nat /\ Stride = 1 + (Stride - 1)
          BY HardwareAssumption
        <5> QED BY <5>1
      <4>2. n * d \in Nat /\ n * (1 + d) = n + n * d
        OBVIOUS
      <4> QED BY <3>1, <4>1, <4>2
    <3> QED BY <2>1, <2>2, <3>1, <3>2, HardwareAssumption DEF Inside
  <2> QED BY <1>2, <2>1, <2>2 DEF Reached
<1> QED BY <1>1, <1>2, <1>3 DEF StartedWell, Locals

LEMMA HardwareStands == HardwareAgrees
BY TablesStand, CoresStand, ContextsApart, PagesStand, Reclaims, Waits, ArmMapsNone, GicIsQuiet
   DEF HardwareAgrees

(* The kernel reads the tables it is given as what they say, the           *)
(* processors' as if their records were of one size: for every list of     *)
(* tables and of bytes, whatever the records' lengths and the slots'       *)
(* size, any size of the page tables and any pages                         *)
(* (ACPIFactoryInterface.cc:15,                                            *)
(* HalApplicationProcessor.cc:192, HalPagingMgrAMD64.cc:67).               *)
THEOREM TablesAreRead == Spec => []TablesRead
<1>1. TablesRead
  BY HardwareStands DEF TablesRead
<1> QED BY <1>1, PTL
=============================================================================
