------------------------------ MODULE Current ------------------------------
(***************************************************************************)
(* The current process as its own calls, the interrupt handlers and a      *)
(* semaphore see it: the blocks it allocated (UserProcess::New, Delete,    *)
(* Exit), its status, which faults change (HalInterruptAPI.asm,            *)
(* HalCoreInterruptHandlerAMD64.cc, HalDescriptorLoader.cc), and the copy  *)
(* of it a semaphore keeps (Semaphore.cc).  Only the boot processor loads  *)
(* the interrupt table; what it is interrupted in is a stack of handlers,  *)
(* the one that runs on top.                                               *)
(***************************************************************************)
EXTENDS Integers, Sequences, FiniteSets

CONSTANTS
  Blocks,     \* the heap's blocks
  MaxUsed,    \* a program's allocations as UsedMemory counts them: bounds used
  Callers,    \* who uses the semaphore
  Vectors,    \* the interrupts that come
  Depth,      \* how many handlers may be on the stack: bounds nesting
  Faults,     \* how many interrupts come in all: bounds their number
  Tries       \* try_count_before_brute's value: 100000

ASSUME CurrentAssumption ==
  /\ IsFiniteSet(Blocks) /\ MaxUsed \in Nat
  /\ Vectors \subseteq 0..255 /\ Depth \in Nat /\ Faults \in Nat
  /\ Tries \in Nat \ {0}

VARIABLES
  status,     \* Status
  heap,       \* per block: "free", "data" (this process's) or "other"
  list,       \* ProcessMemoryHeap: the entries' blocks and sizes, at most two
  used,       \* UsedMemory, a block counting one
  exited,     \* has Exit run?
  deleted,    \* the blocks Delete has freed since they were last handed out
  hurt,       \* blocks of others that were freed
  stack,      \* the handlers that have been entered
  flag,       \* kIsScheduling
  tries,      \* try_count_before_brute
  budget,     \* interrupts still to come
  sem,        \* does the copy in the semaphore say it is running?
  pc,         \* per caller: where it is in a call of the semaphore
  told,       \* per caller: was it told it has the semaphore?
  seen,       \* per caller: was the semaphore taken when it looked?
  silent,     \* was the copy stored by the first half of LockOrWait?
  torn        \* has something come between a look that passed and its store?

memory == <<heap, list, used, exited, deleted, hurt>>
interrupts == <<stack, flag, tries, budget>>
semaphore == <<sem, pc, told, seen, silent, torn>>
vars == <<status, memory, interrupts, semaphore>>

Status == {"invalid", "starting", "running", "killed", "frozen", "finished"}

TypeOK ==
  /\ status \in Status
  /\ heap \in [Blocks -> {"free", "data", "other"}]
  /\ Len(list) =< 2 /\ used \in 0..MaxUsed
  /\ deleted \subseteq Blocks /\ hurt \subseteq Blocks
  /\ Len(stack) =< Depth /\ flag \in BOOLEAN /\ tries \in 0..Tries
  /\ budget \in 0..Faults
  /\ sem \in BOOLEAN /\ told \in [Callers -> BOOLEAN]
  /\ pc \in [Callers -> {"idle", "lock", "first", "waiting"}]

Init ==
  /\ status \in Status
  /\ heap = [b \in Blocks |-> "free"] /\ list = <<>> /\ used = 0
  /\ exited = FALSE /\ deleted = {} /\ hurt = {}
  /\ stack = <<>> /\ flag = FALSE /\ tries = Tries /\ budget = Faults
  /\ sem = FALSE /\ pc = [c \in Callers |-> "idle"] /\ told = [c \in Callers |-> FALSE]
  /\ seen = [c \in Callers |-> FALSE] /\ silent = FALSE /\ torn = FALSE

-----------------------------------------------------------------------------
(* The process's memory.                                                   *)

\* Nothing but a handler runs while one is on the stack.
Alone == stack = <<>>

Entry(b, size) == [block |-> b, size |-> size]

\* The list's second entry is always a new one put behind the first: the loop
\* meant to find the list's end never runs.
New(b) ==
  /\ Alone /\ ~exited /\ heap[b] = "free" /\ used < MaxUsed
  /\ heap' = [heap EXCEPT ![b] = "data"]
  /\ list' = IF list = <<>> THEN <<Entry(b, 1)>> ELSE <<list[1], Entry(b, 0)>>
  /\ used' = used + 1
  /\ deleted' = deleted \ {b}
  /\ UNCHANGED <<status, exited, hurt, interrupts, semaphore>>

Listed == {list[i].block : i \in DOMAIN list}

\* The first entry with the pointer gives the size; freeing changes neither the
\* entry nor its pointer.  A program deletes what it was given and still has.
Delete(b) ==
  /\ Alone /\ ~exited /\ heap[b] = "data"
  /\ IF b \in Listed
     THEN LET i == CHOOSE i \in DOMAIN list :
                     list[i].block = b /\ \A j \in 1..(i - 1) : list[j].block # b
          IN  /\ used' = used - list[i].size
              /\ heap' = [heap EXCEPT ![b] = "free"]
              /\ deleted' = deleted \union {b}
     ELSE UNCHANGED <<used, heap, deleted>>
  /\ UNCHANGED <<status, list, exited, hurt, interrupts, semaphore>>

\* Another user of the same heap takes and gives back blocks; what he does once
\* the process has exited touches nothing of it any more.
OtherTakes(b) == /\ Alone /\ ~exited /\ heap[b] = "free"
                 /\ heap' = [heap EXCEPT ![b] = "other"]
                 /\ UNCHANGED <<status, list, used, exited, deleted, hurt, interrupts, semaphore>>
OtherGives(b) == /\ Alone /\ ~exited /\ heap[b] = "other"
                 /\ heap' = [heap EXCEPT ![b] = "free"]
                 /\ UNCHANGED <<status, list, used, exited, deleted, hurt, interrupts, semaphore>>

\* Exit frees every entry's block, whoever has it by now; the list's own blocks
\* are freed too and the list left as it is.
Exit ==
  /\ Alone /\ ~exited
  /\ heap' = [b \in Blocks |-> IF b \in Listed THEN "free" ELSE heap[b]]
  /\ hurt' = hurt \union {b \in Listed : heap[b] = "other"}
  /\ exited' = TRUE
  /\ status' = "finished"
  /\ UNCHANGED <<list, used, deleted, interrupts, semaphore>>

\* Crash does nothing unless the process is running.
Crash == status = "running" /\ Exit

Wake(wakeup) ==
  /\ Alone /\ ~exited
  /\ status' = IF wakeup THEN "running" ELSE "frozen"
  /\ UNCHANGED <<memory, interrupts, semaphore>>

-----------------------------------------------------------------------------
(* Interrupts.                                                             *)

\* Mutant: trap gates, under which device interrupts come in.
GateMasks_Trap == FALSE

\* kInterruptGate: an entry of the table keeps device interrupts out while its
\* handler runs.
GateMasks == TRUE

Generic == {1, 2, 3, 4, 6, 7, 8, 10, 11, 12, 17, 30}
Fault == Generic \union {13, 14}
Tick == 32
SystemCall == {50, 51}
Exception == 0..31

\* The exceptions for which the processor pushes an error code under the handler.
ErrorCode == {8, 10, 11, 12, 13, 14, 17, 21, 29, 30}

\* An exception comes whatever runs; the timer unless a handler keeps it out; a
\* system call from a program.
Comes(v) ==
  /\ v \in Exception \/ stack = <<>> \/ (v = Tick /\ ~GateMasks)
  /\ Len(stack) < Depth /\ budget > 0

Frame(v) ==
  [v |-> v,
   pc |-> IF v \in Fault THEN "check" ELSE IF v = Tick THEN "spin"
          ELSE IF v \in SystemCall THEN "call" ELSE "iret"]

Interrupt(v) ==
  /\ Comes(v)
  /\ stack' = <<Frame(v)>> \o stack
  /\ budget' = budget - 1
  /\ UNCHANGED <<status, memory, flag, tries, semaphore>>

Top == stack[1]
At(place) == stack # <<>> /\ Top.pc = place
Goto(place) == stack' = [stack EXCEPT ![1].pc = place]

\* Mutant: a handler that waits for the process to run.
CheckRunning_Waits ==
  /\ At("check")
  /\ Goto(IF status = "running" THEN "kill" ELSE "check")
  /\ UNCHANGED <<status, memory, flag, tries, budget, semaphore>>

\* The handlers of faults look at the status first ...
CheckRunning ==
  /\ At("check")
  /\ Goto(IF status = "running" THEN "kill" ELSE "iret")
  /\ UNCHANGED <<status, memory, flag, tries, budget, semaphore>>

\* ... clear the flag, and set the status before they call Crash, which then
\* finds a process that is not running and returns.
KillProcess ==
  /\ At("kill")
  /\ flag' = FALSE
  /\ status' = "killed"
  /\ Goto("iret")
  /\ UNCHANGED <<memory, tries, budget, semaphore>>

\* The timer's handler waits for the flag, but not for ever ...
Spin ==
  /\ At("spin")
  /\ IF flag THEN tries' = tries - 1 ELSE UNCHANGED tries
  /\ IF flag /\ tries' >= 1 THEN UNCHANGED stack ELSE Goto("set")
  /\ UNCHANGED <<status, memory, flag, budget, semaphore>>

SetFlag ==
  /\ At("set")
  /\ tries' = Tries /\ flag' = TRUE /\ Goto("run")
  /\ UNCHANGED <<status, memory, budget, semaphore>>

\* ... and runs the scheduler, which ProcessTeam models.
RunScheduler ==
  /\ At("run")
  /\ Goto("clear")
  /\ UNCHANGED <<status, memory, flag, tries, budget, semaphore>>

ClearFlag ==
  /\ At("clear")
  /\ flag' = FALSE /\ Goto("iret")
  /\ UNCHANGED <<status, memory, tries, budget, semaphore>>

\* hal_system_call_enter and hal_kernel_call_enter, each with its own table: what
\* the function in it does, if there is one, is other kernel code's.
Call ==
  /\ At("call")
  /\ Goto("iret")
  /\ UNCHANGED <<status, memory, flag, tries, budget, semaphore>>

\* No handler takes an error code off again: where there is one, iretq returns to
\* the code for an address, and what was interrupted is never resumed. From there
\* the processor can only fault.
Iret ==
  /\ At("iret")
  /\ IF Top.v \in ErrorCode THEN Goto("astray") ELSE stack' = Tail(stack)
  /\ UNCHANGED <<status, memory, flag, tries, budget, semaphore>>

Handlers == CheckRunning \/ KillProcess \/ Spin \/ SetFlag \/ RunScheduler
            \/ ClearFlag \/ Call \/ Iret

-----------------------------------------------------------------------------
(* The semaphore, whose callers may be on several processors: the look at  *)
(* it and the store to it are steps of their own. What a handler changes   *)
(* for them is the status, in one step: they go on before or after it.     *)

Quiet == Alone \/ At("astray")

\* Mutant: only the process is looked at.
Locks_Running == status = "running"

Locks == status = "running" /\ ~sem

Looks(c, from, passed, failed) ==
  /\ Quiet /\ pc[c] = from /\ ~told[c]
  /\ pc' = [pc EXCEPT ![c] = IF Locks THEN passed ELSE failed]
  /\ seen' = [seen EXCEPT ![c] = Locks /\ sem]
  /\ UNCHANGED <<status, memory, interrupts, sem, told, silent, torn>>

Lock(c) == Looks(c, "idle", "lock", "idle")

\* LockOrWait locks without a look at the answer, waits, and locks again: whoever
\* got the semaphore the first time is refused the second.
LockOrWaitBegin(c) == Looks(c, "idle", "first", "waiting")
LockOrWaitEnd(c) == Looks(c, "waiting", "lock", "idle")

\* Lock copies the process, and with it the status it has by now.
LockStore(c) ==
  /\ Quiet /\ pc[c] \in {"lock", "first"}
  /\ sem' = (status = "running")
  /\ silent' = (pc[c] = "first")
  /\ torn' = (torn \/ sem # seen[c] \/ status # "running")
  /\ told' = [told EXCEPT ![c] = pc[c] = "lock"]
  /\ pc' = [pc EXCEPT ![c] = IF pc[c] = "lock" THEN "idle" ELSE "waiting"]
  /\ seen' = [seen EXCEPT ![c] = FALSE]
  /\ UNCHANGED <<status, memory, interrupts>>

\* Unlock asks only whether the semaphore is taken; those call it that were told
\* they have it. While it is taken no look passes, so its own is no step.
Unlock(c) ==
  /\ Quiet /\ pc[c] = "idle" /\ told[c]
  /\ sem' = FALSE
  /\ told' = [told EXCEPT ![c] = FALSE]
  /\ UNCHANGED <<status, memory, interrupts, pc, seen, silent, torn>>

-----------------------------------------------------------------------------

Memory == Exit \/ Crash \/ (\E wakeup \in BOOLEAN : Wake(wakeup))
          \/ \E b \in Blocks : New(b) \/ Delete(b) \/ OtherTakes(b) \/ OtherGives(b)

Interrupts == \E v \in Vectors : Interrupt(v)

Semaphores == \E c \in Callers :
                \/ Lock(c) \/ LockOrWaitBegin(c) \/ LockOrWaitEnd(c)
                \/ LockStore(c) \/ Unlock(c)

Next == Memory \/ Interrupts \/ Handlers \/ Semaphores

\* A handler that was entered goes on.
Spec == Init /\ [][Next]_vars /\ WF_vars(Handlers)

-----------------------------------------------------------------------------

\* The flag is up only inside a timer interrupt, of which there is never more
\* than one, and no handler is killed into leaving it up: the wait for the flag,
\* and its break into a running scheduler, never happen. A fault inside the
\* scheduler does take the flag down early. (HalCoreInterruptHandlerAMD64.cc:68)
TickAlone ==
  /\ flag => \E i \in DOMAIN stack : stack[i].v = Tick /\ stack[i].pc \in {"run", "clear"}
  /\ Cardinality({i \in DOMAIN stack : stack[i].v = Tick}) =< 1
  /\ tries = Tries
  /\ \A i \in DOMAIN stack : i < Len(stack) => stack[i].v \in Exception

\* A timer interrupt comes to its end, whatever traps interrupt it, unless it is a
\* fault with an error code (a page fault), whose handler never gets back to it.
\* (HalCoreInterruptHandlerAMD64.cc:64, HalInterruptAPI.asm:207)
TickRuns == \E i \in DOMAIN stack : stack[i].v = Tick
Faulted == \E i \in DOMAIN stack : stack[i].v \in ErrorCode

TickEnds == TickRuns ~> ~TickRuns \/ Faulted

\* What another user of the heap has is only ever freed under it when the process
\* had deleted that block before; a block on the list is the process's, deleted or
\* freed by Exit; a block is lost only when the list is full; UsedMemory counts at
\* least what the process has; and a process a fault killed has kept every block.
\* (UserProcessScheduler.cc:138, :208, UserProcessScheduler.inl:35)
BlocksAccounted ==
  /\ hurt \subseteq deleted
  /\ \A b \in Listed : heap[b] = "data" \/ b \in deleted \/ exited
  /\ \A b \in Blocks : ~exited /\ heap[b] = "data" /\ b \notin Listed =>
       Len(list) = 2
  /\ ~exited => used >= Cardinality({b \in Blocks : heap[b] = "data"})
  /\ status = "killed" => ~exited

\* At most one caller was told it has the semaphore, and then it is taken, whatever
\* became of the process in the meantime, unless something came between a look and
\* its store: another's store, or the end of the process. And it is taken with
\* nobody to unlock it only by LockOrWait's first half. (Semaphore.cc:28, :54)
SemaphoreExcludes ==
  ~torn =>
    /\ Cardinality({c \in Callers : told[c]}) =< 1
    /\ (\E c \in Callers : told[c]) => sem
    /\ sem /\ (\A c \in Callers : ~told[c]) => silent

ProcessKept == TypeOK /\ TickAlone /\ BlocksAccounted /\ SemaphoreExcludes
=============================================================================
