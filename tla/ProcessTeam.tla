---------------------------- MODULE ProcessTeam ----------------------------
(***************************************************************************)
(* The process team and its scheduler (UserProcessScheduler.cc,            *)
(* UserProcessTeam.cc, HardwareThreadScheduler.cc).  A timer interrupt may *)
(* run the scheduler between any two steps of a spawn or an exit, on the   *)
(* same processor or on another, and nothing keeps two processors from the *)
(* count at once, so these are four steps each, the count read in one and  *)
(* stored in another; and a pass of Run looks at a slot and switches to it *)
(* in two.                                                                 *)
(***************************************************************************)
EXTENDS Integers, FiniteSets

CONSTANTS
  Cpus,       \* processors that run kernel code
  Timed,      \* those that take timer interrupts: the boot processor, as it
              \* alone loads the interrupt table
  N,          \* kSchedProcessLimitPerTeam
  Quantum,    \* AffinityKind::kStandard, the default affinity
  Wrap,       \* number of values of the unsigned PTime
  Spawns,     \* how many processes are spawned in all: bounds count
  StaleCalls  \* how many calls use a process that has ended or is ending:
              \* bounds stale

ASSUME TeamAssumption ==
  /\ IsFiniteSet(Cpus) /\ Timed \subseteq Cpus
  /\ N \in Nat \ {0}
  /\ Quantum \in Nat \ {0}
  /\ Wrap \in Nat /\ Quantum < Wrap
  /\ Spawns \in Nat /\ StaleCalls \in Nat

VARIABLES
  proc,       \* mProcessList
  count,      \* mProcessCount
  step,       \* where each processor is in a spawn or an exit
  spawn,      \* the slot it is spawning into, or None
  exit,       \* the slot it is ending the process of, or None
  held,       \* the count it has read to store it one higher or lower
  cursor,     \* the slot its pass of Run looks at next, or N outside Run
  picked,     \* has the pass found that slot schedulable, and not switched yet?
  thread,     \* the hardware thread that takes the processes: SourcePID
  overrun,    \* what a spawn has written outside mProcessList
  left,       \* processes still to be spawned
  lost,       \* how much of the count stores have overwritten that was not read
  stale       \* calls that have used a process that has ended or is ending

slotVars == <<proc, overrun>>
countVars == <<count, held, lost>>
runVars == <<cursor, picked, thread>>
teamVars == <<slotVars, countVars, runVars, step, spawn, exit, left, stale>>

Slots == 0 .. (N - 1)
None == -1
Outside == N

Status == {"starting", "running", "killed", "frozen", "finished"}

Process == [status : Status, code : BOOLEAN, stack : BOOLEAN,
            pid : Slots \cup {None}, ptime : 0 .. (Wrap - 1)]

TypeOK ==
  /\ proc \in [Slots -> Process]
  /\ count \in Int /\ held \in [Cpus -> Int] /\ lost \in Int
  /\ step \in [Cpus -> {"idle", "count", "add", "fill", "free", "uncount", "subtract"}]
  /\ spawn \in [Cpus -> Slots \cup {Outside, None}]
  /\ exit \in [Cpus -> Slots \cup {None}]
  /\ cursor \in [Cpus -> 0 .. N]
  /\ picked \in [Cpus -> BOOLEAN]
  /\ thread \in Slots \cup {None}
  /\ overrun \subseteq {"process", "fields"}
  /\ left \in 0 .. Spawns /\ stale \in 0 .. StaleCalls
-----------------------------------------------------------------------------
Idle(c) == step[c] = "idle" /\ cursor[c] = N

(* A step of a spawn or an exit that was begun, no tick being handled.     *)
In(c, place) == step[c] = place /\ cursor[c] = N
Goto(c, place) == step' = [step EXCEPT ![c] = place]
-----------------------------------------------------------------------------
(* Mutated forms of the definitions below.                                 *)
EndedFrozen(p) == [status |-> "frozen", code |-> FALSE, stack |-> FALSE,
                   pid |-> 0, ptime |-> p.ptime]

TickSigned(p) == [p EXCEPT !.ptime = @ - 1]

StoreUncounted(c, by) ==
  /\ count' = count /\ lost' = lost
  /\ held' = [held EXCEPT ![c] = 0]

RunBeginAtOne(c) ==
  /\ cursor[c] = N
  /\ count >= 1
  /\ cursor' = [cursor EXCEPT ![c] = 1]
  /\ UNCHANGED <<slotVars, countVars, step, spawn, exit, left, stale, picked, thread>>
-----------------------------------------------------------------------------
Init ==
  /\ proc = [s \in Slots |-> [status |-> "killed", code |-> FALSE,
                              stack |-> FALSE, pid |-> None, ptime |-> 0]]
  /\ count = 0 /\ held = [c \in Cpus |-> 0] /\ lost = 0
  /\ step = [c \in Cpus |-> "idle"]
  /\ spawn = [c \in Cpus |-> None]
  /\ exit = [c \in Cpus |-> None]
  /\ cursor = [c \in Cpus |-> N]
  /\ picked = [c \in Cpus |-> FALSE]
  /\ thread = None
  /\ overrun = {}
  /\ left = Spawns /\ stale = 0

Live(s) == proc[s].status \in {"starting", "running", "frozen"}

Ending(s) == \E c \in Cpus : exit[c] = s

(* Spawn takes the process count for the slot, whatever that slot holds:   *)
(* the limit itself is let through, and a count gone below zero.           *)
SpawnBegin(c) ==
  /\ Idle(c) /\ left > 0
  /\ count <= N
  /\ spawn' = [spawn EXCEPT ![c] = IF count \in Slots THEN count ELSE Outside]
  /\ left' = left - 1
  /\ Goto(c, "count")
  /\ UNCHANGED <<slotVars, countVars, runVars, exit, stale>>

(* ++mProcessCount and --mProcessCount read the count ...                  *)
ReadCount(c, from, to) ==
  /\ In(c, from) /\ Goto(c, to)
  /\ held' = [held EXCEPT ![c] = count]
  /\ UNCHANGED <<slotVars, runVars, count, lost, spawn, exit, left, stale>>

(* ... and store it: what others have stored in between is lost.           *)
StoreCount(c, by) ==
  /\ count' = held[c] + by
  /\ lost' = lost + (count - held[c])
  /\ held' = [held EXCEPT ![c] = 0]

SpawnRead(c) == ReadCount(c, "count", "add")

(* Spawn to the code pointer.                                              *)
SpawnStore(c) ==
  /\ In(c, "add") /\ Goto(c, "fill")
  /\ StoreCount(c, 1)
  /\ IF spawn[c] \in Slots
       THEN proc' = [proc EXCEPT ![spawn[c]].code = TRUE] /\ UNCHANGED overrun
       ELSE overrun' = overrun \cup {"process"} /\ UNCHANGED proc
  /\ UNCHANGED <<runVars, spawn, exit, left, stale>>

(* With a count above N it returns kErrorProcessFault; rtl_create_process, *)
(* which compares with kProcessInvalidID, takes that number for a slot and *)
(* sets its Kind, StackSize and MemoryLimit.                               *)
SpawnRefused(c) ==
  /\ Idle(c)
  /\ count > N
  /\ overrun' = overrun \cup {"fields"}
  /\ UNCHANGED <<proc, countVars, runVars, step, spawn, exit, left, stale>>

Spawned(p, s) == [status |-> "starting", code |-> p.code, stack |-> TRUE,
                  pid |-> s, ptime |-> Quantum]

(* ... and from the stack frame to the return, its allocations done.       *)
SpawnEnd(c) ==
  /\ In(c, "fill") /\ Goto(c, "idle")
  /\ proc' = [s \in Slots |-> IF s = spawn[c] THEN Spawned(proc[s], s) ELSE proc[s]]
  /\ spawn' = [spawn EXCEPT ![c] = None]
  /\ UNCHANGED <<overrun, countVars, runVars, exit, left, stale>>

(* Callers use a live process, and now and then one that has ended or that *)
(* another is ending: the pid they were given says nothing of that.        *)
Called(s) ==
  \/ Live(s) /\ ~Ending(s) /\ UNCHANGED stale
  \/ /\ proc[s].pid # None /\ ~(Live(s) /\ ~Ending(s)) /\ stale < StaleCalls
     /\ stale' = stale + 1

Wake(c, s, wakeup) ==
  /\ Idle(c) /\ Called(s)
  /\ proc' = [proc EXCEPT ![s].status = IF wakeup THEN "running" ELSE "frozen"]
  /\ UNCHANGED <<overrun, countVars, runVars, step, spawn, exit, left>>

(* Exit up to its loops: an exit code above 0 kills, any other freezes.    *)
(* Remove is Exit(0) without a look at the status.                         *)
ExitBegin(c, s, status) ==
  /\ Idle(c) /\ Called(s) /\ Goto(c, "free")
  /\ proc' = [proc EXCEPT ![s].status = status]
  /\ exit' = [exit EXCEPT ![c] = s]
  /\ UNCHANGED <<overrun, countVars, runVars, spawn, left>>

(* Crash returns at once unless the process is running.                    *)
Crash(c, s) == proc[s].status = "running" /\ ExitBegin(c, s, "killed")

Ended(p) == [status |-> "finished", code |-> FALSE, stack |-> FALSE,
             pid |-> 0, ptime |-> p.ptime]

(* ... from the first block it frees to the slot's last store ...          *)
ExitFree(c) ==
  /\ In(c, "free") /\ Goto(c, "uncount")
  /\ proc' = [proc EXCEPT ![exit[c]] = Ended(@)]
  /\ exit' = [exit EXCEPT ![c] = None]
  /\ UNCHANGED <<overrun, countVars, runVars, spawn, left, stale>>

(* ... and the count, which a process ended twice is taken from twice.     *)
ExitRead(c) == ReadCount(c, "uncount", "subtract")

ExitStore(c) ==
  /\ In(c, "subtract") /\ Goto(c, "idle")
  /\ StoreCount(c, -1)
  /\ UNCHANGED <<slotVars, runVars, spawn, exit, left, stale>>

(* Run: an empty team is left alone.                                       *)
RunEmpty(c) == cursor[c] = N /\ count < 1 /\ UNCHANGED teamVars

RunBegin(c) ==
  /\ cursor[c] = N
  /\ count >= 1
  /\ cursor' = [cursor EXCEPT ![c] = 0]
  /\ UNCHANGED <<slotVars, countVars, step, spawn, exit, left, stale, picked, thread>>

CanBeScheduled(p) == p.status = "running" /\ p.code /\ p.ptime < 1

Tick(p) == [p EXCEPT !.ptime = (@ - 1) % Wrap]

(* A process that can be scheduled gets its time, any other loses some.    *)
Pick(c, s) ==
  /\ CanBeScheduled(proc[s])
  /\ proc' = [proc EXCEPT ![s].ptime = Quantum]
  /\ picked' = [picked EXCEPT ![c] = TRUE]
  /\ UNCHANGED cursor

PassBy(c, s) ==
  /\ ~CanBeScheduled(proc[s])
  /\ proc' = [proc EXCEPT ![s] = Tick(@)]
  /\ cursor' = [cursor EXCEPT ![c] = @ + 1]
  /\ UNCHANGED picked

RunSlot(c) ==
  /\ cursor[c] < N /\ ~picked[c]
  /\ Pick(c, cursor[c]) \/ PassBy(c, cursor[c])
  /\ UNCHANGED <<overrun, countVars, step, spawn, exit, left, stale, thread>>

(* UserProcessHelper::Switch: the boot processor is passed over, the next  *)
(* hardware thread is told it is not busy and takes the process, always;   *)
(* code, stack and pid are read from the slot again.                       *)
RunSwitch(c) ==
  /\ cursor[c] < N /\ picked[c]
  /\ thread' = proc[cursor[c]].pid
  /\ picked' = [picked EXCEPT ![c] = FALSE]
  /\ cursor' = [cursor EXCEPT ![c] = @ + 1]
  /\ UNCHANGED <<slotVars, countVars, step, spawn, exit, left, stale>>

Spawning(c) == SpawnBegin(c) \/ SpawnRead(c) \/ SpawnStore(c) \/ SpawnEnd(c)
               \/ SpawnRefused(c)

Exiting(c) ==
  \/ \E s \in Slots : \/ \E status \in {"killed", "frozen"} : ExitBegin(c, s, status)
                      \/ Crash(c, s)
  \/ ExitFree(c) \/ ExitRead(c) \/ ExitStore(c)

Scheduling(c) == RunEmpty(c) \/ RunBegin(c) \/ RunSlot(c) \/ RunSwitch(c)

Next ==
  \/ \E c \in Cpus : \/ Spawning(c)
                     \/ \E s \in Slots, wakeup \in BOOLEAN : Wake(c, s, wakeup)
                     \/ Exiting(c)
  \/ \E c \in Timed : Scheduling(c)

Spec == Init /\ [][Next]_teamVars

(* The timer interrupt keeps coming, and its handler runs to its end.      *)
FairSpec == Spec /\ \A c \in Timed : WF_teamVars(Scheduling(c))
-----------------------------------------------------------------------------
Whole(s) == proc[s].pid = s /\ proc[s].stack

Runnable(s) == proc[s].status = "running" /\ proc[s].code

(* A process the scheduler may pick has the pid of its own slot and a      *)
(* stack that has not been freed, also while the slot is respawned under   *)
(* the scheduler's feet (Switch looks the process up again by its pid), as *)
(* long as nobody has used a process that had ended: to wake one whose     *)
(* slot is being spawned into makes it runnable without a stack.           *)
RunnableIsWhole == stale = 0 => \A s \in Slots : Runnable(s) => Whole(s)

(* The process a pass of Run is about to switch to is still whole: nobody  *)
(* ended it since CanBeScheduled looked at it (Run, lines 444-455).        *)
PickedIsWhole == \A c \in Cpus : picked[c] => Whole(cursor[c])

(* The live processes missing from the count, which decides whether Run    *)
(* does anything at all, are no more than what one processor's ++ or --    *)
(* has overwritten of another's (lines 292 and 272), and one for each call *)
(* that used a process that had ended, such as a second Remove (line 398). *)
LiveCounted == Cardinality({s \in Slots : Live(s)}) <= count + lost + stale

(* A runnable process is put on the hardware thread or stops being one (or *)
(* loses its pid: one that had ended was woken while its slot was spawned  *)
(* into), unless the count falls below 1, with which Run does nothing (line 430): *)
(* by LiveCounted that takes a lost update or a use of an ended process.   *)
RunnableScheduled ==
  \A s \in Slots :
    Runnable(s) /\ Whole(s) ~> (thread = s \/ ~(Runnable(s) /\ Whole(s)) \/ count < 1)
=============================================================================
