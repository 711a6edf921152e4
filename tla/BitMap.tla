------------------------------- MODULE BitMap -------------------------------
(***************************************************************************)
(* The bitmap allocator (dev/Kernel/src/BitMapMgr.cc) and its PageMgr      *)
(* front end.  A block starts with a header (magic, size, used); an        *)
(* address carries the magic number exactly when it is in DOMAIN hdr.      *)
(* Nothing locks FindBitMap: every caller (a processor in a kernel call,   *)
(* an interrupt handler that preempted one) has its own `base' cursor, and *)
(* each word it reads or stores is a step of its own, in the order of the  *)
(* source (the kernel is built with -O0).                                  *)
(***************************************************************************)
EXTENDS Integers, FiniteSets

CONSTANTS
  Callers,    \* who may be inside the allocator at the same time
  Sizes,      \* the sizes they request; a request of 0 returns nullptr at once
  Base,       \* kKernelBitMpStart + kPageSize
  Unwritten,  \* the size and used words memory may hold before it is a header
  MaxBlocks   \* bound of the model: blocks held or asked for at one time

Header == [size : Nat, used : BOOLEAN]

ASSUME BitMapAssumption ==
  /\ Sizes \subseteq Nat \ {0}
  /\ Base \in Nat
  /\ Unwritten \subseteq Header
  /\ MaxBlocks \in Nat

VARIABLES
  hdr,        \* header words of the addresses that carry the magic number
  pc,         \* where each caller is in FindBitMap
  base,       \* its cursor
  req,        \* the size it asked for
  held,       \* addresses returned by Request and not freed since
  raced,      \* callers whose block somebody else was given after they looked
  grown       \* blocks a later, larger request was given

bitmapVars == <<hdr, pc, base, req, held, raced, grown>>

(* The line of FindBitMap a caller executes next: 95, 98, 113, 127 read,   *)
(* 115, 116, 100 and 101 (117) store.                                      *)
Reading == {"walk", "used", "else", "next"}
Claiming == {"mark", "size", "regrow", "take"}

TypeOK ==
  /\ DOMAIN hdr \subseteq Nat
  /\ hdr \in [DOMAIN hdr -> Header]
  /\ pc \in [Callers -> {"idle"} \cup Reading \cup Claiming]
  /\ base \in [Callers -> Nat]
  /\ req \in [Callers -> Nat]
  /\ held \subseteq Nat
  /\ raced \subseteq Callers
  /\ grown \subseteq Nat

Goto(c, line) == pc' = [pc EXCEPT ![c] = line]
-----------------------------------------------------------------------------
(* Mutated forms of the definitions below.                                 *)
FitsAnySize(a, size) == a \in DOMAIN hdr

RequestBelow(c, size) ==
  /\ pc[c] = "idle"
  /\ Cardinality(held) < MaxBlocks
  /\ Goto(c, "walk")
  /\ base' = [base EXCEPT ![c] = Base - 2]
  /\ req' = [req EXCEPT ![c] = size]
  /\ UNCHANGED <<hdr, held, raced, grown>>

UsedIgnored(a) == {FALSE}

StrideNowhere(c) == 0
StrideTooFar(c) == IF base[c] \in DOMAIN hdr THEN hdr[base[c]].size + 1 ELSE req[c]
-----------------------------------------------------------------------------
Init ==
  /\ hdr = [a \in {} |-> [size |-> 0, used |-> FALSE]]
  /\ pc = [c \in Callers |-> "idle"]
  /\ base = [c \in Callers |-> Base]
  /\ req = [c \in Callers |-> 0]
  /\ held = {} /\ raced = {} /\ grown = {}

Busy == {c \in Callers : pc[c] # "idle"}

(* PageMgr::Request -> mm_alloc_bitmap -> FindBitMap up to its loop.       *)
Request(c, size) ==
  /\ pc[c] = "idle"
  /\ Cardinality(held) + Cardinality(Busy) < MaxBlocks
  /\ Goto(c, "walk")
  /\ base' = [base EXCEPT ![c] = Base]
  /\ req' = [req EXCEPT ![c] = size]
  /\ UNCHANGED <<hdr, held, raced, grown>>

(* 95, 96: the magic number and a size that is not larger than the request *)
Fits(a, size) == a \in DOMAIN hdr /\ hdr[a].size <= size

Look(c) ==
  /\ pc[c] = "walk"
  /\ Goto(c, IF Fits(base[c], req[c]) THEN "used" ELSE "else")
  /\ UNCHANGED <<hdr, base, req, held, raced, grown>>

(* 98: the used word, whatever is there when the header is gone by now.    *)
UsedWord(a) == IF a \in DOMAIN hdr THEN {hdr[a].used} ELSE BOOLEAN

LookUsed(c) ==
  /\ pc[c] = "used"
  /\ \E used \in UsedWord(base[c]) :
       /\ Goto(c, IF used THEN "next" ELSE "regrow")
       /\ raced' = IF used THEN raced ELSE raced \ {c}
  /\ UNCHANGED <<hdr, base, req, held, grown>>

(* 113: the magic number once more.                                        *)
LookMagic(c) ==
  /\ pc[c] = "else"
  /\ IF base[c] \in DOMAIN hdr
     THEN Goto(c, "next") /\ UNCHANGED raced
     ELSE Goto(c, "mark") /\ raced' = raced \ {c}
  /\ UNCHANGED <<hdr, base, req, held, grown>>

(* 127: over the block, or over the request where there is none.           *)
Stride(c) == IF base[c] \in DOMAIN hdr THEN hdr[base[c]].size ELSE req[c]

Advance(c) ==
  /\ pc[c] = "next"
  /\ Goto(c, "walk")
  /\ base' = [base EXCEPT ![c] = @ + Stride(c)]
  /\ UNCHANGED <<hdr, req, held, raced, grown>>

(* 115: the magic number makes a header of the words that happen to follow *)
Marked(a, words) ==
  IF a \in DOMAIN hdr THEN hdr
  ELSE [x \in DOMAIN hdr \cup {a} |-> IF x = a THEN words ELSE hdr[x]]

StoreMagic(c) ==
  /\ pc[c] = "mark"
  /\ Goto(c, "size")
  /\ \E words \in Unwritten : hdr' = Marked(base[c], words)
  /\ UNCHANGED <<base, req, held, raced, grown>>

(* 116 and 100: the size.                                                  *)
Resized(a, size) ==
  [x \in DOMAIN hdr |-> IF x = a THEN [hdr[x] EXCEPT !.size = size] ELSE hdr[x]]

StoreSize(c) ==
  /\ pc[c] \in {"size", "regrow"}
  /\ Goto(c, "take")
  /\ hdr' = Resized(base[c], req[c])
  /\ grown' = IF pc[c] = "regrow" /\ base[c] \in DOMAIN hdr /\ hdr[base[c]].size < req[c]
              THEN grown \cup {base[c]} ELSE grown
  /\ UNCHANGED <<base, req, held, raced>>

(* 117 and 101: the used word; what follows (status, mm_map_page, return)  *)
(* reads and writes nothing of the allocator's.                            *)
Reused(a, used) ==
  [x \in DOMAIN hdr |-> IF x = a THEN [hdr[x] EXCEPT !.used = used] ELSE hdr[x]]

Take(c) ==
  /\ pc[c] = "take"
  /\ Goto(c, "idle")
  /\ hdr' = Reused(base[c], TRUE)
  /\ held' = held \cup {base[c]}
  /\ raced' = (raced \ {c}) \cup
       {d \in Callers \ {c} : pc[d] \in Claiming /\ base[d] = base[c]}
  /\ UNCHANGED <<base, req, grown>>

(* PageMgr::Free -> mm_free_bitmap -> FreeBitMap; without the magic number *)
(* (or on a null pointer) it returns No and changes nothing.               *)
Free(a) ==
  /\ hdr' = Reused(a, FALSE)
  /\ held' = held \ {a}
  /\ UNCHANGED <<pc, base, req, raced, grown>>

Walk(c) ==
  \/ Look(c) \/ LookUsed(c) \/ LookMagic(c) \/ Advance(c)
  \/ StoreMagic(c) \/ StoreSize(c) \/ Take(c)

Next ==
  \/ \E c \in Callers : \/ \E size \in Sizes : Request(c, size)
                        \/ Walk(c)
  \/ \E a \in DOMAIN hdr : Free(a)

Spec == Init /\ [][Next]_bitmapVars

FairSpec == Spec /\ \A c \in Callers : WF_bitmapVars(Walk(c))
-----------------------------------------------------------------------------
(* A block is given to two callers only when both were inside at once: who *)
(* stores a claim (100-101, 115-117) over a block somebody holds read its  *)
(* words (98, 113) before the other one's used word was stored.  A block   *)
(* in use is never claimed by a caller that came later.                    *)
TwiceOnlyInARace ==
  \A c \in Callers : pc[c] \in Claiming /\ base[c] \in held => c \in raced

(* `size <= request' (96) lets a smaller free block grow over what follows *)
(* it.  In front of the first block that grew, the blocks tile the pool:   *)
(* none reaches into a later header, and each is where an earlier one      *)
(* ends, so that a walk from Base meets it and a freed block is found      *)
(* again.  All the damage is behind it.                                    *)
InFront(a) == \A g \in grown : a <= g

TilesInFront ==
  \A a \in DOMAIN hdr : InFront(a) =>
    /\ a = Base \/ \E b \in DOMAIN hdr : b < a /\ b + hdr[b].size = a
    /\ a \notin grown => \A b \in DOMAIN hdr : a < b => a + hdr[a].size <= b

(* A header is never removed, and once complete (116) its size only grows: *)
(* the walk never gets shorter.                                            *)
HeadersGrow ==
  [][\A a \in DOMAIN hdr :
       /\ a \in DOMAIN hdr'
       /\ \/ hdr'[a].size >= hdr[a].size
          \/ \E c \in Callers : pc[c] = "size" /\ base[c] = a]_hdr

(* `while (YES)' ends: each request is answered.                           *)
RequestReturns == \A c \in Callers : pc[c] # "idle" ~> pc[c] = "idle"

Abstract == INSTANCE Allocator WITH asking <- Busy

(* Seen from outside, by who waits for a block and which blocks are held,  *)
(* mm_alloc_bitmap and mm_free_bitmap behave like an allocator: each call  *)
(* is answered by a block nobody held.                                     *)
Implements == Abstract!Spec
=============================================================================
