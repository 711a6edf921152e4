------------------------------ MODULE HeapProofs ------------------------------
(***************************************************************************)
(* Theorems about the bitmap allocator, for every set of sizes, base and   *)
(* content of the pool, and about the kernel heap on top of it, for any    *)
(* layout of the information block and any number of blocks of one size,   *)
(* with one caller inside at a time.                                       *)
(***************************************************************************)
EXTENDS Heap, WellFoundedInduction, TLAPS

-----------------------------------------------------------------------------
(* A step of the allocator, by what it may do.                             *)
LEMMA WalkTyped ==
  ASSUME TypeOK, NEW c \in Callers, Walk(c)
  PROVE  TypeOK'
<1> USE BitMapAssumption DEF TypeOK, Header, Goto, Reading, Claiming
<1>1. CASE Look(c)
  BY <1>1 DEF Look
<1>2. CASE LookUsed(c)
  BY <1>2 DEF LookUsed
<1>3. CASE LookMagic(c)
  BY <1>3 DEF LookMagic
<1>4. CASE Advance(c)
  <2>1. base[c] + Stride(c) \in Nat
    BY DEF Stride
  <2> QED BY <1>4, <2>1 DEF Advance
<1>5. CASE StoreMagic(c)
  BY <1>5 DEF StoreMagic, Marked
<1>6. CASE StoreSize(c)
  <2>1. \A x \in DOMAIN hdr : [hdr[x] EXCEPT !.size = req[c]] \in Header
    OBVIOUS
  <2> QED BY <1>6, <2>1 DEF StoreSize, Resized
<1>7. CASE Take(c)
  <2>1. \A x \in DOMAIN hdr : [hdr[x] EXCEPT !.used = TRUE] \in Header
    OBVIOUS
  <2> QED BY <1>7, <2>1 DEF Take, Reused
<1> QED BY <1>1, <1>2, <1>3, <1>4, <1>5, <1>6, <1>7 DEF Walk

LEMMA TypeInductive == ASSUME TypeOK, [Next]_bitmapVars PROVE TypeOK'
<1> USE BitMapAssumption DEF TypeOK, Header
<1>1. ASSUME NEW c \in Callers, NEW size \in Sizes, Request(c, size)
      PROVE  TypeOK'
  BY <1>1 DEF Request, Goto, Reading
<1>2. ASSUME NEW c \in Callers, Walk(c)
      PROVE  TypeOK'
  BY <1>2, WalkTyped
<1>3. ASSUME NEW a, Free(a)
      PROVE  TypeOK'
  <2>1. \A x \in DOMAIN hdr : [hdr[x] EXCEPT !.used = FALSE] \in Header
    OBVIOUS
  <2> QED BY <1>3, <2>1 DEF Free, Reused
<1>4. CASE UNCHANGED bitmapVars
  BY <1>4 DEF bitmapVars
<1> QED BY <1>1, <1>2, <1>3, <1>4 DEF Next

(* Every value the allocator keeps has its type (all of BitMapMgr.cc).     *)
THEOREM TypeCorrect == Spec => []TypeOK
<1>1. Init => TypeOK
  BY BitMapAssumption DEF Init, TypeOK, Header
<1> QED BY <1>1, TypeInductive, PTL DEF Spec

-----------------------------------------------------------------------------
(* A block somebody holds has its header, marked used.                     *)
HeldUsed == \A a \in held : a \in DOMAIN hdr /\ hdr[a].used

(* Past line 98 or 113 there is a header under the cursor, except where    *)
(* one is about to be made.                                                *)
OnHeader ==
  \A c \in Callers :
    pc[c] \in {"used", "next", "size", "regrow", "take"} => base[c] \in DOMAIN hdr

Exclusion == HeldUsed /\ OnHeader /\ TwiceOnlyInARace

LEMMA ExclusionInductive ==
  ASSUME TypeOK, Exclusion, [Next]_bitmapVars
  PROVE  Exclusion'
<1> USE DEF TypeOK, Header, Exclusion, HeldUsed, OnHeader, TwiceOnlyInARace, Claiming
<1>1. ASSUME NEW c \in Callers, NEW size \in Sizes, Request(c, size)
      PROVE  Exclusion'
  BY <1>1 DEF Request, Goto
<1>2. ASSUME NEW c \in Callers, Look(c)
      PROVE  Exclusion'
  BY <1>2 DEF Look, Fits, Goto
<1>3. ASSUME NEW c \in Callers, LookUsed(c)
      PROVE  Exclusion'
  <2>1. PICK used \in UsedWord(base[c]) :
          /\ Goto(c, IF used THEN "next" ELSE "regrow")
          /\ raced' = IF used THEN raced ELSE raced \ {c}
    BY <1>3 DEF LookUsed
  <2>2. base[c] \in held => used
    BY DEF UsedWord
  <2>3. ASSUME NEW d \in Callers, pc'[d] \in Claiming, base[d] \in held
        PROVE  d \in raced'
    <3>1. CASE d = c
      BY <2>1, <2>2, <2>3, <3>1 DEF Goto
    <3>2. CASE d # c
      BY <2>1, <2>3, <3>2 DEF Goto
    <3> QED BY <3>1, <3>2
  <2>4. OnHeader'
    BY <1>3, <2>1 DEF LookUsed, Goto
  <2> QED BY <1>3, <2>3, <2>4 DEF LookUsed
<1>4. ASSUME NEW c \in Callers, LookMagic(c)
      PROVE  Exclusion'
  <2>1. ASSUME NEW d \in Callers, pc'[d] \in Claiming, base[d] \in held
        PROVE  d \in raced'
    BY <1>4, <2>1 DEF LookMagic, Goto
  <2>2. OnHeader'
    BY <1>4 DEF LookMagic, Goto
  <2> QED BY <1>4, <2>1, <2>2 DEF LookMagic
<1>5. ASSUME NEW c \in Callers, Advance(c)
      PROVE  Exclusion'
  BY <1>5 DEF Advance, Goto
<1>6. ASSUME NEW c \in Callers, StoreMagic(c)
      PROVE  Exclusion'
  BY <1>6 DEF StoreMagic, Marked, Goto
<1>7. ASSUME NEW c \in Callers, StoreSize(c)
      PROVE  Exclusion'
  BY <1>7 DEF StoreSize, Resized, Goto
<1>8. ASSUME NEW c \in Callers, Take(c)
      PROVE  Exclusion'
  BY <1>8 DEF Take, Reused, Goto
<1>9. ASSUME NEW a, Free(a)
      PROVE  Exclusion'
  BY <1>9 DEF Free, Reused
<1>10. CASE UNCHANGED bitmapVars
  BY <1>10 DEF bitmapVars
<1> QED BY <1>1, <1>2, <1>3, <1>4, <1>5, <1>6, <1>7, <1>8, <1>9, <1>10 DEF Next, Walk

(* For any number of callers in FindBitMap at once, a block somebody holds *)
(* is claimed again only by a caller that had looked at it before it was   *)
(* given away (lines 95-124).                                              *)
THEOREM NoBlockTwice == Spec => []TwiceOnlyInARace
<1>1. Init => Exclusion
  BY DEF Init, Exclusion, HeldUsed, OnHeader, TwiceOnlyInARace, Claiming
<1>2. TypeOK /\ Exclusion /\ [Next]_bitmapVars => Exclusion'
  BY ExclusionInductive
<1>3. Exclusion => TwiceOnlyInARace
  BY DEF Exclusion
<1> QED BY <1>1, <1>2, <1>3, TypeCorrect, PTL DEF Spec
-----------------------------------------------------------------------------
(* One caller at a time is inside the allocator.                           *)
OneCaller == \A c, d \in Callers : c = d

(* Nobody races a caller that is alone.                                    *)
Unraced == raced = {}

LEMMA AloneInductive ==
  ASSUME OneCaller, Unraced, [Next]_bitmapVars
  PROVE  Unraced'
<1> USE DEF Unraced
<1>1. ASSUME NEW c \in Callers, Walk(c) PROVE Unraced'
  BY <1>1 DEF Walk, Look, LookUsed, LookMagic, Advance, StoreMagic, StoreSize, Take, OneCaller
<1> QED BY <1>1 DEF Next, Request, Free, bitmapVars

(* A caller alone, before it claims: no header where it will put one, and  *)
(* at least its size where it regrows one; a header is complete but for    *)
(* the one it is making.                                                   *)
Complete(a) == ~ \E c \in Callers : pc[c] = "size" /\ base[c] = a

Claims ==
  /\ \A c \in Callers :
       /\ pc[c] = "mark" => base[c] \notin DOMAIN hdr
       /\ pc[c] \in {"used", "regrow"} /\ base[c] \in DOMAIN hdr
            => hdr[base[c]].size <= req[c]
       /\ pc[c] # "idle" => req[c] > 0 /\ base[c] >= Base
  /\ \A a \in DOMAIN hdr : a >= Base /\ (Complete(a) => hdr[a].size > 0)
  /\ grown \subseteq DOMAIN hdr

LEMMA ClaimsInductive ==
  ASSUME OneCaller, TypeOK, Exclusion, Claims, [Next]_bitmapVars
  PROVE  Claims'
<1> USE DEF TypeOK, Header, Claims, Complete, Goto
<1>1. ASSUME NEW c \in Callers, NEW size \in Sizes, Request(c, size)
      PROVE  Claims'
  BY <1>1, BitMapAssumption DEF Request
<1>2. ASSUME NEW c \in Callers, Look(c)
      PROVE  Claims'
  <2>1. /\ UNCHANGED <<hdr, base, req, grown>> /\ pc[c] = "walk"
        /\ pc'[c] = IF Fits(base[c], req[c]) THEN "used" ELSE "else"
        /\ \A d \in Callers : d # c => pc'[d] = pc[d]
    BY <1>2 DEF Look
  <2>2. \A a \in DOMAIN hdr : Complete(a)' => Complete(a)
    BY <2>1
  <2>3. pc'[c] \in {"used", "else"} /\ (pc'[c] = "used" => hdr[base[c]].size <= req[c])
    BY <2>1 DEF Fits
  <2> HIDE DEF Complete, Goto
  <2> QED BY <2>1, <2>2, <2>3
<1>3. ASSUME NEW c \in Callers, LookUsed(c)
      PROVE  Claims'
  BY <1>3 DEF LookUsed
<1>4. ASSUME NEW c \in Callers, LookMagic(c)
      PROVE  Claims'
  BY <1>4 DEF LookMagic
<1>5. ASSUME NEW c \in Callers, Advance(c)
      PROVE  Claims'
  <2>1. Stride(c) \in Nat /\ base'[c] = base[c] + Stride(c)
    BY <1>5 DEF Stride, Advance
  <2> QED BY <1>5, <2>1, BitMapAssumption DEF Advance
<1>6. ASSUME NEW c \in Callers, StoreMagic(c)
      PROVE  Claims'
  <2>1. PICK words \in Header : hdr' = Marked(base[c], words)
    BY <1>6, BitMapAssumption DEF StoreMagic
  <2>2. /\ UNCHANGED <<base, req, grown>> /\ pc[c] = "mark" /\ pc'[c] = "size"
        /\ base[c] >= Base /\ req[c] > 0
        /\ \A d \in Callers : d = c
    BY <1>6, OneCaller DEF StoreMagic, OneCaller
  <2>3. /\ DOMAIN hdr' = DOMAIN hdr \cup {base[c]}
        /\ \A a \in DOMAIN hdr : a # base[c] => hdr'[a] = hdr[a] /\ Complete(a)
        /\ ~Complete(base[c])'
    BY <2>1, <2>2 DEF Marked
  <2>4. \A a \in DOMAIN hdr' : a >= Base /\ (Complete(a)' => hdr'[a].size > 0)
    BY <2>2, <2>3
  <2> QED BY <2>2, <2>3, <2>4
<1>7. ASSUME NEW c \in Callers, StoreSize(c)
      PROVE  Claims'
  <2>1. /\ DOMAIN hdr' = DOMAIN hdr /\ hdr' = Resized(base[c], req[c])
        /\ pc[c] \in {"size", "regrow"} /\ base[c] \in DOMAIN hdr /\ req[c] > 0
        /\ UNCHANGED <<base, req>> /\ pc'[c] = "take"
    <3>1. pc[c] \in {"size", "regrow"} /\ UNCHANGED <<base, req>> /\ pc'[c] = "take"
      BY <1>7 DEF StoreSize
    <3>2. base[c] \in DOMAIN hdr /\ req[c] > 0
      BY <3>1 DEF Exclusion, OnHeader
    <3> QED BY <1>7, <3>1, <3>2 DEF StoreSize, Resized
  <2>2. \A d \in Callers : d = c
    BY OneCaller DEF OneCaller
  <2>3. hdr'[base[c]].size = req[c]
    BY <2>1 DEF Resized
  <2>4. \A a \in DOMAIN hdr : a # base[c] => hdr'[a] = hdr[a] /\ Complete(a)
    BY <2>1, <2>2 DEF Resized
  <2>5. \A a \in DOMAIN hdr : hdr'[a].size > 0
    BY <2>1, <2>3, <2>4
  <2>6. grown' \subseteq DOMAIN hdr'
    BY <1>7, <2>1 DEF StoreSize
  <2> QED BY <2>1, <2>2, <2>5, <2>6
<1>8. ASSUME NEW c \in Callers, Take(c)
      PROVE  Claims'
  <2>1. /\ DOMAIN hdr' = DOMAIN hdr /\ hdr' = Reused(base[c], TRUE)
        /\ pc[c] = "take" /\ pc'[c] = "idle" /\ UNCHANGED <<base, req, grown>>
    BY <1>8 DEF Take, Reused
  <2>2. \A d \in Callers : d = c
    BY OneCaller DEF OneCaller
  <2>3. \A a \in DOMAIN hdr : hdr'[a].size = hdr[a].size /\ Complete(a)
    BY <2>1, <2>2 DEF Reused
  <2> QED BY <2>1, <2>2, <2>3
<1>9. ASSUME NEW a, Free(a)
      PROVE  Claims'
  BY <1>9 DEF Free, Reused
<1>10. CASE UNCHANGED bitmapVars
  BY <1>10 DEF bitmapVars
<1> QED BY <1>1, <1>2, <1>3, <1>4, <1>5, <1>6, <1>7, <1>8, <1>9, <1>10 DEF Next, Walk

LEMMA ClaimsInvariant ==
  ASSUME OneCaller
  PROVE  Spec => [](TypeOK /\ Exclusion /\ Claims /\ Unraced)
<1>1. Init => Exclusion /\ Claims /\ Unraced
  <2>1. Init => Exclusion
    BY DEF Init, Exclusion, HeldUsed, OnHeader, TwiceOnlyInARace, Claiming
  <2>2. Init => Claims /\ Unraced
    BY DEF Init, Claims, Unraced
  <2> QED BY <2>1, <2>2
<1>2. TypeOK /\ Exclusion /\ Claims /\ Unraced /\ [Next]_bitmapVars
        => Exclusion' /\ Claims' /\ Unraced'
  BY ExclusionInductive, ClaimsInductive, AloneInductive
<1> QED BY <1>1, <1>2, TypeCorrect, PTL DEF Spec

(* Headers never go away and, with one caller, a complete one never gets   *)
(* smaller: a walk never gets shorter (line 96, and FreeBitMap, which      *)
(* keeps the size).                                                        *)
THEOREM HeadersOnlyGrow ==
  ASSUME OneCaller
  PROVE  Spec => HeadersGrow
<1> DEFINE Grown ==
      \A a \in DOMAIN hdr :
        /\ a \in DOMAIN hdr'
        /\ \/ hdr'[a].size >= hdr[a].size
           \/ \E c \in Callers : pc[c] = "size" /\ base[c] = a
<1>1. TypeOK /\ Claims /\ [Next]_bitmapVars => [Grown]_hdr
  <2> SUFFICES ASSUME TypeOK, Claims, [Next]_bitmapVars, hdr' # hdr
               PROVE  Grown
    OBVIOUS
  <2> USE DEF TypeOK, Header
  <2>1. ASSUME NEW c \in Callers, StoreMagic(c)
        PROVE  Grown
    BY <2>1 DEF StoreMagic, Marked
  <2>2. ASSUME NEW c \in Callers, StoreSize(c)
        PROVE  Grown
    <3> SUFFICES ASSUME NEW a \in DOMAIN hdr, a = base[c], pc[c] = "regrow"
                 PROVE  hdr'[a].size >= hdr[a].size
      BY <2>2 DEF StoreSize, Resized
    <3>1. hdr[a].size <= req[c]
      <4>1. base[c] \in DOMAIN hdr => hdr[base[c]].size <= req[c]
        BY DEF Claims
      <4> QED BY <4>1
    <3>2. hdr'[a].size = req[c]
      BY <2>2 DEF StoreSize, Resized
    <3> QED BY <3>1, <3>2
  <2>3. ASSUME NEW c \in Callers, Take(c)
        PROVE  Grown
    BY <2>3 DEF Take, Reused
  <2>4. ASSUME NEW a \in DOMAIN hdr, Free(a)
        PROVE  Grown
    BY <2>4 DEF Free, Reused
  <2> QED BY <2>1, <2>2, <2>3, <2>4
          DEF Next, Walk, Request, Look, LookUsed, LookMagic, Advance, bitmapVars
<1> QED BY <1>1, ClaimsInvariant, PTL DEF Spec, HeadersGrow

(* The whole allocator implements the abstract one: it answers every call  *)
(* with a block nobody holds, and takes back blocks that are held.         *)
THEOREM ImplementsAllocator ==
  ASSUME OneCaller
  PROVE  Spec => Implements
<1>1. Init => Abstract!Init
  BY DEF Init, Busy, Abstract!Init
<1>2. TypeOK /\ Exclusion /\ Unraced /\ [Next]_bitmapVars => [Abstract!Next]_Abstract!vars
  <2> SUFFICES ASSUME TypeOK, Exclusion, Unraced, [Next]_bitmapVars
               PROVE  [Abstract!Next]_Abstract!vars
    OBVIOUS
  <2> USE DEF Abstract!Next, Abstract!vars, TypeOK, Goto
  <2>1. ASSUME NEW c \in Callers, NEW size \in Sizes, Request(c, size)
        PROVE  Abstract!Ask
    <3>1. c \notin Busy /\ Busy' = Busy \cup {c}
      BY <2>1 DEF Request, Busy
    <3> QED BY <2>1, <3>1 DEF Request, Abstract!Ask
  <2>2. ASSUME NEW c \in Callers,
               Look(c) \/ LookUsed(c) \/ LookMagic(c) \/ Advance(c)
                 \/ StoreMagic(c) \/ StoreSize(c)
        PROVE  UNCHANGED Abstract!vars
    <3>1. held' = held /\ pc[c] # "idle" /\ \E line \in (Reading \cup Claiming) : Goto(c, line)
      BY <2>2 DEF Look, LookUsed, LookMagic, Advance, StoreMagic, StoreSize, Reading, Claiming
    <3>2. Busy' = Busy
      BY <3>1 DEF Busy, Reading, Claiming
    <3> QED BY <3>1, <3>2
  <2>3. ASSUME NEW c \in Callers, Take(c)
        PROVE  Abstract!Alloc
    <3>1. c \in Busy /\ Busy' = Busy \ {c}
      BY <2>3 DEF Take, Busy
    <3>2. base[c] \notin held /\ held' = held \cup {base[c]}
      BY <2>3 DEF Take, Exclusion, TwiceOnlyInARace, Claiming, Unraced
    <3> QED BY <3>1, <3>2 DEF Abstract!Alloc
  <2>4. ASSUME NEW a \in DOMAIN hdr, Free(a)
        PROVE  [Abstract!Next]_Abstract!vars
    <3>1. Busy' = Busy
      BY <2>4 DEF Free, Busy
    <3>2. held' = held \/ \E b \in held : held' = held \ {b}
      BY <2>4 DEF Free
    <3> QED BY <2>4, <3>1, <3>2 DEF Abstract!Release
  <2>5. CASE UNCHANGED bitmapVars
    BY <2>5 DEF bitmapVars, Busy
  <2> QED BY <2>1, <2>2, <2>3, <2>4, <2>5 DEF Next, Walk
<1> QED BY <1>1, <1>2, ClaimsInvariant, PTL DEF Spec, Implements, Abstract!Spec

-----------------------------------------------------------------------------
(* Where a walk from Base comes: Base, or where an earlier header ends.    *)
Reached(x) == x = Base \/ \E b \in DOMAIN hdr : b < x /\ b + hdr[b].size = x

(* A caller's cursor is reached, and a header under construction in front  *)
(* of all grown ones is the last one.                                      *)
Cursors ==
  \A c \in Callers :
    /\ pc[c] # "idle" /\ InFront(base[c]) => Reached(base[c])
    /\ pc[c] = "size" /\ InFront(base[c]) => \A b \in DOMAIN hdr : b <= base[c]

Tiled == TilesInFront /\ Cursors

LEMMA LeastOne ==
  ASSUME NEW S \in SUBSET Nat, S # {}
  PROVE  \E x \in S : \A y \in S : x <= y
<1>1. \E x \in S : \A y \in S : ~ (<<y, x>> \in OpToRel(<, Nat))
  BY NatLessThanWellFounded, WFMin
<1>2. \A x \in S, y \in S : <<y, x>> \in OpToRel(<, Nat) <=> y < x
  BY DEF OpToRel
<1>3. PICK x \in S : \A y \in S : ~ (<<y, x>> \in OpToRel(<, Nat))
  BY <1>1
<1>4. \A y \in S : ~ (y < x)
  BY <1>2, <1>3
<1>5. \A y \in S : x <= y
  BY <1>4
<1> QED BY <1>5

(* What lies in front of the cursor ends in front of it.                   *)
LEMMA BeforeCursor ==
  ASSUME TypeOK, Claims, TilesInFront, NEW x \in Nat, Reached(x), InFront(x),
         NEW a \in DOMAIN hdr, a < x
  PROVE  a + hdr[a].size <= x
<1> USE DEF TypeOK, Header
<1>1. a >= Base /\ Base \in Nat
  BY BitMapAssumption DEF Claims
<1>2. PICK d \in DOMAIN hdr : d < x /\ d + hdr[d].size = x
  BY <1>1 DEF Reached
<1>3. \A e \in DOMAIN hdr : e < x => InFront(e) /\ e \notin grown
  BY DEF InFront
<1>4. a < d => a + hdr[a].size <= d
  BY <1>3 DEF TilesInFront
<1>5. d < a => d + hdr[d].size <= a
  BY <1>2, <1>3 DEF TilesInFront
<1> QED BY <1>2, <1>4, <1>5

(* Where a walk meets no header, in front of all grown ones, there is none *)
(* behind either.                                                          *)
LEMMA NothingBehind ==
  ASSUME TypeOK, Claims, TilesInFront, NEW x \in Nat, x \notin DOMAIN hdr, x >= Base,
         Reached(x), InFront(x)
  PROVE  \A b \in DOMAIN hdr : b < x
<1> DEFINE S == {b \in DOMAIN hdr : b > x}
<1>1. SUFFICES ASSUME S # {} PROVE FALSE
  BY DEF TypeOK
<1>2. S \in SUBSET Nat
  BY DEF TypeOK
<1>3. PICK y \in S : \A z \in S : y <= z
  BY <1>1, <1>2, LeastOne
<1>4. y \in DOMAIN hdr /\ y \in Nat /\ y > x /\ \A z \in DOMAIN hdr : z > x => y <= z
  BY <1>2, <1>3
<1> HIDE DEF S
<1>5. InFront(y)
  <2>1. SUFFICES ASSUME NEW g \in grown, g < y PROVE FALSE
    BY <1>4 DEF InFront, TypeOK
  <2>2. g \in DOMAIN hdr /\ x <= g /\ g \in Nat
    BY DEF Claims, InFront, TypeOK
  <2> QED BY <1>4, <2>1, <2>2
<1>6. PICK b \in DOMAIN hdr : b < y /\ b + hdr[b].size = y
  BY <1>4, <1>5, BitMapAssumption DEF TilesInFront
<1>7. b \in Nat
  BY DEF TypeOK
<1>8. b < x
  BY <1>4, <1>6, <1>7
<1>9. y <= x
  BY <1>6, <1>8, BeforeCursor
<1> QED BY <1>4, <1>9

(* A step that keeps the headers' places and sizes keeps the tiles.        *)
SameSizes ==
  /\ DOMAIN hdr' = DOMAIN hdr /\ grown' = grown
  /\ \A a \in DOMAIN hdr : hdr'[a].size = hdr[a].size

LEMMA TilesKept ==
  ASSUME TilesInFront, SameSizes
  PROVE  TilesInFront' /\ (\A x : Reached(x) => Reached(x)') /\ (\A x : InFront(x)' <=> InFront(x))
BY DEF TilesInFront, SameSizes, InFront, Reached

LEMMA MagicTiles ==
  ASSUME OneCaller, TypeOK, Exclusion, Claims, Tiled, NEW c \in Callers, StoreMagic(c)
  PROVE  Tiled'
<1>0. PICK x : x = base[c]
  OBVIOUS
<1>1. PICK words \in Header : hdr' = Marked(x, words)
  BY <1>0, BitMapAssumption DEF StoreMagic
<1>2. /\ UNCHANGED <<base, req, grown>> /\ pc[c] = "mark"
      /\ x \in Nat /\ x >= Base /\ x \notin DOMAIN hdr
      /\ \A d \in Callers : d = c
  BY <1>0, OneCaller DEF StoreMagic, OneCaller, Claims, TypeOK
<1>3. /\ DOMAIN hdr' = DOMAIN hdr \cup {x}
      /\ \A a \in DOMAIN hdr : hdr'[a] = hdr[a] /\ a \in Nat /\ a # x
  BY <1>1, <1>2 DEF Marked, TypeOK
<1>4. \A y : InFront(y)' <=> InFront(y)
  BY <1>2 DEF InFront
<1>5. \A y : Reached(y) => Reached(y)'
  BY <1>3 DEF Reached
<1>6. InFront(x) => Reached(x)
  BY <1>0, <1>2 DEF Tiled, Cursors
<1>7. InFront(x) => \A b \in DOMAIN hdr : b < x
  BY <1>2, <1>6, NothingBehind DEF Tiled
<1>8. ASSUME NEW a \in DOMAIN hdr', InFront(a)
      PROVE  Reached(a)'
  BY <1>3, <1>5, <1>6, <1>8 DEF Tiled, TilesInFront, Reached
<1>9. ASSUME NEW a \in DOMAIN hdr', InFront(a), a \notin grown,
             NEW b \in DOMAIN hdr', a < b
      PROVE  a + hdr'[a].size <= b
  <2>1. CASE a = x
    BY <1>2, <1>3, <1>7, <1>9, <2>1
  <2>2. CASE a # x /\ b # x
    BY <1>3, <1>9, <2>2 DEF Tiled, TilesInFront
  <2>3. CASE a # x /\ b = x
    <3>1. a \in DOMAIN hdr /\ hdr'[a] = hdr[a] /\ a \in Nat /\ hdr[a].size \in Nat
      BY <1>3, <2>3 DEF TypeOK, Header
    <3>2. CASE InFront(x)
      BY <1>2, <1>6, <1>9, <2>3, <3>1, <3>2, BeforeCursor DEF Tiled
    <3>3. CASE ~InFront(x)
      <4>1. PICK g \in grown : ~(x <= g)
        BY <3>3 DEF InFront
      <4>2. g \in DOMAIN hdr /\ g \in Nat /\ a < g
        BY <1>9, <3>1 DEF Claims, TypeOK, InFront
      <4>3. a + hdr[a].size <= g
        BY <1>9, <3>1, <4>2 DEF Tiled, TilesInFront
      <4> QED BY <1>2, <2>3, <3>1, <4>1, <4>2, <4>3
    <3> QED BY <3>2, <3>3
  <2> QED BY <2>1, <2>2, <2>3
<1>10. TilesInFront'
  BY <1>2, <1>4, <1>8, <1>9 DEF TilesInFront, Reached
<1>11. Cursors'
  <2>1. \A d \in Callers : base'[d] = x
    BY <1>0, <1>2
  <2>2. InFront(x) => \A b \in DOMAIN hdr' : b <= x
    BY <1>2, <1>3, <1>7
  <2>3. InFront(x) => Reached(x)'
    BY <1>5, <1>6
  <2> QED BY <1>4, <2>1, <2>2, <2>3 DEF Cursors
<1> QED BY <1>10, <1>11 DEF Tiled

LEMMA SizeTiles ==
  ASSUME OneCaller, TypeOK, Exclusion, Claims, Tiled, NEW c \in Callers, StoreSize(c)
  PROVE  Tiled'
<1>0. PICK x : x = base[c]
  OBVIOUS
<1>1. /\ pc[c] \in {"size", "regrow"} /\ x \in DOMAIN hdr /\ x \in Nat
      /\ hdr' = Resized(x, req[c]) /\ UNCHANGED <<base, req>>
      /\ \A d \in Callers : d = c
  BY <1>0, OneCaller DEF StoreSize, OneCaller, Exclusion, OnHeader, TypeOK
<1>2. /\ DOMAIN hdr' = DOMAIN hdr
      /\ \A a \in DOMAIN hdr : a # x => hdr'[a] = hdr[a]
  BY <1>1 DEF Resized
<1>3. pc'[c] = "take" /\ \A d \in Callers : pc'[d] = "take"
  BY <1>1 DEF StoreSize, Goto, TypeOK
<1>4. \A y : InFront(y)' => InFront(y)
  BY DEF StoreSize, InFront
<1>5. CASE pc[c] = "regrow" /\ hdr[x].size < req[c]
  <2>1. grown' = grown \cup {x}
    BY <1>0, <1>1, <1>5 DEF StoreSize
  <2>2. \A y : InFront(y)' => y <= x
    BY <2>1 DEF InFront
  <2>3. ASSUME NEW y \in Nat, InFront(y)', Reached(y)
        PROVE  Reached(y)'
    <3>1. y <= x
      BY <2>2, <2>3
    <3> QED BY <1>1, <1>2, <2>3, <3>1 DEF Reached, TypeOK
  <2>4. ASSUME NEW a \in DOMAIN hdr, InFront(a)'
        PROVE  /\ Reached(a)'
               /\ a \notin grown' => \A b \in DOMAIN hdr : a < b => a + hdr'[a].size <= b
    <3>1. Reached(a) /\ a \in Nat
      BY <1>4, <2>4 DEF Tiled, TilesInFront, Reached, TypeOK
    <3>2. a \notin grown' => hdr'[a] = hdr[a] /\ a \notin grown
      BY <1>2, <2>1
    <3> QED BY <1>4, <2>3, <2>4, <3>1, <3>2 DEF Tiled, TilesInFront
  <2>5. TilesInFront'
    BY <1>2, <2>4 DEF TilesInFront, Reached
  <2>6. Cursors'
    BY <1>0, <1>1, <1>3, <1>4, <2>3 DEF Tiled, Cursors
  <2> QED BY <2>5, <2>6 DEF Tiled
<1>6. CASE pc[c] = "regrow" /\ ~(hdr[x].size < req[c])
  <2>1. hdr[x].size <= req[c] /\ hdr[x].size \in Nat /\ req[c] \in Nat
    BY <1>0, <1>1, <1>6 DEF Claims, TypeOK, Header
  <2>2. hdr'[x].size = hdr[x].size /\ grown' = grown
    BY <1>0, <1>1, <1>6, <2>1 DEF StoreSize, Resized, TypeOK, Header
  <2>3. SameSizes
    BY <1>2, <2>2 DEF SameSizes
  <2>4. TilesInFront' /\ (\A y : Reached(y) => Reached(y)') /\ (\A y : InFront(y)' <=> InFront(y))
    BY <2>3, TilesKept DEF Tiled
  <2>5. Cursors'
    BY <1>0, <1>1, <1>3, <2>4 DEF Tiled, Cursors
  <2> QED BY <2>4, <2>5 DEF Tiled
<1>7. CASE pc[c] = "size"
  <2>1. grown' = grown /\ \A y : InFront(y)' <=> InFront(y)
    BY <1>7 DEF StoreSize, InFront
  <2>2. InFront(x) => \A b \in DOMAIN hdr : b <= x
    BY <1>0, <1>7 DEF Tiled, Cursors
  <2>3. ASSUME NEW y \in Nat, y \in DOMAIN hdr \/ y = x, InFront(y), Reached(y)
        PROVE  Reached(y)'
    <3>1. y <= x \/ ~InFront(x)
      BY <1>1, <2>2, <2>3
    <3>2. ~InFront(x) => y < x
      BY <1>1, <2>3 DEF InFront, TypeOK
    <3>3. y <= x
      BY <1>1, <3>1, <3>2
    <3> QED BY <1>1, <1>2, <2>3, <3>3 DEF Reached, TypeOK
  <2>4. ASSUME NEW a \in DOMAIN hdr, InFront(a)
        PROVE  /\ Reached(a)'
               /\ a \notin grown => \A b \in DOMAIN hdr : a < b => a + hdr'[a].size <= b
    <3>1. Reached(a) /\ a \in Nat
      BY <2>4 DEF Tiled, TilesInFront, Reached, TypeOK
    <3>2. CASE a = x
      BY <1>1, <2>2, <2>3, <2>4, <3>1, <3>2 DEF TypeOK
    <3>3. CASE a # x
      BY <1>2, <2>3, <2>4, <3>1, <3>3 DEF Tiled, TilesInFront
    <3> QED BY <3>2, <3>3
  <2>5. TilesInFront'
    BY <1>2, <2>1, <2>4 DEF TilesInFront, Reached
  <2>6. Cursors'
    BY <1>0, <1>1, <1>3, <2>1, <2>3 DEF Tiled, Cursors
  <2> QED BY <2>5, <2>6 DEF Tiled
<1> QED BY <1>1, <1>5, <1>6, <1>7

LEMMA TilesInductive ==
  ASSUME OneCaller, TypeOK, Exclusion, Claims, Tiled, [Next]_bitmapVars
  PROVE  Tiled'
<1>1. ASSUME NEW c \in Callers, NEW size \in Sizes, Request(c, size)
      PROVE  Tiled'
  <2>1. SameSizes /\ base'[c] = Base /\ pc'[c] = "walk" /\ \A d \in Callers : d = c
    BY <1>1 DEF Request, SameSizes, OneCaller, TypeOK, Goto
  <2>2. Reached(Base)'
    BY BitMapAssumption DEF Reached
  <2>3. Cursors'
    BY <2>1, <2>2 DEF Cursors
  <2> QED BY <2>1, <2>3, TilesKept DEF Tiled
<1>2. ASSUME NEW c \in Callers, Look(c) \/ LookUsed(c) \/ LookMagic(c) \/ Take(c)
      PROVE  Tiled'
  <2>1. SameSizes
    BY <1>2 DEF Look, LookUsed, LookMagic, Take, SameSizes, Reused, TypeOK, Header
  <2>2. /\ base' = base /\ pc[c] # "idle" /\ \A d \in Callers : d = c
    BY <1>2 DEF Look, LookUsed, LookMagic, Take, OneCaller
  <2>3. pc'[c] # "size"
    BY <1>2 DEF Look, LookUsed, LookMagic, Take, Goto, TypeOK
  <2>4. TilesInFront' /\ (\A y : Reached(y) => Reached(y)') /\ (\A y : InFront(y)' <=> InFront(y))
    BY <2>1, TilesKept DEF Tiled
  <2>5. Cursors'
    BY <2>2, <2>3, <2>4 DEF Tiled, Cursors
  <2> QED BY <2>4, <2>5 DEF Tiled
<1>3. ASSUME NEW c \in Callers, Advance(c)
      PROVE  Tiled'
  <2>1. /\ pc[c] = "next" /\ base[c] \in DOMAIN hdr /\ pc'[c] = "walk"
        /\ base'[c] = base[c] + hdr[base[c]].size /\ UNCHANGED <<hdr, grown>>
        /\ \A d \in Callers : d = c
    <3>1. pc[c] = "next" /\ base[c] \in DOMAIN hdr
      BY <1>3 DEF Advance, Exclusion, OnHeader
    <3> QED BY <1>3, <3>1 DEF Advance, Stride, Goto, TypeOK, OneCaller
  <2>2. Complete(base[c])
    BY <2>1 DEF Complete
  <2>3. base[c] \in Nat /\ hdr[base[c]].size \in Nat /\ hdr[base[c]].size > 0
    BY <2>1, <2>2 DEF Claims, TypeOK, Header
  <2>4. PICK y : y = base'[c]
    OBVIOUS
  <2>5. Reached(y)'
    <3>1. base[c] < y
      BY <2>1, <2>3, <2>4
    <3> QED BY <2>1, <2>4, <3>1 DEF Reached
  <2>6. Cursors'
    BY <2>1, <2>4, <2>5 DEF Cursors
  <2>7. SameSizes
    BY <2>1 DEF SameSizes
  <2> QED BY <2>6, <2>7, TilesKept DEF Tiled
<1>4. ASSUME NEW c \in Callers, StoreMagic(c) \/ StoreSize(c)
      PROVE  Tiled'
  BY <1>4, MagicTiles, SizeTiles
<1>5. ASSUME (\E a \in DOMAIN hdr : Free(a)) \/ UNCHANGED bitmapVars
      PROVE  Tiled'
  <2>1. SameSizes /\ UNCHANGED <<pc, base>>
    BY <1>5 DEF Free, Reused, SameSizes, bitmapVars, TypeOK, Header
  <2>2. TilesInFront' /\ (\A y : Reached(y) => Reached(y)') /\ (\A y : InFront(y)' <=> InFront(y))
    BY <2>1, TilesKept DEF Tiled
  <2>3. DOMAIN hdr' = DOMAIN hdr
    BY <2>1 DEF SameSizes
  <2>4. Cursors'
    BY <2>1, <2>2, <2>3 DEF Tiled, Cursors
  <2> QED BY <2>2, <2>4 DEF Tiled
<1> QED BY <1>1, <1>2, <1>3, <1>4, <1>5 DEF Next, Walk

(* With one caller at a time the blocks tile the pool up to the first one  *)
(* that `size <= request' (line 96) let grow, whatever sizes are asked for *)
(* and whatever the pool held before.                                      *)
THEOREM BlocksTile ==
  ASSUME OneCaller
  PROVE  Spec => []TilesInFront
<1>1. Init => Tiled
  BY DEF Init, Tiled, TilesInFront, Cursors
<1>2. TypeOK /\ Exclusion /\ Claims /\ Tiled /\ [Next]_bitmapVars => Tiled'
  BY TilesInductive
<1>3. Tiled => TilesInFront
  BY DEF Tiled
<1> QED BY <1>1, <1>2, <1>3, ClaimsInvariant, PTL DEF Spec

-----------------------------------------------------------------------------
(* The heap.  With one request size s every header and every cursor is on  *)
(* a multiple of s from Base, whatever the callers' data destroys.         *)
Block(k, s) == Base + k * s

IsBlock(a, s) == \E k \in Nat : a = Block(k, s)

(* Blocks of s bytes have room for both headers and for what is cleared at *)
(* fPadding; a magic number ends before what lies behind it.               *)
Roomy(s) ==
  /\ MagicSz <= PadOff /\ MagicSz <= HibSz
  /\ HibSz + PadOff + PadLen <= s /\ 2 * HibSz <= s

(* What the heap is proved for: requests of one size, enough of it, and    *)
(* one caller inside.  Owners may store all the bytes they asked for.      *)
Uniform(s) == Sizes = {s} /\ Roomy(s) /\ OneCaller

LEMMA SizeFacts ==
  /\ HibSz \in Nat \ {0} /\ PadOff \in Nat \ {0} /\ PadLen \in Nat \ {0}
  /\ MagicSz \in Nat \ {0} /\ Base \in Nat
BY HeapAssumption, BitMapAssumption

LEMMA BlockStep ==
  ASSUME NEW s \in Nat \ {0}, NEW j \in Nat, NEW k \in Nat
  PROVE  /\ Block(j + 1, s) = Block(j, s) + s
         /\ Block(0, s) = Base
         /\ Block(j, s) < Block(k, s) => Block(j, s) + s <= Block(k, s)
<1> USE BitMapAssumption DEF Block
<1>1. (j + 1) * s = j * s + s
  OBVIOUS
<1>2. ASSUME k >= j + 1
      PROVE  k * s >= (j + 1) * s
  <2>1. k - (j + 1) \in Nat
    BY <1>2
  <2>2. (k - (j + 1)) * s >= 0
    BY <2>1
  <2>3. (k - (j + 1)) * s = k * s - (j + 1) * s
    OBVIOUS
  <2> QED BY <2>2, <2>3
<1>3. ASSUME k <= j
      PROVE  k * s <= j * s
  <2>1. j - k \in Nat
    BY <1>3
  <2>2. (j - k) * s >= 0
    BY <2>1
  <2>3. (j - k) * s = j * s - k * s
    OBVIOUS
  <2> QED BY <2>2, <2>3
<1>4. k >= j + 1 \/ k <= j
  OBVIOUS
<1> QED BY <1>1, <1>2, <1>3, <1>4

LEMMA BlocksApart ==
  ASSUME NEW s \in Nat \ {0}, NEW a, IsBlock(a, s), NEW b, IsBlock(b, s)
  PROVE  a \in Nat /\ b \in Nat /\ (a < b => a + s <= b)
<1>1. PICK j \in Nat, k \in Nat : a = Block(j, s) /\ b = Block(k, s)
  BY DEF IsBlock
<1>2. j * s \in Nat /\ k * s \in Nat
  OBVIOUS
<1>3. a \in Nat /\ b \in Nat
  BY <1>1, <1>2, SizeFacts DEF Block
<1> QED BY <1>1, <1>3, BlockStep

LEMMA NextBlock ==
  ASSUME NEW s \in Nat \ {0}, NEW a, IsBlock(a, s)
  PROVE  IsBlock(a + s, s) /\ IsBlock(Base, s)
<1>1. PICK j \in Nat : a = Block(j, s)
  BY DEF IsBlock
<1>2. j + 1 \in Nat /\ a + s = Block(j + 1, s) /\ Base = Block(0, s)
  BY <1>1, BlockStep
<1> QED BY <1>2 DEF IsBlock
-----------------------------------------------------------------------------
(* The inductive invariant.  The header of a live pointer's block stands   *)
(* unless it was spilt on, and no call is at work on such a block.         *)
Grid(s) ==
  /\ \A a \in DOMAIN hdr : IsBlock(a, s) /\ (Complete(a) => hdr[a].size = s)
  /\ \A c \in Callers : IsBlock(base[c], s) /\ (op[c] = "new" => req[c] = s)

HibsInBlocks(s) ==
  \A a \in DOMAIN hib : hib[a].size = s /\ \E x : IsBlock(x, s) /\ a = x + HibSz

PointersHeld(s) ==
  \A p \in ptrs :
    /\ IsBlock(BlockOf(p), s) /\ p = BlockOf(p) + 2 * HibSz
    /\ HibOf(p) \in DOMAIN hib
    /\ BlockOf(p) \notin spilt => BlockOf(p) \in DOMAIN hdr /\ hdr[BlockOf(p)].used

(* mm_new_heap is done with the allocator and has not filled the           *)
(* information block yet.                                                  *)
Returning(c) == op[c] = "new" /\ pc[c] = "idle"

CallsInOrder ==
  \A c \in Callers :
    /\ op[c] = "none" => pc[c] = "idle"
    /\ base[c] \notin spilt =>
         /\ pc[c] \in Claiming \/ Returning(c) => base[c] + 2 * HibSz \notin ptrs
         /\ pc[c] \in {"used", "regrow", "size", "take"} \/ Returning(c)
              => base[c] \in DOMAIN hdr
         /\ Returning(c) => hdr[base[c]].used

HeapTyped == /\ DOMAIN hib \subseteq Nat /\ hib \in [DOMAIN hib -> Hib]
             /\ op \in [Callers -> {"none", "new"}] /\ ptrs \subseteq Nat
             /\ spilt \subseteq Nat

HeapInv(s) ==
  /\ TypeOK /\ HeapTyped
  /\ Grid(s) /\ HibsInBlocks(s) /\ PointersHeld(s) /\ CallsInOrder /\ BlocksOwned
-----------------------------------------------------------------------------
(* Lemmas about what a store touches.                                      *)

(* A store behind the magic number of a block's information block that     *)
(* ends before the next one's hits no information block; one that ends     *)
(* with the block hits no header either.                                   *)
LEMMA NothingWiped ==
  ASSUME NEW s \in Nat \ {0}, Roomy(s), NEW b, IsBlock(b, s),
         NEW off \in {0, HibSz},
         NEW lo \in Nat, NEW hi \in Nat, b + HibSz + MagicSz <= lo, hi <= b + s + off,
         NEW f, f = [a \in DOMAIN f |-> f[a]],
         \A a \in DOMAIN f : \E x : IsBlock(x, s) /\ a = x + off
  PROVE  Wiped(f, lo, hi) = f
<1>1. ASSUME NEW a \in DOMAIN f PROVE a + MagicSz <= lo \/ a >= hi
  <2>1. PICK x : IsBlock(x, s) /\ a = x + off
    OBVIOUS
  <2>2. /\ x \in Nat /\ b \in Nat
        /\ x < b => x + s <= b
        /\ b < x => b + s <= x
    BY <2>1, BlocksApart
  <2> QED BY <2>1, <2>2, SizeFacts DEF Roomy
<1>2. {x \in DOMAIN f : x + MagicSz <= lo \/ x >= hi} = DOMAIN f
  BY <1>1
<1> QED BY <1>2 DEF Wiped

LEMMA HeadersOnGrid ==
  ASSUME NEW s \in Nat \ {0}, HeapInv(s)
  PROVE  \A a \in DOMAIN hdr : \E x : IsBlock(x, s) /\ a = x + 0
<1>1. \A a \in DOMAIN hdr : IsBlock(a, s) /\ a \in Nat
  BY DEF HeapInv, Grid, TypeOK
<1> QED BY <1>1

LEMMA ResummedFacts ==
  ASSUME NEW lo, NEW hi, hib \in [DOMAIN hib -> Hib]
  PROVE  /\ Resummed(lo, hi) \in [DOMAIN hib -> Hib]
         /\ \A a \in DOMAIN hib : Resummed(lo, hi)[a].size = hib[a].size
         /\ \A a \in DOMAIN hib : ~Summed(a, lo, hi) => Resummed(lo, hi)[a] = hib[a]
<1>1. \A a \in DOMAIN hib : /\ [hib[a] EXCEPT !.crc = "stale"] \in Hib
                            /\ [hib[a] EXCEPT !.crc = "stale"].size = hib[a].size
  BY DEF Hib, Crc
<1> QED BY <1>1 DEF Resummed

(* The pointer, its information block and its block belong together.       *)
LEMMA PointerFacts ==
  ASSUME NEW s \in Nat \ {0}, HeapInv(s), NEW p \in ptrs
  PROVE  /\ BlockOf(p) \in Nat /\ IsBlock(BlockOf(p), s)
         /\ p = BlockOf(p) + 2 * HibSz /\ HibOf(p) = BlockOf(p) + HibSz
         /\ HibOf(p) \in DOMAIN hib /\ hib[HibOf(p)].size = s
<1>1. /\ IsBlock(BlockOf(p), s) /\ p = BlockOf(p) + 2 * HibSz
      /\ HibOf(p) \in DOMAIN hib
  BY DEF HeapInv, PointersHeld
<1>2. BlockOf(p) \in Nat
  BY <1>1, BlocksApart
<1>3. HibOf(p) = BlockOf(p) + HibSz
  BY <1>1, <1>2, SizeFacts DEF HibOf
<1> QED BY <1>1, <1>2, <1>3 DEF HeapInv, HibsInBlocks

(* The base a call works on.                                               *)
LEMMA CallFacts ==
  ASSUME NEW s \in Nat \ {0}, Uniform(s), HeapInv(s), NEW c \in Callers
  PROVE  /\ IsBlock(base[c], s) /\ base[c] \in Nat /\ base[c] + 2 * HibSz \in Nat
         /\ BlockOf(base[c] + 2 * HibSz) = base[c]
         /\ HibOf(base[c] + 2 * HibSz) = base[c] + HibSz
         /\ \A d \in Callers : d = c
         /\ \A p \in ptrs : BlockOf(p) = base[c] <=> p = base[c] + 2 * HibSz
<1>1. IsBlock(base[c], s) /\ base[c] \in Nat
  BY DEF HeapInv, Grid, TypeOK
<1>2. /\ base[c] + 2 * HibSz \in Nat
      /\ BlockOf(base[c] + 2 * HibSz) = base[c]
      /\ HibOf(base[c] + 2 * HibSz) = base[c] + HibSz
  BY <1>1, SizeFacts DEF BlockOf, HibOf
<1>3. \A p \in ptrs : BlockOf(p) = base[c] <=> p = base[c] + 2 * HibSz
  BY <1>1, <1>2, PointerFacts
<1>4. \A d \in Callers : d = c
  BY DEF Uniform, OneCaller
<1> QED BY <1>1, <1>2, <1>3, <1>4

(* What an allocator's store does to the information blocks.               *)
LEMMA TouchedFacts ==
  ASSUME NEW s \in Nat \ {0}, HeapInv(s), NEW b
  PROVE  /\ DOMAIN Touched(b) = DOMAIN hib
         /\ Touched(b) \in [DOMAIN hib -> Hib]
         /\ \A a \in DOMAIN hib : Touched(b)[a].size = s
<1>1. hib \in [DOMAIN hib -> Hib] /\ \A a \in DOMAIN hib : hib[a].size = s
  BY DEF HeapInv, HeapTyped, HibsInBlocks
<1> QED BY <1>1, ResummedFacts DEF Touched
-----------------------------------------------------------------------------
(* A step of the walk that only reads.                                     *)
LEMMA ReadStep ==
  ASSUME NEW s \in Nat \ {0}, Uniform(s), HeapInv(s), NEW c \in Callers,
         ReadWords(c), UNCHANGED <<hib, spilt, op, ptrs>>
  PROVE  HeapInv(s)'
<1>1. /\ UNCHANGED <<hdr, req, held, grown>> /\ pc[c] \in Reading
      /\ \A d \in Callers : d = c
      /\ \A d \in Callers : pc'[d] \in (Reading \cup {"mark", "regrow"})
  BY CallFacts DEF ReadWords, Look, LookUsed, LookMagic, Advance, Goto, Reading, HeapInv, TypeOK
<1>2. TypeOK'
  BY WalkTyped DEF HeapInv, ReadWords, Walk
<1>3. op[c] = "new" /\ req[c] = s
  BY <1>1 DEF HeapInv, HeapTyped, CallsInOrder, Grid, Reading
<1>4. HeapTyped' /\ HibsInBlocks(s)' /\ PointersHeld(s)'
  BY <1>1 DEF HeapInv, HeapTyped, HibsInBlocks, PointersHeld, HibOf, BlockOf
<1>5. \A d \in Callers : pc[d] # "size" /\ pc'[d] # "size"
  BY <1>1 DEF Reading
<1>6. IsBlock(base'[c], s)
  <2>1. CASE Advance(c)
    <3>1. base'[c] = base[c] + Stride(c) /\ IsBlock(base[c], s)
      BY <2>1, CallFacts DEF Advance, HeapInv, TypeOK
    <3>2. base[c] \in DOMAIN hdr => hdr[base[c]].size = s
      BY <1>5 DEF HeapInv, Grid, Complete
    <3>3. Stride(c) = s
      BY <1>3, <3>2 DEF Stride
    <3> QED BY <3>1, <3>3, NextBlock
  <2>2. CASE base' = base
    BY <2>2, CallFacts
  <2> QED BY <2>1, <2>2 DEF ReadWords, Look, LookUsed, LookMagic
<1>7. Grid(s)'
  <2>1. \A d \in Callers : IsBlock(base'[d], s) /\ req'[d] = s
    BY <1>1, <1>3, <1>6
  <2>2. \A a \in DOMAIN hdr : IsBlock(a, s) /\ hdr[a].size = s
    BY <1>5 DEF HeapInv, Grid, Complete
  <2> QED BY <1>1, <2>1, <2>2 DEF Grid
<1>8. CallsInOrder'
  <2>1. CASE Look(c)
    <3>1. base' = base /\ pc'[c] \in {"used", "else"} /\ (pc'[c] = "used" => base[c] \in DOMAIN hdr)
      BY <2>1 DEF Look, Goto, Fits, HeapInv, TypeOK
    <3> QED BY <1>1, <1>3, <3>1 DEF CallsInOrder, Returning, Claiming
  <2>2. CASE LookUsed(c)
    <3>1. PICK used \in UsedWord(base[c]) : pc'[c] = IF used THEN "next" ELSE "regrow"
      BY <2>2 DEF LookUsed, Goto, HeapInv, TypeOK
    <3>2. base' = base /\ pc[c] = "used"
      BY <2>2 DEF LookUsed
    <3>3. base[c] \notin spilt => base[c] \in DOMAIN hdr
      BY <3>2 DEF HeapInv, CallsInOrder
    <3>4. base[c] \notin spilt /\ ~used => base[c] + 2 * HibSz \notin ptrs
      BY <3>1, <3>3, CallFacts DEF UsedWord, HeapInv, PointersHeld
    <3> QED BY <1>1, <1>3, <3>1, <3>2, <3>3, <3>4 DEF CallsInOrder, Returning, Claiming
  <2>3. CASE LookMagic(c)
    <3>1. base' = base /\ pc'[c] = IF base[c] \in DOMAIN hdr THEN "next" ELSE "mark"
      BY <2>3 DEF LookMagic, Goto, HeapInv, TypeOK
    <3>2. base[c] \notin spilt /\ base[c] \notin DOMAIN hdr => base[c] + 2 * HibSz \notin ptrs
      BY CallFacts DEF HeapInv, PointersHeld
    <3> QED BY <1>1, <1>3, <3>1, <3>2 DEF CallsInOrder, Returning, Claiming
  <2>4. CASE Advance(c)
    <3>1. pc'[c] = "walk"
      BY <2>4 DEF Advance, Goto, HeapInv, TypeOK
    <3> QED BY <1>1, <1>3, <3>1 DEF CallsInOrder, Returning, Claiming
  <2> QED BY <2>1, <2>2, <2>3, <2>4 DEF ReadWords
<1>9. BlocksOwned'
  <2>1. \A a \in DOMAIN hdr : hdr[a].used => a + 2 * HibSz \in ptrs
    BY <1>1 DEF HeapInv, BlocksOwned, Reading
  <2> QED BY <1>1, <2>1 DEF BlocksOwned
<1> QED BY <1>2, <1>4, <1>7, <1>8, <1>9 DEF HeapInv

(* The three stores of a claim.                                            *)
LEMMA MarkStep ==
  ASSUME NEW s \in Nat \ {0}, Uniform(s), HeapInv(s), NEW c \in Callers,
         StoreMagic(c), hib' = Touched(base[c]), UNCHANGED <<op, ptrs>>,
         spilt' = IF base[c] + 2 * HibSz \in ptrs THEN spilt ELSE spilt \ {base[c]}
  PROVE  HeapInv(s)'
<1>0. PICK b : b = base[c]
  OBVIOUS
<1>1. /\ UNCHANGED <<base, req>> /\ pc[c] = "mark" /\ pc'[c] = "size"
      /\ \A d \in Callers : d = c
      /\ IsBlock(b, s) /\ b \in Nat /\ op[c] = "new" /\ req[c] = s
  BY <1>0, CallFacts DEF StoreMagic, Goto, HeapInv, TypeOK, HeapTyped, CallsInOrder, Grid
<1>2. PICK words \in Header : hdr' = Marked(b, words)
  BY <1>0, BitMapAssumption DEF StoreMagic
<1>3. /\ DOMAIN hdr' = DOMAIN hdr \cup {b}
      /\ \A a \in DOMAIN hdr : hdr'[a] = hdr[a]
  BY <1>2 DEF Marked
<1>4. TypeOK'
  BY WalkTyped DEF HeapInv, Walk
<1>5. HeapTyped' /\ HibsInBlocks(s)'
  BY <1>0, TouchedFacts DEF HeapInv, HeapTyped, HibsInBlocks
<1>6. Grid(s)'
  <2>1. \A a \in DOMAIN hdr : IsBlock(a, s) /\ hdr[a].size = s
    BY <1>1 DEF HeapInv, Grid, Complete
  <2>2. ~Complete(b)'
    BY <1>0, <1>1 DEF Complete
  <2>3. \A a \in DOMAIN hdr' : a # b => a \in DOMAIN hdr
    BY <1>3
  <2> QED BY <1>0, <1>1, <1>3, <2>1, <2>2, <2>3 DEF Grid
<1>7. PointersHeld(s)'
  <2>1. ASSUME NEW p \in ptrs, BlockOf(p) \notin spilt'
        PROVE  BlockOf(p) \notin spilt
    BY <1>0, <2>1, CallFacts
  <2>2. \A p \in ptrs : BlockOf(p) \notin spilt' =>
          BlockOf(p) \in DOMAIN hdr' /\ hdr'[BlockOf(p)].used
    BY <1>3, <2>1 DEF HeapInv, PointersHeld
  <2>3. \A p \in ptrs : /\ IsBlock(BlockOf(p), s) /\ p = BlockOf(p) + 2 * HibSz
                        /\ HibOf(p) \in DOMAIN hib'
    BY <1>0, PointerFacts, TouchedFacts
  <2> QED BY <2>2, <2>3 DEF PointersHeld, HibOf, BlockOf
<1>8. CallsInOrder'
  <2>1. b \notin spilt' => b + 2 * HibSz \notin ptrs
    BY <1>0, <1>1 DEF HeapInv, CallsInOrder, Claiming
  <2> QED BY <1>0, <1>1, <1>3, <2>1 DEF CallsInOrder, Returning, Claiming
<1>9. BlocksOwned'
  <2>1. \A a \in DOMAIN hdr : hdr[a].used => a + 2 * HibSz \in ptrs
    BY <1>1 DEF HeapInv, BlocksOwned
  <2> QED BY <1>0, <1>1, <1>3, <2>1 DEF BlocksOwned
<1> QED BY <1>4, <1>5, <1>6, <1>7, <1>8, <1>9 DEF HeapInv

LEMMA SizeStep ==
  ASSUME NEW s \in Nat \ {0}, Uniform(s), HeapInv(s), NEW c \in Callers,
         StoreSize(c), hib' = Touched(base[c]), UNCHANGED <<op, ptrs, spilt>>
  PROVE  HeapInv(s)'
<1>0. PICK b : b = base[c]
  OBVIOUS
<1>1. /\ UNCHANGED <<base, req>> /\ pc[c] \in {"size", "regrow"} /\ pc'[c] = "take"
      /\ \A d \in Callers : d = c
      /\ IsBlock(b, s) /\ b \in Nat /\ op[c] = "new" /\ req[c] = s
  BY <1>0, CallFacts DEF StoreSize, Goto, HeapInv, TypeOK, HeapTyped, CallsInOrder, Grid
<1>2. /\ DOMAIN hdr' = DOMAIN hdr
      /\ \A a \in DOMAIN hdr : hdr'[a].used = hdr[a].used
      /\ \A a \in DOMAIN hdr : a # b => hdr'[a].size = hdr[a].size
      /\ b \in DOMAIN hdr => hdr'[b].size = s
  BY <1>0, <1>1 DEF StoreSize, Resized, HeapInv, TypeOK, Header
<1>4. TypeOK'
  BY WalkTyped DEF HeapInv, Walk
<1>5. HeapTyped' /\ HibsInBlocks(s)'
  BY <1>0, TouchedFacts DEF HeapInv, HeapTyped, HibsInBlocks
<1>6. Grid(s)'
  <2>1. \A a \in DOMAIN hdr : IsBlock(a, s) /\ (a # b => hdr[a].size = s)
    BY <1>0, <1>1 DEF HeapInv, Grid, Complete
  <2>2. \A a \in DOMAIN hdr' : IsBlock(a, s) /\ hdr'[a].size = s
    BY <1>2, <2>1
  <2> QED BY <1>0, <1>1, <2>2 DEF Grid
<1>7. PointersHeld(s)'
  <2>3. \A p \in ptrs : /\ IsBlock(BlockOf(p), s) /\ p = BlockOf(p) + 2 * HibSz
                        /\ HibOf(p) \in DOMAIN hib'
    BY <1>0, PointerFacts, TouchedFacts
  <2> QED BY <1>2, <2>3 DEF PointersHeld, HibOf, BlockOf, HeapInv
<1>8. CallsInOrder'
  <2>1. b \notin spilt => b + 2 * HibSz \notin ptrs /\ b \in DOMAIN hdr
    BY <1>0, <1>1 DEF HeapInv, CallsInOrder, Claiming
  <2> QED BY <1>0, <1>1, <1>2, <2>1 DEF CallsInOrder, Returning, Claiming
<1>9. BlocksOwned'
  BY <1>0, <1>1, <1>2 DEF HeapInv, BlocksOwned
<1> QED BY <1>4, <1>5, <1>6, <1>7, <1>8, <1>9 DEF HeapInv

LEMMA TakeStep ==
  ASSUME NEW s \in Nat \ {0}, Uniform(s), HeapInv(s), NEW c \in Callers,
         Take(c), hib' = Touched(base[c]), UNCHANGED <<op, ptrs, spilt>>
  PROVE  HeapInv(s)'
<1>0. PICK b : b = base[c]
  OBVIOUS
<1>1. /\ UNCHANGED <<base, req>> /\ pc[c] = "take" /\ pc'[c] = "idle"
      /\ \A d \in Callers : d = c
      /\ IsBlock(b, s) /\ b \in Nat /\ op[c] = "new" /\ req[c] = s
  BY <1>0, CallFacts DEF Take, Goto, HeapInv, TypeOK, HeapTyped, CallsInOrder, Grid
<1>2. /\ DOMAIN hdr' = DOMAIN hdr
      /\ \A a \in DOMAIN hdr : hdr'[a].size = hdr[a].size
      /\ \A a \in DOMAIN hdr : a # b => hdr'[a].used = hdr[a].used
      /\ b \in DOMAIN hdr => hdr'[b].used
  BY <1>0, <1>1 DEF Take, Reused, HeapInv, TypeOK, Header
<1>4. TypeOK'
  BY WalkTyped DEF HeapInv, Walk
<1>5. HeapTyped' /\ HibsInBlocks(s)'
  BY <1>0, TouchedFacts DEF HeapInv, HeapTyped, HibsInBlocks
<1>6. Grid(s)'
  <2>1. \A a \in DOMAIN hdr : IsBlock(a, s) /\ hdr[a].size = s
    BY <1>0, <1>1 DEF HeapInv, Grid, Complete
  <2> QED BY <1>0, <1>1, <1>2, <2>1 DEF Grid
<1>7. PointersHeld(s)'
  <2>1. \A p \in ptrs : BlockOf(p) \notin spilt =>
          BlockOf(p) \in DOMAIN hdr' /\ hdr'[BlockOf(p)].used
    BY <1>2 DEF HeapInv, PointersHeld
  <2>3. \A p \in ptrs : /\ IsBlock(BlockOf(p), s) /\ p = BlockOf(p) + 2 * HibSz
                        /\ HibOf(p) \in DOMAIN hib'
    BY <1>0, PointerFacts, TouchedFacts
  <2> QED BY <2>1, <2>3 DEF PointersHeld, HibOf, BlockOf
<1>8. CallsInOrder'
  <2>1. b \notin spilt => b + 2 * HibSz \notin ptrs /\ b \in DOMAIN hdr
    BY <1>0, <1>1 DEF HeapInv, CallsInOrder, Claiming
  <2> QED BY <1>0, <1>1, <1>2, <2>1 DEF CallsInOrder, Returning, Claiming
<1>9. BlocksOwned'
  BY <1>0, <1>1, <1>2 DEF HeapInv, BlocksOwned
<1> QED BY <1>4, <1>5, <1>6, <1>7, <1>8, <1>9 DEF HeapInv

LEMMA NewHeapStep ==
  ASSUME NEW s \in Nat \ {0}, Uniform(s), HeapInv(s),
         NEW c \in Callers, NEW size \in Sizes, NewHeap(c, size)
  PROVE  HeapInv(s)'
<1>1. /\ UNCHANGED <<hdr, held, hib, ptrs, spilt>> /\ op[c] = "none" /\ pc[c] = "idle"
      /\ \A d \in Callers : d = c
      /\ pc'[c] = "walk" /\ req'[c] = s /\ base'[c] = Base /\ op'[c] = "new"
  BY CallFacts DEF NewHeap, Request, Goto, Uniform, HeapInv, HeapTyped, TypeOK
<1>2. TypeOK'
  BY TypeInductive DEF NewHeap, HeapInv, Next
<1>3. HeapTyped' /\ HibsInBlocks(s)' /\ PointersHeld(s)'
  BY <1>1 DEF NewHeap, HeapInv, HeapTyped, HibsInBlocks, PointersHeld, HibOf, BlockOf
<1>4. IsBlock(Base, s)
  BY CallFacts, NextBlock
<1>5. Grid(s)'
  <2>1. \A a \in DOMAIN hdr : IsBlock(a, s) /\ hdr[a].size = s
    BY <1>1 DEF HeapInv, Grid, Complete
  <2> QED BY <1>1, <1>4, <2>1 DEF Grid
<1>6. CallsInOrder'
  BY <1>1 DEF CallsInOrder, Returning, Claiming
<1>7. BlocksOwned'
  <2>1. \A a \in DOMAIN hdr : hdr[a].used => a + 2 * HibSz \in ptrs
    BY <1>1 DEF HeapInv, BlocksOwned
  <2> QED BY <1>1, <2>1 DEF BlocksOwned
<1> QED BY <1>2, <1>3, <1>5, <1>6, <1>7 DEF HeapInv

(* What Fill leaves in the information blocks: its own, and the others as  *)
(* a store to its block leaves them.  The padding it clears is its own.    *)
LEMMA FillLeaves ==
  ASSUME NEW s \in Nat \ {0}, Uniform(s), HeapInv(s), NEW c \in Callers, Fill(c)
  PROVE  LET a == base[c] + HibSz
         IN  /\ Returning(c) /\ hdr' = hdr /\ DOMAIN hib' = DOMAIN hib \cup {a}
             /\ hib' = [x \in DOMAIN hib' |-> hib'[x]]
             /\ hib'[a] \in Hib /\ hib'[a].size = s /\ hib'[a].crc = "none"
             /\ \A x \in DOMAIN hib : x # a => hib'[x] = Touched(base[c])[x]
<1> DEFINE a == base[c] + HibSz
           fresh(flags) == [size |-> req[c], flags |-> flags, crc |-> "none"]
           with(flags) == [x \in DOMAIN hib \cup {a} |->
                             IF x = a THEN fresh(flags) ELSE Touched(base[c])[x]]
<1>1. PICK lo, hi : lo = a + PadOff /\ hi = a + PadOff + PadLen
  OBVIOUS
<1>2. Returning(c) /\ req[c] = s
  BY DEF Fill, Returning, HeapInv, Grid
<1>3. PICK flags \in 0 .. 1 : hib' = Wiped(with(flags), lo, hi)
  BY <1>1 DEF Fill
<1>4. PICK f : f = with(flags)
  OBVIOUS
<1>5. /\ DOMAIN f = DOMAIN hib \cup {a} /\ f = [x \in DOMAIN f |-> f[x]]
      /\ f[a] = fresh(flags)
      /\ \A x \in DOMAIN hib : x # a => f[x] = Touched(base[c])[x]
  BY <1>4
<1>6. /\ IsBlock(base[c], s) /\ base[c] \in Nat /\ lo \in Nat /\ hi \in Nat
      /\ base[c] + HibSz + MagicSz <= lo /\ hi <= base[c] + s
      /\ hi <= base[c] + s + 0 /\ hi <= base[c] + s + HibSz
      /\ 0 \in {0, HibSz} /\ HibSz \in {0, HibSz} /\ Roomy(s)
  BY <1>1, CallFacts, SizeFacts DEF Uniform, Roomy
<1>7. hdr' = Wiped(hdr, lo, hi)
  BY <1>1 DEF Fill
<1>8. hdr = [x \in DOMAIN hdr |-> hdr[x]]
  BY DEF HeapInv, TypeOK
<1>9. hdr' = hdr
  BY <1>6, <1>7, <1>8, HeadersOnGrid, NothingWiped
<1>10. \A x \in DOMAIN f : \E y : IsBlock(y, s) /\ x = y + HibSz
  BY <1>5, <1>6 DEF HeapInv, HibsInBlocks
<1>11. Wiped(f, lo, hi) = f
  BY <1>5, <1>6, <1>10, NothingWiped
<1>12. hib' = f
  BY <1>3, <1>4, <1>11
<1>13. fresh(flags) \in Hib /\ fresh(flags).size = s /\ fresh(flags).crc = "none"
  BY <1>2 DEF Hib, Crc, HeapInv, TypeOK
<1> HIDE DEF with, fresh
<1> QED BY <1>2, <1>5, <1>9, <1>12, <1>13

LEMMA FillStep ==
  ASSUME NEW s \in Nat \ {0}, Uniform(s), HeapInv(s), NEW c \in Callers, Fill(c)
  PROVE  HeapInv(s)'
<1>0. PICK b, a, q : b = base[c] /\ a = base[c] + HibSz /\ q = base[c] + 2 * HibSz
  OBVIOUS
<1>1. /\ Returning(c) /\ UNCHANGED <<hdr, pc, base, req, held, raced, grown, spilt>>
      /\ DOMAIN hib' = DOMAIN hib \cup {a} /\ hib'[a] \in Hib /\ hib'[a].size = s
      /\ hib' = [x \in DOMAIN hib' |-> hib'[x]]
      /\ \A x \in DOMAIN hib : x # a => hib'[x] = Touched(b)[x]
  BY <1>0, FillLeaves DEF Fill
<1>2. /\ IsBlock(b, s) /\ b \in Nat /\ a \in Nat /\ q \in Nat /\ a + HibSz = q
      /\ BlockOf(q) = b /\ HibOf(q) = a /\ q = b + 2 * HibSz /\ a = b + HibSz
      /\ \A d \in Callers : d = c
      /\ \A p \in ptrs : BlockOf(p) = b <=> p = q
  BY <1>0, CallFacts, SizeFacts
<1>3. ptrs' = ptrs \cup {q} /\ op'[c] = "none"
  BY <1>0, <1>2 DEF Fill, HeapInv, HeapTyped
<1>4. TypeOK'
  BY <1>1 DEF HeapInv, TypeOK
<1>5. \A x \in DOMAIN hib : Touched(b)[x] \in Hib /\ Touched(b)[x].size = s
  BY TouchedFacts
<1>6. \A x \in DOMAIN hib' : hib'[x] \in Hib /\ hib'[x].size = s
  BY <1>1, <1>5
<1>7. HeapTyped'
  BY <1>1, <1>2, <1>3, <1>6 DEF HeapInv, HeapTyped, Fill
<1>8. HibsInBlocks(s)'
  BY <1>1, <1>2, <1>6 DEF HeapInv, HibsInBlocks
<1>9. Grid(s)'
  BY <1>1, <1>2, <1>3 DEF HeapInv, Grid, Complete, Fill
<1>10. PointersHeld(s)'
  <2>1. b \notin spilt => b \in DOMAIN hdr /\ hdr[b].used
    BY <1>0, <1>1 DEF HeapInv, CallsInOrder
  <2>2. \A p \in ptrs' : /\ IsBlock(BlockOf(p), s) /\ p = BlockOf(p) + 2 * HibSz
                         /\ HibOf(p) \in DOMAIN hib'
                         /\ BlockOf(p) \notin spilt =>
                              BlockOf(p) \in DOMAIN hdr /\ hdr[BlockOf(p)].used
    BY <1>1, <1>2, <1>3, <2>1 DEF HeapInv, PointersHeld
  <2> QED BY <1>1, <2>2 DEF PointersHeld, BlockOf, HibOf
<1>11. CallsInOrder'
  BY <1>1, <1>2, <1>3 DEF CallsInOrder, Returning, Claiming
<1>12. BlocksOwned'
  <2>1. \A x \in DOMAIN hdr : hdr[x].used => x + 2 * HibSz \in ptrs \/ x = b
    BY <1>0, <1>1, <1>2 DEF HeapInv, BlocksOwned, Returning
  <2> QED BY <1>1, <1>2, <1>3, <2>1 DEF BlocksOwned
<1> QED BY <1>4, <1>7, <1>8, <1>9, <1>10, <1>11, <1>12 DEF HeapInv

(* A store that leaves calls and pointers alone.                           *)
LEMMA HibsStep ==
  ASSUME NEW s \in Nat \ {0}, HeapInv(s),
         UNCHANGED <<hdr, pc, base, req, held, raced, grown, op, ptrs, spilt>>,
         hib' \in [DOMAIN hib -> Hib], \A a \in DOMAIN hib : hib'[a].size = s
  PROVE  HeapInv(s)'
<1>1. DOMAIN hib' = DOMAIN hib
  OBVIOUS
<1>2. TypeOK' /\ HeapTyped'
  BY <1>1 DEF HeapInv, TypeOK, HeapTyped
<1>3. HibsInBlocks(s)'
  BY <1>1 DEF HeapInv, HibsInBlocks
<1>4. Grid(s)' /\ CallsInOrder' /\ BlocksOwned'
  BY DEF HeapInv, Grid, Complete, CallsInOrder, Returning, BlocksOwned
<1>5. PointersHeld(s)'
  BY <1>1 DEF HeapInv, PointersHeld, HibOf, BlockOf
<1> QED BY <1>2, <1>3, <1>4, <1>5 DEF HeapInv

(* The owner's store hits no information block.                            *)
LEMMA WriteLeaves ==
  ASSUME NEW s \in Nat \ {0}, Uniform(s), HeapInv(s), NEW p \in ptrs, WriteData(p)
  PROVE  \E hi \in {BlockOf(p) + s, BlockOf(p) + s + HibSz} :
           hi \in Nat /\ hib' = Resummed(p, hi) /\ hdr' = Wiped(hdr, p, hi)
<1>1. /\ BlockOf(p) \in Nat /\ IsBlock(BlockOf(p), s) /\ p = BlockOf(p) + 2 * HibSz
      /\ hib[HibOf(p)].size = s
  BY PointerFacts
<1>2. PICK hi \in {BlockOf(p) + s, BlockOf(p) + s + HibSz} :
        /\ hdr' = Wiped(hdr, p, hi)
        /\ hib' = Wiped(Resummed(p, hi), p, hi)
  BY <1>1 DEF WriteData
<1>3. PICK f : f = Resummed(p, hi)
  OBVIOUS
<1>4. /\ DOMAIN f = DOMAIN hib /\ f = [x \in DOMAIN f |-> f[x]]
  BY <1>3 DEF Resummed
<1>5. \A x \in DOMAIN f : \E y : IsBlock(y, s) /\ x = y + HibSz
  BY <1>4 DEF HeapInv, HibsInBlocks
<1>6. /\ p \in Nat /\ hi \in Nat /\ HibSz \in {0, HibSz} /\ Roomy(s)
      /\ BlockOf(p) + HibSz + MagicSz <= p /\ hi <= BlockOf(p) + s + HibSz
  BY <1>1, SizeFacts DEF Uniform, Roomy
<1>7. Wiped(f, p, hi) = f
  BY <1>1, <1>4, <1>5, <1>6, NothingWiped
<1> QED BY <1>2, <1>3, <1>6, <1>7

LEMMA WriteStep ==
  ASSUME NEW s \in Nat \ {0}, Uniform(s), HeapInv(s), NEW p \in ptrs, WriteData(p)
  PROVE  HeapInv(s)'
<1>1. PICK hi : hib' = Resummed(p, hi) /\ hdr' = Wiped(hdr, p, hi)
  BY WriteLeaves
<1>2. hib' \in [DOMAIN hib -> Hib] /\ \A a \in DOMAIN hib : hib'[a].size = s
  BY <1>1, ResummedFacts DEF HeapInv, HeapTyped, HibsInBlocks
<1>3. /\ UNCHANGED <<pc, base, req, held, raced, grown, op, ptrs>>
      /\ spilt' = spilt \cup (DOMAIN hdr \ DOMAIN hdr')
  BY DEF WriteData
<1>4. /\ DOMAIN hdr' \subseteq DOMAIN hdr
      /\ hdr' = [a \in DOMAIN hdr' |-> hdr'[a]]
      /\ \A a \in DOMAIN hdr' : hdr'[a] = hdr[a]
  BY <1>1 DEF Wiped
<1>5. DOMAIN hib' = DOMAIN hib
  BY <1>2
<1>6. TypeOK'
  <2>1. hdr' \in [DOMAIN hdr' -> Header]
    BY <1>4 DEF HeapInv, TypeOK
  <2> QED BY <1>3, <1>4, <2>1 DEF HeapInv, TypeOK
<1>7. HeapTyped' /\ HibsInBlocks(s)'
  BY <1>2, <1>3, <1>5 DEF HeapInv, HeapTyped, HibsInBlocks, TypeOK
<1>8. Grid(s)'
  BY <1>3, <1>4 DEF HeapInv, Grid, Complete
<1>9. \A a \in DOMAIN hdr : a \notin spilt' => a \in DOMAIN hdr'
  BY <1>3
<1>10. PointersHeld(s)'
  <2>1. \A q \in ptrs : BlockOf(q) \notin spilt' =>
           BlockOf(q) \in DOMAIN hdr' /\ hdr'[BlockOf(q)].used
    BY <1>3, <1>4, <1>9 DEF HeapInv, PointersHeld
  <2> QED BY <1>3, <1>5, <2>1 DEF HeapInv, PointersHeld, BlockOf, HibOf
<1>11. CallsInOrder'
  <2>1. \A c \in Callers : base[c] \notin spilt' => base[c] \notin spilt
    BY <1>3
  <2> QED BY <1>3, <1>4, <1>9, <2>1 DEF HeapInv, CallsInOrder, Returning
<1>12. BlocksOwned'
  BY <1>3, <1>4 DEF HeapInv, BlocksOwned
<1> QED BY <1>6, <1>7, <1>8, <1>10, <1>11, <1>12 DEF HeapInv

LEMMA SetHibStep ==
  ASSUME NEW s \in Nat \ {0}, HeapInv(s), NEW p \in ptrs,
         MakePage(p) \/ Protect(p) \/ \E flags \in 0 .. 1 : MakeFlags(p, flags)
  PROVE  /\ HeapInv(s)'
         /\ hib'[HibOf(p)].crc \in {hib[HibOf(p)].crc, "match"}
         /\ \A a \in DOMAIN hib : a # HibOf(p) => hib'[a] = Touched(BlockOf(p))[a]
<1>1. HibOf(p) \in DOMAIN hib /\ hib[HibOf(p)] \in Hib /\ hib[HibOf(p)].size = s
  BY PointerFacts DEF HeapInv, HeapTyped
<1>2. PICK h \in Hib : /\ h.size = s /\ h.crc \in {hib[HibOf(p)].crc, "match"} /\ SetHib(p, h)
  <2>1. CASE MakePage(p)
    BY <1>1, <2>1 DEF MakePage
  <2>2. CASE Protect(p)
    <3> DEFINE h == [hib[HibOf(p)] EXCEPT !.crc = "match"]
    <3>1. h \in Hib /\ h.size = s /\ h.crc = "match"
      BY <1>1 DEF Hib, Crc
    <3> QED BY <2>2, <3>1 DEF Protect
  <2>3. ASSUME NEW flags \in 0 .. 1, MakeFlags(p, flags)
        PROVE  \E h \in Hib : /\ h.size = s /\ h.crc \in {hib[HibOf(p)].crc, "match"}
                              /\ SetHib(p, h)
    <3> DEFINE h == [hib[HibOf(p)] EXCEPT !.flags = flags]
    <3>1. h \in Hib /\ h.size = s /\ h.crc = hib[HibOf(p)].crc
      BY <1>1 DEF Hib
    <3> QED BY <2>3, <3>1 DEF MakeFlags
  <2> QED BY <2>1, <2>2, <2>3
<1>3. /\ hib' = [Touched(BlockOf(p)) EXCEPT ![HibOf(p)] = h]
      /\ UNCHANGED <<hdr, pc, base, req, held, raced, grown, op, ptrs, spilt>>
  BY <1>2 DEF SetHib, bitmapVars
<1>4. /\ DOMAIN Touched(BlockOf(p)) = DOMAIN hib
      /\ Touched(BlockOf(p)) \in [DOMAIN hib -> Hib]
      /\ \A a \in DOMAIN hib : Touched(BlockOf(p))[a].size = s
  BY TouchedFacts
<1>5. hib' \in [DOMAIN hib -> Hib] /\ \A a \in DOMAIN hib : hib'[a].size = s
  BY <1>1, <1>2, <1>3, <1>4
<1>6. /\ hib'[HibOf(p)] = h
      /\ \A a \in DOMAIN hib : a # HibOf(p) => hib'[a] = Touched(BlockOf(p))[a]
  BY <1>1, <1>3, <1>4
<1>7. HeapInv(s)'
  BY <1>3, <1>5, HibsStep
<1> QED BY <1>2, <1>6, <1>7

LEMMA DeleteStep ==
  ASSUME NEW s \in Nat \ {0}, Uniform(s), HeapInv(s), NEW p \in ptrs, DeleteHeap(p)
  PROVE  HeapInv(s)'
<1>0. PICK b : b = BlockOf(p)
  OBVIOUS
<1>1. /\ hib' = [a \in DOMAIN hib \ {HibOf(p)} |-> Touched(b)[a]]
      /\ ptrs' = ptrs \ {p} /\ held' = held \ {b}
      /\ UNCHANGED <<pc, base, req, op, raced, grown, spilt>>
      /\ hdr' = Reused(b, FALSE)
  BY <1>0 DEF DeleteHeap, Free
<1>2. /\ DOMAIN hdr' = DOMAIN hdr /\ hdr' \in [DOMAIN hdr -> Header]
      /\ \A a \in DOMAIN hdr : hdr'[a].size = hdr[a].size
      /\ \A a \in DOMAIN hdr : a # b => hdr'[a].used = hdr[a].used
      /\ b \in DOMAIN hdr => ~hdr'[b].used
  BY <1>1 DEF Reused, HeapInv, TypeOK, Header
<1>3. /\ DOMAIN Touched(b) = DOMAIN hib
      /\ Touched(b) \in [DOMAIN hib -> Hib]
      /\ \A a \in DOMAIN hib : Touched(b)[a].size = s
  BY TouchedFacts
<1>4. TypeOK'
  BY <1>1, <1>2 DEF HeapInv, TypeOK
<1>5. HeapTyped' /\ HibsInBlocks(s)'
  BY <1>1, <1>3 DEF HeapInv, HeapTyped, HibsInBlocks
<1>6. ASSUME NEW q \in ptrs, q # p
      PROVE  BlockOf(q) # b /\ HibOf(q) # HibOf(p)
  BY <1>0, <1>6, PointerFacts, SizeFacts
<1>7. Grid(s)'
  BY <1>1, <1>2 DEF HeapInv, Grid, Complete
<1>8. PointersHeld(s)'
  <2>1. \A q \in ptrs' : /\ IsBlock(BlockOf(q), s) /\ q = BlockOf(q) + 2 * HibSz
                         /\ HibOf(q) \in DOMAIN hib'
                         /\ BlockOf(q) \notin spilt =>
                              BlockOf(q) \in DOMAIN hdr' /\ hdr'[BlockOf(q)].used
    BY <1>1, <1>2, <1>6, PointerFacts DEF HeapInv, PointersHeld
  <2> QED BY <1>1, <2>1 DEF PointersHeld, HibOf, BlockOf
<1>9. CallsInOrder'
  <2>1. ASSUME NEW c \in Callers, base[c] \notin spilt, Returning(c)
        PROVE  base[c] # b
    <3>1. base[c] + 2 * HibSz \notin ptrs
      BY <2>1 DEF HeapInv, CallsInOrder
    <3> QED BY <1>0, <3>1, PointerFacts
  <2> QED BY <1>1, <1>2, <2>1 DEF HeapInv, CallsInOrder, Returning
<1>10. BlocksOwned'
  <2>1. \A a \in DOMAIN hdr : hdr'[a].used => hdr[a].used /\ a # b /\ a \in Nat
    BY <1>2 DEF HeapInv, TypeOK
  <2>2. p = b + 2 * HibSz /\ b \in Nat
    BY <1>0, PointerFacts
  <2>3. \A a \in DOMAIN hdr : hdr'[a].used => a + 2 * HibSz # p
    BY <2>1, <2>2, SizeFacts
  <2> QED BY <1>1, <1>2, <2>1, <2>3 DEF HeapInv, BlocksOwned
<1> QED BY <1>4, <1>5, <1>7, <1>8, <1>9, <1>10 DEF HeapInv

LEMMA HeapInductive ==
  ASSUME NEW s \in Nat \ {0}, Uniform(s), HeapInv(s), [HeapNext]_heapVars
  PROVE  HeapInv(s)'
<1>1. CASE UNCHANGED heapVars
  <2>1. hib \in [DOMAIN hib -> Hib] /\ \A a \in DOMAIN hib : hib[a].size = s
    BY DEF HeapInv, HibsInBlocks, HeapTyped
  <2> QED BY <1>1, <2>1, HibsStep DEF heapVars, bitmapVars
<1>2. ASSUME NEW c \in Callers, WalkHeap(c) PROVE HeapInv(s)'
  BY <1>2, ReadStep, MarkStep, SizeStep, TakeStep DEF WalkHeap
<1> QED BY <1>1, <1>2, NewHeapStep, FillStep, WriteStep, DeleteStep, SetHibStep DEF HeapNext

LEMMA HeapInitial == ASSUME NEW s \in Nat \ {0}, HeapInit PROVE HeapInv(s)
<1>1. TypeOK
  BY BitMapAssumption DEF HeapInit, Init, TypeOK, Header
<1>2. IsBlock(Base, s)
  <2>1. Base = Block(0, s)
    BY BlockStep
  <2> QED BY <2>1 DEF IsBlock
<1>3. Grid(s)
  BY <1>2 DEF HeapInit, Init, Grid
<1>4. HeapTyped /\ HibsInBlocks(s) /\ PointersHeld(s) /\ CallsInOrder /\ BlocksOwned
  BY DEF HeapInit, Init, HeapTyped, HibsInBlocks, PointersHeld, CallsInOrder, BlocksOwned,
         Returning, Claiming
<1> QED BY <1>1, <1>3, <1>4 DEF HeapInv

LEMMA HeapInvariant ==
  ASSUME NEW s \in Nat \ {0}, Uniform(s)
  PROVE  HeapSpec => []HeapInv(s)
<1>1. HeapInit => HeapInv(s)
  BY HeapInitial
<1>2. HeapInv(s) /\ [HeapNext]_heapVars => HeapInv(s)'
  BY HeapInductive
<1> QED BY <1>1, <1>2, PTL DEF HeapSpec
-----------------------------------------------------------------------------
(* The theorems below are about HeapSpec with blocks of one size, whose    *)
(* owners store as many bytes as they asked for.                           *)

(* Everything the heap keeps has its type (Heap.cc:108-345).               *)
THEOREM HeapTypeCorrect ==
  ASSUME NEW s \in Nat \ {0}, Uniform(s)
  PROVE  HeapSpec => []HeapTypeOK
<1>1. HeapInv(s) => HeapTypeOK
  BY DEF HeapInv, HeapTyped, HeapTypeOK
<1> QED BY <1>1, HeapInvariant, PTL

(* Every live pointer has its information block, and a used header of the  *)
(* same size unless the data of the block in front destroyed it; no block  *)
(* in use is owned by nobody (mm_delete_heap, Heap.cc:213-250).            *)
THEOREM PointersBackedBlocksOwned ==
  ASSUME NEW s \in Nat \ {0}, Uniform(s)
  PROVE  HeapSpec => []PointersAndBlocks
<1>1. HeapInv(s) => PointersAndBlocks
  <2> SUFFICES ASSUME HeapInv(s) PROVE PointersAndBlocks
    OBVIOUS
  <2>1. ASSUME NEW p \in ptrs, BlockOf(p) \notin spilt
        PROVE  /\ BlockOf(p) \in DOMAIN hdr /\ hdr[BlockOf(p)].used
               /\ hdr[BlockOf(p)].size = s
    <3>1. BlockOf(p) \in DOMAIN hdr /\ hdr[BlockOf(p)].used
      BY <2>1 DEF HeapInv, PointersHeld
    <3>2. ASSUME NEW c \in Callers, pc[c] = "size", base[c] = BlockOf(p) PROVE FALSE
      <4>1. base[c] + 2 * HibSz = p
        BY <3>2, CallFacts
      <4> QED BY <2>1, <3>2, <4>1 DEF HeapInv, CallsInOrder, Claiming
    <3> QED BY <3>1, <3>2 DEF HeapInv, Grid, Complete
  <2>2. PointersBacked
    BY <2>1, PointerFacts DEF PointersBacked
  <2> QED BY <2>2 DEF PointersAndBlocks, HeapInv
<1> QED BY <1>1, HeapInvariant, PTL

(* mm_new_heap returns a pointer somebody still has only into a block      *)
(* whose header the data in front of it destroyed (Heap.cc:119).           *)
THEOREM PointersAreFresh ==
  ASSUME NEW s \in Nat \ {0}, Uniform(s)
  PROVE  HeapSpec => []PointersFresh
<1>1. HeapInv(s) => PointersFresh
  BY DEF HeapInv, CallsInOrder, Returning, PointersFresh
<1> QED BY <1>1, HeapInvariant, PTL

-----------------------------------------------------------------------------
(* A store to the headers of the block at b is in the sum of the block     *)
(* right before it and, of the others, in its own only.                    *)
LEMMA SumsReach ==
  ASSUME NEW s \in Nat \ {0}, Uniform(s), HeapInv(s), NEW p \in ptrs,
         NEW b, IsBlock(b, s), Touched(b)[HibOf(p)] # hib[HibOf(p)]
  PROVE  b = BlockOf(p) + s
<1>1. Summed(HibOf(p), b, b + 2 * HibSz) /\ HibOf(p) \in DOMAIN hib
  BY PointerFacts, ResummedFacts DEF Touched, HeapInv, HeapTyped
<1>3. /\ b \in Nat /\ BlockOf(p) \in Nat
      /\ BlockOf(p) + 2 * HibSz < b + 2 * HibSz
      /\ b < BlockOf(p) + 2 * HibSz + s
  BY <1>1, BlocksApart, PointerFacts, SizeFacts DEF Summed
<1>4. BlockOf(p) < b /\ b < BlockOf(p) + s + s
  BY <1>3, SizeFacts DEF Uniform, Roomy
<1>5. IsBlock(BlockOf(p) + s, s)
  BY PointerFacts, NextBlock
<1>6. BlockOf(p) + s <= b /\ ~(BlockOf(p) + s < b)
  BY <1>3, <1>4, <1>5, BlocksApart, PointerFacts
<1> QED BY <1>3, <1>6

(* A checksum goes stale by a store of the pointer's owner, or by one to   *)
(* the headers of the block right behind, which mm_protect_heap's sum runs *)
(* into: nothing further away disturbs it (Heap.cc:315-345).               *)
THEOREM ChecksumsLocal ==
  ASSUME NEW s \in Nat \ {0}, Uniform(s)
  PROVE  HeapSpec => ChecksumLocal
<1> DEFINE Excused(p) == WriteData(p) \/ BlockChanges(BlockOf(p) + hib[HibOf(p)].size)
           Local == \A p \in ptrs \cap ptrs' :
                      hib[HibOf(p)].crc = "match" /\ hib'[HibOf(p)].crc = "stale" => Excused(p)
<1>1. HeapInv(s) /\ [HeapNext]_heapVars => [Local]_heapVars
  <2> SUFFICES ASSUME HeapInv(s), HeapNext,
                      NEW p \in ptrs, p \in ptrs',
                      hib[HibOf(p)].crc = "match", hib'[HibOf(p)].crc = "stale"
               PROVE  Excused(p)
    OBVIOUS
  <2>1. /\ HibOf(p) \in DOMAIN hib /\ hib[HibOf(p)].size = s
        /\ hib'[HibOf(p)] # hib[HibOf(p)]
    BY PointerFacts
  <2>2. ASSUME NEW b, IsBlock(b, s), hib'[HibOf(p)] = Touched(b)[HibOf(p)], BlockChanges(b)
        PROVE  Excused(p)
    BY <2>1, <2>2, SumsReach
  <2>3. ASSUME NEW c \in Callers, NEW size \in Sizes, NewHeap(c, size) PROVE FALSE
    BY <2>1, <2>3 DEF NewHeap
  <2>4. ASSUME NEW c \in Callers, WalkHeap(c) PROVE Excused(p)
    <3>1. hib' = Touched(base[c])
      BY <2>1, <2>4 DEF WalkHeap
    <3>2. IsBlock(base[c], s)
      BY CallFacts
    <3>3. BlockChanges(base[c])
      BY <2>4 DEF BlockChanges
    <3> QED BY <2>2, <3>1, <3>2, <3>3
  <2>5. ASSUME NEW c \in Callers, Fill(c) PROVE Excused(p)
    <3>1. HibOf(p) # base[c] + HibSz
      <4>1. CASE HibOf(p) = base[c] + HibSz
        <5>1. hib'[HibOf(p)].crc = "none"
          BY <2>5, <4>1, FillLeaves
        <5> QED BY <5>1
      <4> QED BY <4>1
    <3>3. hib'[HibOf(p)] = Touched(base[c])[HibOf(p)]
      BY <2>1, <2>5, <3>1, FillLeaves
    <3>4. IsBlock(base[c], s)
      BY CallFacts
    <3>5. BlockChanges(base[c])
      BY <2>5 DEF BlockChanges
    <3> QED BY <2>2, <3>3, <3>4, <3>5
  <2>6. ASSUME NEW q \in ptrs, WriteData(q) PROVE Excused(p)
    <3>1. PICK hi \in {BlockOf(q) + s, BlockOf(q) + s + HibSz} :
            hi \in Nat /\ hib' = Resummed(q, hi)
      BY <2>6, WriteLeaves
    <3>2. Summed(HibOf(p), q, hi)
      BY <2>1, <3>1, ResummedFacts DEF HeapInv, HeapTyped
    <3>3. /\ BlockOf(p) \in Nat /\ BlockOf(q) \in Nat
          /\ BlockOf(p) < BlockOf(q) + s /\ BlockOf(q) < BlockOf(p) + s
      BY <2>1, <3>1, <3>2, PointerFacts, SizeFacts DEF Summed
    <3>4. BlockOf(p) = BlockOf(q)
      BY <3>3, PointerFacts, BlocksApart
    <3>5. p = q
      BY <3>4, PointerFacts
    <3> QED BY <2>6, <3>5
  <2>7. ASSUME NEW q \in ptrs, DeleteHeap(q) PROVE Excused(p)
    <3>1. p # q
      BY <2>7 DEF DeleteHeap
    <3>2. HibOf(p) # HibOf(q)
      BY <3>1, PointerFacts, SizeFacts
    <3>3. hib'[HibOf(p)] = Touched(BlockOf(q))[HibOf(p)]
      BY <2>1, <2>7, <3>2 DEF DeleteHeap
    <3>4. BlockChanges(BlockOf(q))
      BY <2>7 DEF BlockChanges
    <3> QED BY <2>2, <3>3, <3>4, PointerFacts
  <2>8. ASSUME NEW q \in ptrs,
               MakePage(q) \/ Protect(q) \/ \E flags \in 0 .. 1 : MakeFlags(q, flags)
        PROVE  Excused(p)
    <3>1. p # q
      BY <2>8, SetHibStep
    <3>2. HibOf(p) # HibOf(q)
      BY <3>1, PointerFacts, SizeFacts
    <3>3. hib'[HibOf(p)] = Touched(BlockOf(q))[HibOf(p)]
      BY <2>1, <2>8, <3>2, SetHibStep
    <3>4. BlockChanges(BlockOf(q))
      BY <2>8 DEF BlockChanges
    <3> QED BY <2>2, <3>3, <3>4, PointerFacts
  <2> QED BY <2>3, <2>4, <2>5, <2>6, <2>7, <2>8 DEF HeapNext
<1> QED BY <1>1, HeapInvariant, PTL DEF HeapSpec, ChecksumLocal
=============================================================================
