-------------------------------- MODULE Heap --------------------------------
(***************************************************************************)
(* The kernel heap (dev/Kernel/src/Heap.cc) over the bitmap allocator.     *)
(* Addresses are bytes.  A block at b of `size' bytes holds                *)
(*     b           the bitmap header (HdrSz bytes)                         *)
(*     b + HibSz   the heap information block, HIB (HibSz bytes)           *)
(*     b + 2*HibSz the caller's data, size - HibSz bytes of it,            *)
(* so that the data ends HibSz bytes after the block, on the next header.  *)
(* Two writes may hit a neighbour's header or HIB: the caller's own data,  *)
(* and the clearing of fPadding, which rt_set_memory does in 4-byte units. *)
(* A header or HIB whose magic number is hit stops being one.              *)
(* A request is named by its block size: mm_new_heap(size - HibSz).        *)
(***************************************************************************)
EXTENDS BitMap

CONSTANTS
  HibSz,    \* sizeof(HEAP_INFORMATION_BLOCK), packed
  PadOff,   \* offset of fPadding in it
  PadLen,   \* bytes cleared at fPadding: 4 * kKernelHeapAlignSz
  MagicSz   \* bytes of a magic number that are not zero

ASSUME HeapAssumption ==
  /\ {HibSz, PadOff, PadLen, MagicSz} \subseteq Nat \ {0}
  /\ \A size \in Sizes : size > HibSz

VARIABLES
  hib,      \* HIB of the addresses that carry the heap magic number
  op,       \* which callers are inside mm_new_heap
  ptrs,     \* the pointers mm_new_heap returned and nobody deleted since
  spilt     \* blocks whose header somebody's data destroyed

heapVars == <<bitmapVars, hib, op, ptrs, spilt>>

Crc == {"none", "match", "stale"}   \* fCRC32 against the checksum of the data

Hib == [size : Nat, flags : 0 .. 1, crc : Crc]

HeapTypeOK ==
  /\ TypeOK
  /\ DOMAIN hib \subseteq Nat
  /\ hib \in [DOMAIN hib -> Hib]
  /\ op \in [Callers -> {"none", "new"}]
  /\ ptrs \subseteq Nat
  /\ spilt \subseteq Nat

HibOf(p) == p - HibSz
BlockOf(p) == p - 2 * HibSz
-----------------------------------------------------------------------------
(* Mutated forms of the definitions below.                                 *)
WipedOneMore(f, lo, hi) ==
  [a \in {x \in DOMAIN f : x + MagicSz <= lo \/ x > hi} |-> f[a]]

SummedTwice(a, lo, hi) == a + HibSz < hi /\ lo < a + HibSz + 3 * hib[a].size

MakeFlagsAdds(p, flags) ==
  /\ HibOf(p) \in DOMAIN hib
  /\ hib' = [hib EXCEPT ![HibOf(p)].flags = @ + flags]
  /\ UNCHANGED <<bitmapVars, op, ptrs, spilt>>
-----------------------------------------------------------------------------
(* Writing the bytes lo .. hi - 1.                                         *)
Wiped(f, lo, hi) ==
  [a \in {x \in DOMAIN f : x + MagicSz <= lo \/ x >= hi} |-> f[a]]

(* mm_protect_heap sums fHeapSize bytes from fHeapPtr: the block size, not *)
(* the data's, so the sum covers 2 * HibSz bytes past the block.           *)
Summed(a, lo, hi) == a + HibSz < hi /\ lo < a + HibSz + hib[a].size

Resummed(lo, hi) ==
  [a \in DOMAIN hib |->
     IF hib[a].crc = "match" /\ Summed(a, lo, hi)
     THEN [hib[a] EXCEPT !.crc = "stale"] ELSE hib[a]]

(* A store to the header or the HIB of the block at b.                     *)
Touched(b) == Resummed(b, b + 2 * HibSz)
-----------------------------------------------------------------------------
HeapInit ==
  /\ Init
  /\ hib = [a \in {} |-> 0]
  /\ op = [c \in Callers |-> "none"]
  /\ ptrs = {} /\ spilt = {}

(* mm_new_heap: 0 returns nullptr, MUST_PASS bounds the size, then Request *)
NewHeap(c, size) ==
  /\ op[c] = "none"
  /\ Cardinality(ptrs) < MaxBlocks
  /\ Request(c, size)
  /\ op' = [op EXCEPT ![c] = "new"]
  /\ UNCHANGED <<hib, ptrs, spilt>>

ReadWords(c) == Look(c) \/ LookUsed(c) \/ LookMagic(c) \/ Advance(c)

(* A block marked while no live pointer is into it starts anew.            *)
WalkHeap(c) ==
  /\ \/ ReadWords(c) /\ UNCHANGED <<hib, spilt>>
     \/ /\ StoreMagic(c)
        /\ hib' = Touched(base[c])
        /\ spilt' = IF base[c] + 2 * HibSz \in ptrs THEN spilt ELSE spilt \ {base[c]}
     \/ (StoreSize(c) \/ Take(c)) /\ hib' = Touched(base[c]) /\ UNCHANGED spilt
  /\ UNCHANGED <<op, ptrs>>

(* ... then it fills the HIB, fFlags left as they were in memory, and      *)
(* clears fPadding.                                                        *)
Fill(c) ==
  LET a == base[c] + HibSz
      fresh(flags) == [size |-> req[c], flags |-> flags, crc |-> "none"]
      with(flags) ==
        [x \in DOMAIN hib \cup {a} |->
           IF x = a THEN fresh(flags) ELSE Touched(base[c])[x]]
  IN
  /\ op[c] = "new" /\ pc[c] = "idle"
  /\ \E flags \in 0 .. 1 :
       /\ a \in DOMAIN hib => flags = hib[a].flags
       /\ hib' = Wiped(with(flags), a + PadOff, a + PadOff + PadLen)
  /\ hdr' = Wiped(hdr, a + PadOff, a + PadOff + PadLen)
  /\ ptrs' = ptrs \cup {a + HibSz}
  /\ op' = [op EXCEPT ![c] = "none"]
  /\ UNCHANGED <<pc, base, req, held, raced, grown, spilt>>

(* The owner stores into the data of p, from its start: up to the end of   *)
(* its block, or the size - HibSz bytes it asked for.                      *)
WriteData(p) ==
  LET end == BlockOf(p) + hib[HibOf(p)].size IN
  /\ HibOf(p) \in DOMAIN hib
  /\ \E hi \in {end, end + HibSz} :
       /\ hi > p
       /\ hdr' = Wiped(hdr, p, hi)
       /\ hib' = Wiped(Resummed(p, hi), p, hi)
  /\ spilt' = spilt \cup (DOMAIN hdr \ DOMAIN hdr')
  /\ UNCHANGED <<pc, base, req, held, raced, grown, op, ptrs>>

(* mm_delete_heap.  Without the magic number it returns kErrorInternal;    *)
(* what mm_free_bitmap answers is not looked at.                           *)
DeleteHeap(p) ==
  /\ HibOf(p) \in DOMAIN hib
  /\ hib' = [a \in DOMAIN hib \ {HibOf(p)} |-> Touched(BlockOf(p))[a]]
  /\ Free(BlockOf(p))
  /\ ptrs' = ptrs \ {p}
  /\ UNCHANGED <<op, spilt>>

SetHib(p, h) ==
  /\ HibOf(p) \in DOMAIN hib
  /\ hib' = [Touched(BlockOf(p)) EXCEPT ![HibOf(p)] = h]
  /\ UNCHANGED <<bitmapVars, op, ptrs, spilt>>

(* mm_make_page and mm_make_flags check the pointer, never the magic; on a *)
(* live pointer that makes no difference.  Nobody reads fPagePtr, but a    *)
(* checksum that covers it notices the store.                              *)
MakePage(p) == SetHib(p, hib[HibOf(p)])

MakeFlags(p, flags) == SetHib(p, [hib[HibOf(p)] EXCEPT !.flags = flags])

Protect(p) == SetHib(p, [hib[HibOf(p)] EXCEPT !.crc = "match"])

HeapNext ==
  \/ \E c \in Callers : \/ \E size \in Sizes : NewHeap(c, size)
                        \/ WalkHeap(c)
                        \/ Fill(c)
  \/ \E p \in ptrs : \/ WriteData(p)
                     \/ DeleteHeap(p)
                     \/ MakePage(p)
                     \/ \E flags \in 0 .. 1 : MakeFlags(p, flags)
                     \/ Protect(p)

HeapSpec == HeapInit /\ [][HeapNext]_heapVars
-----------------------------------------------------------------------------
(* A live pointer has its HIB, whatever the owners store: their data ends  *)
(* where the next HIB begins.  Under it is a header that says used and has *)
(* the HIB's size, unless the data of the block in front destroyed it: so  *)
(* deleting it finds both (mm_delete_heap, 223-246).                       *)
PointersBacked ==
  \A p \in ptrs :
    /\ HibOf(p) \in DOMAIN hib
    /\ BlockOf(p) \notin spilt =>
         /\ BlockOf(p) \in DOMAIN hdr /\ hdr[BlockOf(p)].used
         /\ hib[HibOf(p)].size = hdr[BlockOf(p)].size

(* Every block in use belongs to a live pointer or to a call to            *)
(* mm_new_heap still on its way: no block leaks, destroyed headers or not. *)
BlocksOwned ==
  \A a \in DOMAIN hdr : hdr[a].used =>
    \/ a + 2 * HibSz \in ptrs
    \/ \E c \in Callers : /\ op[c] = "new" /\ base[c] = a
                         /\ pc[c] \in {"size", "take", "idle"}

PointersAndBlocks == PointersBacked /\ BlocksOwned

(* mm_new_heap is about to return a pointer that nobody holds; one that    *)
(* somebody holds only when its header was destroyed by the data of the    *)
(* block in front.                                                         *)
PointersFresh ==
  \A c \in Callers : op[c] = "new" /\ pc[c] = "idle" =>
    base[c] + 2 * HibSz \notin ptrs \/ base[c] \in spilt

(* A checksum goes stale only by a store of the owner or by one to the     *)
(* header or HIB of the block right behind, which the sum runs into: no    *)
(* allocation or deletion further away disturbs it (mm_protect_heap).      *)
BlockChanges(b) ==
  \/ \E c \in Callers : base[c] = b /\ (WalkHeap(c) \/ Fill(c))
  \/ \E q \in ptrs :
       /\ BlockOf(q) = b
       /\ DeleteHeap(q) \/ MakePage(q) \/ Protect(q)
            \/ \E flags \in 0 .. 1 : MakeFlags(q, flags)

ChecksumLocal ==
  [][\A p \in ptrs \cap ptrs' :
       hib[HibOf(p)].crc = "match" /\ hib'[HibOf(p)].crc = "stale"
         => WriteData(p) \/ BlockChanges(BlockOf(p) + hib[HibOf(p)].size)]_heapVars
=============================================================================
