------------------------------ MODULE NeFSProofs ------------------------------
(***************************************************************************)
(* Theorems about the catalogs, for any set of names, any tree of parents, *)
(* any list of folders and any number of power losses.                     *)
(***************************************************************************)
EXTENDS NeFS, FiniteSetTheorems, TLAPS

Live == {s \in Slots : IsCreated(s)}

(* The live entries are a prefix of the chain, each linked to the next.    *)
Linked ==
  \A s \in Slots : IsCreated(s) =>
    \A r \in 1 .. s : IsCreated(r) /\ cat[r].next = r + 1

(* What a call is about to write was read before power could be lost, and  *)
(* nobody else wrote since: the slot is the first one free and the name is *)
(* new, or the entry to be marked is live.                                 *)
EntryIsNext ==
  op.at = "entry" =>
    /\ op.name \in Names /\ op.slot \in Slots /\ ~IsCreated(op.slot)
    /\ \A r \in 1 .. (op.slot - 1) : IsCreated(r)
    /\ \A s \in Slots : IsCreated(s) => cat[s].name # op.name

MarkIsLive == op.at = "mark" => op.slot = 0 \/ op.slot \in Live

Named(n) == \E s \in Slots : IsCreated(s) /\ cat[s].name = n

CountIsOfEntry ==
  op.at = "countUp" => op.name \in Names /\ (readOnly \/ Named(op.name))

(* A drive without a superblock is blank.  A read-only drive stays so: its *)
(* superblock is valid, so no boot will write block 0 again.               *)
BlankOrValid ==
  /\ ~super.valid => op.at = "boot" /\ promised = {} /\ Live = {}
  /\ readOnly => super.valid /\ ~epm /\ op.at # "epm"

PromisesNamed == readOnly \/ \A n \in promised : Named(n)

(* How far FreeCatalog is ahead, by where the call under way is.           *)
Ahead == super.free + Cardinality(Live) - Total
CountsFit ==
  /\ op.at \in {"entry", "countUp"} => super.free >= 1
  /\ super.valid =>
       IF op.at = "countUp" /\ ~readOnly THEN Ahead \in 1 .. (crashes + 1)
                                         ELSE Ahead \in 0 .. crashes

Pending == EntryIsNext /\ MarkIsLive /\ CountIsOfEntry

IInv == /\ TypeOK /\ Linked /\ UniqueNames /\ Pending
        /\ BlankOrValid /\ PromisesNamed /\ CountsFit
-----------------------------------------------------------------------------
LEMMA SlotFacts ==
  /\ Cardinality(Names) \in Nat
  /\ Slots = 1 .. (Cardinality(Names) + 1)
  /\ IsFiniteSet(Slots)
<1>1. Cardinality(Names) \in Nat
  BY NeFSAssumption, FS_CardinalityType
<1>2. IsFiniteSet(Slots)
  BY <1>1, FS_Interval DEF Slots
<1> QED BY <1>1, <1>2 DEF Slots

LEMMA LiveCount == IsFiniteSet(Live) /\ Cardinality(Live) \in Nat
<1>1. IsFiniteSet(Live)
  BY SlotFacts, FS_Subset DEF Live
<1> QED BY <1>1, FS_CardinalityType

(* FindCatalog's walk meets what is live, so a name is found exactly when  *)
(* some live entry has it; with unique names it is found there.            *)
LEMMA NamedIsFound == ASSUME Linked, NEW n PROVE Exists(n) <=> Named(n)
<1>1. \A s \in Slots : IsCreated(s) => s \in Reached
  BY SlotFacts DEF Linked, Reached
<1> QED BY <1>1 DEF Exists, Matches, Named, Reached

LEMMA FoundIsLive ==
  ASSUME Linked, UniqueNames, NEW n, Exists(n)
  PROVE  SlotOf(n) \in Live /\ cat[SlotOf(n)].name = n
<1>1. PICK s \in Matches(n) : TRUE
  BY DEF Exists
<1>2. \A r \in Matches(n) : r = s
  BY <1>1 DEF Matches, Reached, UniqueNames
<1>3. s <= s
  BY <1>1, SlotFacts DEF Matches, Reached
<1>4. SlotOf(n) \in Matches(n)
  BY <1>1, <1>2, <1>3 DEF SlotOf
<1> QED BY <1>4 DEF Matches, Reached, Live

(* The scan for room begins behind live entries, so that what it finds     *)
(* free is the first free slot of all.                                     *)
LEMMA RoomIsNext ==
  ASSUME Linked, UniqueNames, NEW n, NEW s \in Slots, IsRoom(s, n)
  PROVE  \A r \in 1 .. (s - 1) : IsCreated(r)
<1> SUFFICES ASSUME NEW r \in 1 .. (s - 1) PROVE IsCreated(r)
  OBVIOUS
<1>1. From(n) = 1 \/ From(n) \in Live
  BY FoundIsLive DEF From
<1>2. From(n) \in Nat /\ From(n) <= s
  BY <1>1, SlotFacts DEF IsRoom, Live
<1>3. CASE r >= From(n)
  BY <1>2, <1>3, SlotFacts DEF IsRoom, Stops
<1>4. CASE r < From(n)
  BY <1>1, <1>2, <1>4, SlotFacts DEF Live, Linked
<1> QED BY <1>2, <1>3, <1>4, SlotFacts

-----------------------------------------------------------------------------
(* The invariant holds at first.                                           *)
LEMMA InitInvariant == Init => IInv
<1> SUFFICES ASSUME Init PROVE IInv
  OBVIOUS
<1>1. Len(Folders) \in Nat
  BY NeFSAssumption
<1>2. \A s \in Slots : ~IsCreated(s)
  BY DEF Init, Blank, IsCreated, Unallocated, Created, Deleted
<1>3. Blank \in Entry /\ At("boot") \in Ops
  BY SlotFacts DEF Blank, Entry, At, Ops
<1>4. TypeOK
  <2>1. cat \in [Slots -> Entry] /\ op \in Ops
    BY <1>3 DEF Init
  <2>2. todo \in 1 .. (Len(Folders) + 1) /\ crashes \in 0 .. MaxCrashes
    BY <1>1, NeFSAssumption DEF Init
  <2> QED BY <2>1, <2>2 DEF Init, TypeOK
<1> QED BY <1>2, <1>4 DEF IInv, Init, At, Linked, UniqueNames, Live, Pending, EntryIsNext, MarkIsLive,
        CountIsOfEntry, BlankOrValid, PromisesNamed, CountsFit

(* A step that leaves the catalogs alone leaves what is said of them.      *)
LEMMA CatalogsKept ==
  ASSUME IInv, UNCHANGED cat
  PROVE  /\ Linked' /\ UniqueNames' /\ Live' = Live
         /\ \A s : IsCreated(s)' <=> IsCreated(s)
         /\ \A n : Named(n)' <=> Named(n)
<1>1. \A s : IsCreated(s)' <=> IsCreated(s)
  BY DEF IsCreated
<1> QED BY <1>1 DEF IInv, Linked, UniqueNames, Live, Named

LEMMA CreateStep ==
  ASSUME IInv, NEW n \in Names, CreateCatalog(n), todo' \in 1 .. (Len(Folders) + 1)
  PROVE  IInv'
<1>1. PICK s \in Slots : /\ IsRoom(s, n) /\ ~IsCreated(s)
                         /\ op' = [at |-> "entry", name |-> n, slot |-> s]
  BY DEF CreateCatalog
<1>2. UNCHANGED <<cat, super, epm, readOnly, promised, crashes>>
  BY DEF CreateCatalog
<1>3. /\ op.at = "idle" /\ super.free >= 1 /\ ~Named(n)
  BY NamedIsFound DEF CreateCatalog, IInv
<1>4. \A r \in 1 .. (s - 1) : IsCreated(r)
  BY <1>1, RoomIsNext DEF IInv
<1>5. TypeOK'
  BY <1>1, <1>2 DEF IInv, TypeOK, Ops
<1>6. Pending'
  BY <1>1, <1>2, <1>3, <1>4, CatalogsKept DEF Pending, EntryIsNext, MarkIsLive, CountIsOfEntry, Named
<1>7. CountsFit'
  BY <1>1, <1>2, <1>3, CatalogsKept DEF IInv, CountsFit, Ahead
<1>8. BlankOrValid' /\ PromisesNamed'
  BY <1>1, <1>2, <1>3, CatalogsKept DEF IInv, BlankOrValid, PromisesNamed
<1> QED BY <1>2, <1>5, <1>6, <1>7, <1>8, CatalogsKept DEF IInv

(* The entry goes behind the last live one and brings a new name.          *)
LEMMA WriteEntryStep == ASSUME IInv, WriteEntry PROVE IInv'
<1>1. PICK n \in Names, s \in Slots :
        /\ n = op.name /\ s = op.slot /\ ~IsCreated(s)
        /\ \A r \in 1 .. (s - 1) : IsCreated(r)
        /\ \A r \in Slots : IsCreated(r) => cat[r].name # n
  BY DEF WriteEntry, IInv, Pending, EntryIsNext
<1>2. /\ op.at = "entry" /\ op' = [op EXCEPT !.at = "countUp"]
      /\ UNCHANGED <<super, epm, readOnly, todo, promised, crashes>>
  BY DEF WriteEntry
<1>3. /\ op'.at = "countUp" /\ op'.name = n /\ op'.slot = s
      /\ op' \in Ops
  BY <1>1, <1>2 DEF IInv, TypeOK, Ops
<1>4. super.valid
  BY <1>2 DEF IInv, BlankOrValid
<1>5. super.free >= 1 /\ Ahead \in 0 .. crashes
  BY <1>2, <1>4 DEF IInv, CountsFit
<1>6. CASE readOnly
  <2>1. UNCHANGED cat
    BY <1>6 DEF WriteEntry
  <2>2. TypeOK'
    BY <1>2, <1>3, <2>1 DEF IInv, TypeOK
  <2>3. Pending'
    BY <1>1, <1>2, <1>3, <1>6 DEF Pending, EntryIsNext, MarkIsLive, CountIsOfEntry
  <2>4. CountsFit'
    BY <1>2, <1>3, <1>5, <1>6, <2>1, CatalogsKept DEF CountsFit, Ahead
  <2>5. BlankOrValid' /\ PromisesNamed'
    BY <1>2, <1>3, <1>4, <1>6 DEF IInv, BlankOrValid, PromisesNamed
  <2> QED BY <2>1, <2>2, <2>3, <2>4, <2>5, CatalogsKept DEF IInv
<1>7. CASE ~readOnly
  <2>1. cat' = [cat EXCEPT ![s] = NewEntry(n, s)]
    BY <1>1, <1>7 DEF WriteEntry
  <2>2. /\ cat'[s].name = n /\ cat'[s].next = s + 1 /\ IsCreated(s)'
        /\ \A r \in Slots \ {s} : cat'[r] = cat[r] /\ (IsCreated(r)' <=> IsCreated(r))
    <3>1. cat' = [r \in Slots |-> IF r = s THEN NewEntry(n, s) ELSE cat[r]]
      BY <1>1, <2>1 DEF IInv, TypeOK
    <3>2. cat'[s] = NewEntry(n, s) /\ \A r \in Slots \ {s} : cat'[r] = cat[r]
      BY <1>1, <3>1
    <3>3. NewEntry(n, s).name = n /\ NewEntry(n, s).next = s + 1 /\ NewEntry(n, s).flags = Created
      BY DEF NewEntry
    <3> QED BY <3>2, <3>3 DEF IsCreated
  <2>3. NewEntry(n, s) \in Entry
    BY <1>1, SlotFacts DEF NewEntry, Entry
  <2>4. TypeOK'
    BY <1>2, <1>3, <2>1, <2>3 DEF IInv, TypeOK
  <2>5. Linked'
    BY <1>1, <2>2, SlotFacts DEF IInv, Linked
  <2>6. UniqueNames'
    BY <1>1, <2>2 DEF IInv, UniqueNames
  <2>7. Live' = Live \cup {s} /\ s \notin Live
    <3>1. \A r \in Slots : IsCreated(r)' <=> r = s \/ IsCreated(r)
      BY <2>2
    <3>2. s \notin Live
      BY <1>1 DEF Live
    <3>3. \A r \in Slots : r \in Live' <=> r = s \/ r \in Live
      BY <3>1 DEF Live
    <3>4. Live' \subseteq Slots /\ Live \subseteq Slots /\ s \in Slots
      BY <1>1 DEF Live
    <3> QED BY <3>2, <3>3, <3>4
  <2>8. Cardinality(Live') = Cardinality(Live) + 1
    BY <2>7, LiveCount, FS_AddElement
  <2>9. CountsFit'
    <3>1. Ahead' = Ahead + 1
      BY <1>2, <2>8, LiveCount, NeFSAssumption DEF Ahead, IInv, TypeOK
    <3>2. Ahead + 1 \in 1 .. (crashes + 1)
      BY <1>5 DEF IInv, TypeOK
    <3> QED BY <1>2, <1>3, <1>5, <1>7, <3>1, <3>2 DEF CountsFit
  <2>10. \A m : Named(m) => Named(m)'
    BY <1>1, <2>2 DEF Named
  <2>11. Pending'
    BY <1>1, <1>2, <1>3, <2>2 DEF Pending, EntryIsNext, MarkIsLive, CountIsOfEntry, Named
  <2>12. BlankOrValid' /\ PromisesNamed'
    BY <1>2, <1>3, <1>4, <1>7, <2>10 DEF IInv, BlankOrValid, PromisesNamed
  <2> QED BY <2>4, <2>5, <2>6, <2>9, <2>11, <2>12 DEF IInv
<1> QED BY <1>6, <1>7

(* A removed entry stays live: its flags pass for created.                 *)
LEMMA MarkRemovedStep == ASSUME IInv, MarkRemoved PROVE IInv'
<1>1. /\ op.at = "mark" /\ op' = [op EXCEPT !.at = "countDown"]
      /\ UNCHANGED <<super, readOnly, todo, promised, crashes>>
      /\ epm' \in BOOLEAN /\ (readOnly => ~epm')
  BY DEF MarkRemoved, IInv, BlankOrValid, TypeOK
<1>2. op'.at = "countDown" /\ op' \in Ops
  BY <1>1 DEF IInv, TypeOK, Ops
<1>3. super.valid
  BY <1>1 DEF IInv, BlankOrValid
<1>4. /\ cat' \in [Slots -> Entry]
      /\ \A r \in Slots : /\ cat'[r].name = cat[r].name /\ cat'[r].next = cat[r].next
                          /\ IsCreated(r)' <=> IsCreated(r)
  <2>1. CASE readOnly \/ op.slot = 0
    BY <2>1 DEF MarkRemoved, IInv, TypeOK, IsCreated
  <2>2. CASE ~readOnly /\ op.slot # 0
    <3>1. op.slot \in Live /\ op.slot \in Slots
      BY <1>1, <2>2 DEF IInv, Pending, MarkIsLive, Live
    <3>2. cat' = [cat EXCEPT ![op.slot] = Marked(@)]
      BY <2>2 DEF MarkRemoved
    <3>3. cat[op.slot] \in Entry
      BY <3>1 DEF IInv, TypeOK
    <3>4. /\ Marked(cat[op.slot]) \in Entry
          /\ Marked(cat[op.slot]).name = cat[op.slot].name
          /\ Marked(cat[op.slot]).next = cat[op.slot].next
          /\ Marked(cat[op.slot]).flags = Deleted
      BY <3>3 DEF Marked, Entry
    <3> QED BY <3>1, <3>2, <3>4 DEF IInv, TypeOK, Live, IsCreated
  <2> QED BY <2>1, <2>2
<1>5. Linked' /\ UniqueNames'
  BY <1>4, SlotFacts DEF IInv, Linked, UniqueNames
<1>6. Live' = Live /\ \A n : Named(n)' <=> Named(n)
  BY <1>4 DEF Live, Named
<1>7. TypeOK'
  BY <1>1, <1>2, <1>4 DEF IInv, TypeOK
<1>8. CountsFit'
  BY <1>1, <1>2, <1>3, <1>6 DEF IInv, CountsFit, Ahead
<1>9. Pending' /\ BlankOrValid' /\ PromisesNamed'
  BY <1>1, <1>2, <1>3, <1>6 DEF IInv, Pending, EntryIsNext, MarkIsLive, CountIsOfEntry, BlankOrValid,
     PromisesNamed
<1> QED BY <1>5, <1>7, <1>8, <1>9 DEF IInv

LEMMA WriteCountsStep == ASSUME IInv, WriteCounts PROVE IInv'
<1>1. /\ op.at \in {"countUp", "countDown"}
      /\ op' = At("idle") /\ op'.at = "idle"
      /\ UNCHANGED <<cat, epm, readOnly, todo, crashes>>
  BY DEF WriteCounts, At
<1>2. super.valid
  BY <1>1 DEF IInv, BlankOrValid
<1>3. /\ Named(op.name) \/ readOnly \/ op.at = "countDown"
      /\ promised' \subseteq promised \cup {op.name} /\ promised' \subseteq Names
      /\ op.at = "countDown" => promised' = promised
  BY <1>1 DEF WriteCounts, IInv, TypeOK, Pending, CountIsOfEntry
<1>4. /\ super' \in [valid : BOOLEAN, free : Nat]
      /\ super'.valid /\ super'.free = IF ~readOnly /\ op.at = "countUp" THEN super.free - 1
                                                                        ELSE super.free
  <2>1. op.at = "countUp" => super.free >= 1 /\ super.free - 1 \in Nat
    BY DEF IInv, CountsFit, TypeOK
  <2> QED BY <1>1, <1>2, <2>1 DEF WriteCounts, Counted, IInv, TypeOK
<1>5. TypeOK'
  <2>1. op' \in Ops
    BY <1>1 DEF At, Ops
  <2> QED BY <1>1, <1>3, <1>4, <2>1 DEF IInv, TypeOK
<1>6. CountsFit'
  <2>1. Ahead' = IF ~readOnly /\ op.at = "countUp" THEN Ahead - 1 ELSE Ahead
    BY <1>1, <1>4, CatalogsKept, LiveCount, NeFSAssumption DEF Ahead, IInv, TypeOK
  <2>2. Ahead' \in 0 .. crashes
    BY <1>1, <1>2, <2>1 DEF IInv, CountsFit, TypeOK
  <2> QED BY <1>1, <2>2 DEF CountsFit
<1>7. Pending'
  BY <1>1 DEF Pending, EntryIsNext, MarkIsLive, CountIsOfEntry
<1>8. BlankOrValid' /\ PromisesNamed'
  BY <1>1, <1>3, <1>4, CatalogsKept DEF IInv, BlankOrValid, PromisesNamed
<1> QED BY <1>1, <1>5, <1>6, <1>7, <1>8, CatalogsKept DEF IInv

LEMMA RemoveStep == ASSUME IInv, NEW n \in Names, RemoveCatalog(n) PROVE IInv'
<1>1. /\ op.at = "idle" /\ op'.at = "mark"
      /\ op' = [at |-> "mark", name |-> n, slot |-> IF Exists(n) THEN SlotOf(n) ELSE 0]
      /\ promised' = promised \ {n}
      /\ UNCHANGED <<cat, super, epm, readOnly, todo, crashes>>
  BY DEF RemoveCatalog
<1>2. op'.slot = 0 \/ op'.slot \in Live
  BY <1>1, FoundIsLive DEF IInv
<1>3. TypeOK'
  <2>1. op' \in Ops
    BY <1>1, <1>2 DEF Ops, Live
  <2> QED BY <1>1, <2>1 DEF IInv, TypeOK
<1>4. Pending'
  BY <1>1, <1>2, CatalogsKept DEF Pending, EntryIsNext, MarkIsLive, CountIsOfEntry
<1>5. CountsFit'
  BY <1>1, CatalogsKept DEF IInv, CountsFit, Ahead
<1>6. BlankOrValid' /\ PromisesNamed'
  BY <1>1, CatalogsKept DEF IInv, BlankOrValid, PromisesNamed
<1> QED BY <1>1, <1>3, <1>4, <1>5, <1>6, CatalogsKept DEF IInv

(* A boot changes the superblock only when there is none, and block 0 only *)
(* behind it; Mount asks block 0 whether the drive may be written.         *)
LEMMA BootStep == ASSUME IInv, Booting PROVE IInv'
<1>1. /\ op' = At("epm") \/ op' = At("mount") \/ op' = At("idle")
      /\ op'.at \in {"epm", "mount", "idle"}
      /\ op.at \in {"boot", "epm", "mount"}
      /\ UNCHANGED <<cat, promised, crashes>>
  BY DEF Booting, FormatSuper, FormatEpm, Healthy, Mount, At
<1>2. Pending'
  BY <1>1 DEF Pending, EntryIsNext, MarkIsLive, CountIsOfEntry
<1>3. op' \in Ops
  BY <1>1 DEF At, Ops
<1>4. Len(Folders) \in Nat
  BY NeFSAssumption
<1>5. CASE FormatSuper
  <2>1. /\ op.at = "boot" /\ ~super.valid /\ op'.at = "epm"
        /\ super' = [valid |-> TRUE, free |-> Total]
        /\ UNCHANGED <<epm, readOnly, todo>>
    BY <1>5 DEF FormatSuper, At
  <2>2. promised = {} /\ Live = {} /\ ~readOnly
    BY <2>1 DEF IInv, BlankOrValid
  <2>3. TypeOK'
    BY <1>1, <1>3, <2>1, NeFSAssumption DEF IInv, TypeOK
  <2>4. Cardinality(Live') = 0
    BY <1>1, <2>2, CatalogsKept, FS_EmptySet
  <2>5. CountsFit'
    BY <1>1, <2>1, <2>4, NeFSAssumption DEF IInv, TypeOK, CountsFit, Ahead
  <2>6. BlankOrValid' /\ PromisesNamed'
    BY <1>1, <2>1, <2>2 DEF BlankOrValid, PromisesNamed
  <2> QED BY <1>1, <1>2, <2>3, <2>5, <2>6, CatalogsKept DEF IInv
<1>6. CASE FormatEpm \/ Healthy \/ Mount
  <2>1. /\ UNCHANGED super /\ super.valid
        /\ op'.at \in {"mount", "idle"}
        /\ epm' \in BOOLEAN /\ readOnly' \in BOOLEAN
        /\ readOnly' => ~epm'
        /\ todo' \in 1 .. (Len(Folders) + 1)
    <3>1. todo \in 1 .. (Len(Folders) + 1) /\ 1 \in 1 .. (Len(Folders) + 1)
      BY <1>4 DEF IInv, TypeOK
    <3>2. epm \in BOOLEAN /\ readOnly \in BOOLEAN
      BY DEF IInv, TypeOK
    <3>3. CASE FormatEpm
      BY <3>1, <3>2, <3>3 DEF FormatEpm, At, IInv, BlankOrValid
    <3>4. CASE Healthy
      BY <3>1, <3>2, <3>4 DEF Healthy, At, IInv, BlankOrValid
    <3>5. CASE Mount
      BY <3>1, <3>2, <3>5 DEF Mount, At, IInv, BlankOrValid
    <3> QED BY <1>6, <3>3, <3>4, <3>5
  <2>2. readOnly => readOnly'
    BY <1>6 DEF FormatEpm, Healthy, Mount, IInv, BlankOrValid, TypeOK
  <2>3. TypeOK'
    BY <1>1, <1>3, <2>1 DEF IInv, TypeOK
  <2>4. CountsFit'
    BY <1>1, <2>1, CatalogsKept DEF IInv, CountsFit, Ahead
  <2>5. BlankOrValid' /\ PromisesNamed'
    BY <1>1, <2>1, <2>2, CatalogsKept DEF IInv, BlankOrValid, PromisesNamed
  <2> QED BY <1>1, <1>2, <2>3, <2>4, <2>5, CatalogsKept DEF IInv
<1> QED BY <1>5, <1>6 DEF Booting

(* One count at most is dropped: the one the call under way was about.     *)
LEMMA CrashStep == ASSUME IInv, Crash PROVE IInv'
<1>1. /\ crashes < MaxCrashes /\ crashes' = crashes + 1
      /\ op' = At("boot") /\ op'.at = "boot"
      /\ UNCHANGED <<cat, super, epm, readOnly, todo, promised>>
  BY DEF Crash, At
<1>2. TypeOK'
  <2>1. op' \in Ops
    BY <1>1 DEF At, Ops
  <2> QED BY <1>1, <2>1, NeFSAssumption DEF IInv, TypeOK
<1>3. Pending'
  BY <1>1 DEF Pending, EntryIsNext, MarkIsLive, CountIsOfEntry
<1>4. CountsFit'
  BY <1>1, CatalogsKept DEF IInv, TypeOK, CountsFit, Ahead
<1>5. BlankOrValid' /\ PromisesNamed'
  BY <1>1, CatalogsKept DEF IInv, BlankOrValid, PromisesNamed
<1> QED BY <1>1, <1>2, <1>3, <1>4, <1>5, CatalogsKept DEF IInv

LEMMA NothingStep ==
  ASSUME IInv, UNCHANGED <<cat, super, epm, readOnly, op, promised, crashes>>,
         todo' \in 1 .. (Len(Folders) + 1)
  PROVE  IInv'
<1>1. TypeOK' /\ Pending'
  BY CatalogsKept DEF IInv, TypeOK, Pending, EntryIsNext, MarkIsLive, CountIsOfEntry
<1>2. CountsFit' /\ BlankOrValid' /\ PromisesNamed'
  BY CatalogsKept DEF IInv, CountsFit, Ahead, BlankOrValid, PromisesNamed
<1> QED BY <1>1, <1>2, CatalogsKept DEF IInv

LEMMA StrayStep ==
  ASSUME IInv, NEW n, Stray(n), todo' \in 1 .. (Len(Folders) + 1)
  PROVE  IInv'
<1>1. /\ op.at = "idle" /\ op'.at = "lost" /\ op' \in Ops
      /\ UNCHANGED <<cat, super, epm, readOnly, promised, crashes>>
  BY DEF Stray, At, Ops
<1>2. TypeOK' /\ Pending'
  BY <1>1, CatalogsKept
     DEF IInv, TypeOK, Pending, EntryIsNext, MarkIsLive, CountIsOfEntry
<1>3. CountsFit' /\ BlankOrValid' /\ PromisesNamed'
  BY <1>1, CatalogsKept DEF IInv, CountsFit, Ahead, BlankOrValid, PromisesNamed
<1> QED BY <1>1, <1>2, <1>3, CatalogsKept DEF IInv

LEMMA InstallStep == ASSUME IInv, InstallNext PROVE IInv'
<1>1. Len(Folders) \in Nat /\ todo \in 1 .. (Len(Folders) + 1) /\ todo <= Len(Folders)
  BY NeFSAssumption DEF InstallNext, IInv, TypeOK
<1>2. Folders[todo] \in Names /\ todo' \in 1 .. (Len(Folders) + 1)
  BY <1>1, NeFSAssumption DEF InstallNext
<1> QED BY <1>2, CreateStep, StrayStep, NothingStep DEF InstallNext

LEMMA StepInvariant == IInv /\ [Next]_vars => IInv'
<1> SUFFICES ASSUME IInv, [Next]_vars PROVE IInv'
  OBVIOUS
<1>1. todo \in 1 .. (Len(Folders) + 1)
  BY DEF IInv, TypeOK
<1>2. ASSUME NEW n \in Names, UserCreate(n) PROVE IInv'
  BY <1>1, <1>2, CreateStep, StrayStep DEF UserCreate
<1>3. CASE UNCHANGED vars
  BY <1>1, <1>3, NothingStep DEF vars
<1>4. CASE Lost
  BY <1>1, <1>4, NothingStep DEF Lost, vars
<1> QED BY <1>2, <1>3, <1>4, BootStep, InstallStep, WriteEntryStep, MarkRemovedStep, WriteCountsStep,
           RemoveStep, CrashStep DEF Next, Writing

LEMMA Invariant == Spec => []IInv
BY InitInvariant, StepInvariant, PTL DEF Spec

-----------------------------------------------------------------------------
(* The disk, the call under way and the installer are typed; a slot that   *)
(* is looked up is one of the partition's (OpenNeFS.cc:352-436).           *)
THEOREM TypeCorrect == Spec => []TypeOK
<1>1. IInv => TypeOK
  BY DEF IInv
<1> QED BY <1>1, Invariant, PTL

(* However often power is lost between two writes, names stay unique and   *)
(* every entry is met by FindCatalog (OpenNeFS.cc:352-436, 750-830).       *)
THEOREM NamesLeadToEntries == Spec => []NamesLead
<1>1. IInv => NamesLead
  BY SlotFacts DEF IInv, NamesLead, NothingStranded, Linked, Reached
<1> QED BY <1>1, Invariant, PTL

(* FreeCatalog is never too low and at most one too high for every time    *)
(* power was lost, and for the call under way (CreateCatalog).             *)
THEOREM FreeIsAlmostExact == Spec => []FreeAlmostExact
<1>1. IInv => FreeAlmostExact
  BY LiveCount, NeFSAssumption DEF IInv, TypeOK, CountsFit, Ahead, FreeAlmostExact, Live
<1> QED BY <1>1, Invariant, PTL

(* What was reported created stays where it can be found, unless the drive *)
(* is mounted read-only (io_drv_output, CreateCatalog).                    *)
THEOREM PromisesKept == Spec => []PromiseKept
<1>1. IInv => PromiseKept
  BY NamedIsFound DEF IInv, PromisesNamed, PromiseKept
<1> QED BY <1>1, Invariant, PTL
=============================================================================
