------------------------------- MODULE Loader -------------------------------
(***************************************************************************)
(* Executables and shared libraries: PEFCodeMgr.cc (the loader of a PEF    *)
(* container and the process made of one), IPEFDylibObject (a library      *)
(* mounted on an image) and the thread local storage a library object is   *)
(* allocated from.  A read of a file answers NoBlob or what stands in the  *)
(* block: a container's header fields or a sequence of command headers.    *)
(* Files models why the read by name that this code makes always answers   *)
(* NoBlob; here both answers are considered.                               *)
(***************************************************************************)
EXTENDS Integers, Sequences, FiniteSets
LOCAL INSTANCE SequencesExt

CONSTANTS Platform,   \* ldr_get_platform: kPefArchAMD64 in this build
          NameRoom    \* words of four characters cleared for a symbol's block

ASSUME LoaderAssumption == NameRoom \in Nat \ {0}

NoBlob == <<>>
Wild == <<-2>>        \* an access through a pointer that is null or was never set
__zka_pure_call == <<-3>>
kProcessInvalidID == -1
kPefMagicFat == <<"y", "o", "J", "!", "0">>
Joy == <<"J", "o", "y", "!", "0">>   \* kPefMagic with its terminator
kPefAbi == 20550

ldr_get_platform == Platform

-----------------------------------------------------------------------------
(* PEFLoader.  The members that a constructor leaves alone hold what was   *)
(* in memory: fat of the constructor from a blob, and its file.            *)

PEFLoaderOfBlob(blob, garbage) ==
  [blob |-> blob, bad |-> FALSE, fat |-> garbage, opened |-> FALSE, file |-> <<>>, freed |-> {}]

IsPlain(c) == c.cpu = ldr_get_platform /\ c.magic = Joy /\ c.abi = kPefAbi
IsFat(c) == c.magic = Reverse(Joy) /\ c.abi = kPefAbi

\* A read that answered nothing is looked at all the same: low is what stands
\* at address 0.
PEFLoaderOfPath(read, low, files) ==
  LET container == IF read = NoBlob THEN low ELSE read
      whole == IsPlain(container) \/ IsFat(container)
  IN  [blob |-> IF whole THEN read ELSE NoBlob, bad |-> ~whole,
       fat  |-> ~IsPlain(container) /\ IsFat(container), opened |-> TRUE, file |-> files,
       freed |-> IF whole \/ read = NoBlob THEN {} ELSE {read}]

IsLoaded(ldr) == ~ldr.bad /\ ldr.blob # NoBlob
GetBlob(ldr) == ldr.blob

\* The destructor frees the blob it was given, whoever else holds it, and the
\* file.
PEFLoaderGone(ldr) == IF ldr.blob = NoBlob THEN {} ELSE {ldr.blob}

kPefCode == 12
kPefData == 13
kPefZero == 14
cContainerKinds == [k \in {kPefCode, kPefData, kPefZero} |->
                      CASE k = kPefCode -> <<1, 1, 1>> [] k = kPefData -> <<2, 2, 2>> [] OTHER -> <<3, 3, 3>>]

\* In the caller's own text.
Mangled(name) == [i \in DOMAIN name |-> IF name[i] = 32 THEN 36 ELSE name[i]]

\* The kind's text fills its block, which was cleared NameRoom times as far; the
\* name goes after it, past the block, and where the cleared part is used up
\* the text goes on with what follows in memory.
Symbol(name, kind, after) ==
  LET prefix == cContainerKinds[kind]
      text == prefix \o Mangled(name)
  IN  IF Len(text) < NameRoom * Len(prefix) THEN text ELSE text \o after

\* The pointer to the command header is never moved: Count looks at the first.
FindSymbol(ldr, name, kind, count, after) ==
  LET header == ldr.file[1]
      same == /\ header.name = Symbol(name, kind, after)
              /\ header.kind = kind
  IN  IF ldr.blob = NoBlob \/ ldr.bad THEN NoBlob
      ELSE IF ~ldr.opened THEN Wild
      ELSE IF kind \notin DOMAIN cContainerKinds THEN NoBlob
      ELSE IF count > 0 /\ same /\ (header.cpu = ldr_get_platform \/ ldr.fat)
      THEN header.body ELSE NoBlob

kPefStart == <<4>>
kPefNameSymbol == <<5>>
kPefStackSizeSymbol == <<6, 6, 6, 6, 6, 6, 6, 6, 6, 6>>
kPefHeapSizeSymbol == <<7, 7, 7, 7, 7, 7, 7, 7, 7, 7>>
kErrorExecutable == 33

FindStart(sym) ==
  IF sym \notin {NoBlob, Wild} THEN [start |-> sym, error |-> 0]
  ELSE [start |-> NoBlob, error |-> kErrorExecutable]

\* find says what FindSymbol answers for each of the four names, spawned what
\* Spawn answers.  Both sizes are read through what their lookup answered.
rtl_create_process(find, spawned) ==
  LET start == FindStart(find.start) IN
  IF start.error # 0 THEN [id |-> kProcessInvalidID, spawns |-> 0, wild |-> FALSE]
  ELSE [id |-> spawned, spawns |-> 1,
        wild |-> spawned # kProcessInvalidID /\ NoBlob \in {find.stack, find.heap}]

\* CodeMgr.cc's, for code of the kernel.
rtl_create_process_main(name, spawned) == IF name = <<>> THEN kProcessInvalidID ELSE spawned

-----------------------------------------------------------------------------
(* IPEFDylibObject: what is mounted, the loader's image (0 when there is    *)
(* no loader), and the images whose blocks a loader that went freed.       *)

NewDylib == [mounted |-> 0, loader |-> 0, freed |-> {}, loaders |-> 0]

Mount(dll, image) ==
  IF image = 0 THEN dll
  ELSE [mounted |-> image, loader |-> image,
        freed   |-> dll.freed \union (IF dll.loader = 0 THEN {} ELSE {dll.loader}),
        loaders |-> 1]

Unmount(dll) == [dll EXCEPT !.mounted = 0]
GetMounted(dll) == dll.mounted

\* A missing function is answered with the pure call.  Found is what the
\* loader's FindSymbol says.
Load(dll, name, len, kind, maxLen, found) ==
  IF name = <<>> \/ len > maxLen \/ len < 1 THEN NoBlob
  ELSE IF dll.loader = 0 THEN Wild
  ELSE IF found = NoBlob /\ kind = kPefCode THEN __zka_pure_call ELSE found

\* The traits that are mounted are new and hold no image yet, so that Mount
\* does nothing; the image would be put in afterwards.
rtl_init_dylib(allocated, image) ==
  LET mountedOn == Mount(NewDylib, 0) IN
  IF ~allocated \/ GetMounted(mountedOn) = 0 \/ image = 0
  THEN [dll |-> 0, crashed |-> TRUE, traitsLost |-> allocated]
  ELSE [dll |-> 1, crashed |-> FALSE, traitsLost |-> FALSE]

\* No return follows the report of a null object: it is deleted all the same,
\* and the report overwritten.
rtl_fini_dylib(dll) == [crashed |-> dll = 0, wild |-> dll = 0, successful |-> TRUE]

-----------------------------------------------------------------------------
(* Thread local storage.  process is what CurrentProcess refers to (0 for  *)
(* nothing, which is what it is), made what its New answers.               *)

tls_new_ptr(process, made) ==
  IF process = 0 THEN Wild ELSE IF made.error # 0 THEN 0 ELSE made.ptr

tls_delete_ptr(obj, process, deleted) ==
  IF obj = 0 THEN FALSE ELSE IF process = 0 THEN Wild ELSE deleted

\* The class is built apart and copied over the memory.
tls_new_class(process, made) == tls_new_ptr(process, made)
tls_delete_class(obj, process, deleted) == tls_delete_ptr(obj, process, deleted)

kCookie == <<"Z", "K", "A">>
tls_check_tib(tib) == tib # 0 /\ tib.record # 0 /\ tib.cookie = kCookie
tls_check_syscall_impl(tib) == tib # 0 /\ tls_check_tib(tib)

-----------------------------------------------------------------------------

\* Whatever symbol it is asked for, the loader answers that symbol's contents or
\* nothing, never another symbol's, and its contents when the first command header
\* has it.  (No header after the first is looked at.)  Names that differ in blanks and dollar signs only are
\* one name; a name too long for its cleared block is found only when nothing
\* follows in memory. (PEFCodeMgr.cc:119)
SymbolsFound(Tables, Calls) ==
  \A table \in Tables : \A call \in Calls : \A fat \in BOOLEAN :
    LET ldr == [blob |-> <<1>>, bad |-> FALSE, fat |-> fat, opened |-> TRUE, file |-> table, freed |-> {}]
        found == FindSymbol(ldr, call.name, call.kind, Len(table), call.after)
        Whole(h) == /\ h.kind = call.kind /\ (h.cpu = Platform \/ fat)
                    /\ h.name = cContainerKinds[call.kind] \o Mangled(call.name)
        fits == Len(call.name) + 3 < 3 * NameRoom \/ call.after = <<>>
        matching == SelectSeq(table, Whole)
    IN  /\ found # NoBlob /\ fits => matching # <<>> /\ found = Head(matching).body
        /\ (table # <<>> /\ Whole(table[1]) /\ fits) => found = table[1].body

\* A container is loaded only when its own block was read and checked: not when
\* what stands at address 0 happens to look like one, and a block that fails the
\* check is freed once.  One that carries kPefMagicFat fails: what is looked for
\* is the plain magic from its terminator backwards. (PEFCodeMgr.cc:61)
LoadedIsChecked(Containers) ==
  \A read \in Containers \union {NoBlob} : \A low \in Containers :
    LET ldr == PEFLoaderOfPath(read, low, <<>>)
    IN  /\ IsLoaded(ldr) => read # NoBlob /\ (IsPlain(read) \/ IsFat(read)) /\ ldr.freed = {}
        /\ read # NoBlob => (IsLoaded(ldr) <=> read \notin ldr.freed)
        /\ PEFLoaderGone(ldr) \intersect ldr.freed = {}
        /\ read # NoBlob /\ IsLoaded(ldr) => read.magic # kPefMagicFat

\* Through any mounts and unmounts there is one loader at most and it is of the
\* image mounted last; what the others held is freed, an image mounted a second
\* time while the loader of it goes included; and no library is ever handed out.
\* (IPEFDylibObject.h:49)
LibrariesHeld(Images) ==
  /\ \A n \in 0..4 : \A ops \in [1..n -> Images \union {0, -1}] :
       LET dll == FoldLeft(LAMBDA d, o : IF o = -1 THEN Unmount(d) ELSE Mount(d, o), NewDylib, ops)
           mounts == SelectSeq(ops, LAMBDA o : o \in Images)
       IN  /\ dll.loader = IF mounts = <<>> THEN 0 ELSE Last(mounts)
           /\ mounts # <<>> => dll.freed = {mounts[i] : i \in 1..(Len(mounts) - 1)}
           /\ dll.mounted # 0 => dll.mounted = dll.loader
           /\ Load(dll, <<1>>, 1, kPefCode, 9, NoBlob) = Wild <=> mounts = <<>>
  /\ \A allocated \in BOOLEAN : \A image \in Images \union {0} :
       rtl_init_dylib(allocated, image).dll = 0

\* A process is started at most once and never without an entry point; once it
\* has a slot the two sizes are read whether or not the container has them.
\* (PEFCodeMgr.cc:249)
StartedWhole(Answers, Ids) ==
  \A find \in [start : Answers, stack : Answers, heap : Answers] : \A spawned \in Ids :
    LET made == rtl_create_process(find, spawned)
    IN  /\ made.spawns > 0 => find.start \notin {NoBlob, Wild}
        /\ made.id # kProcessInvalidID /\ ~made.wild => NoBlob \notin {find.start, find.stack, find.heap}
=============================================================================
