------------------------------ MODULE Support ------------------------------
(***************************************************************************)
(* Small parts the kernel and its loader stand on, each with no state of   *)
(* anybody else's: the checksum of the heap and of disks, numbers read     *)
(* from text, JSON, the list of destructors, NewKit's containers, the      *)
(* hardware threads' busy mark and what the device fronts forward.  A      *)
(* function of the code is an operator here, from what it reads to its     *)
(* answer and what it leaves.                                              *)
(***************************************************************************)
EXTENDS Integers, Sequences, FiniteSets
LOCAL INSTANCE SequencesExt

CONSTANTS LongMax,              \* kLongMax, small
          kAtExitMacDestructors,\* entries of __atexit_funcs
          kMaxAPInsideSched     \* hardware threads there can be

ASSUME SupportAssumption == /\ LongMax \in Nat \ {0}
                            /\ kAtExitMacDestructors \in Nat
                            /\ kMaxAPInsideSched \in Nat \ {0}

LOCAL Chr(text, i) == IF i \in DOMAIN text THEN text[i] ELSE 0
LOCAL TextOf(block) == SubSeq(block, 1, CHOOSE n \in 0..Len(block) :
                         /\ Chr(block, n + 1) = 0
                         /\ \A i \in 1..n : block[i] # 0)

-----------------------------------------------------------------------------
(* Crc32.cc.  A word is the set of its bits.                               *)

BitSum(v, w) == (v \ w) \union (w \ v)
ShiftRight(w, n) == {k - n : k \in {i \in w : i >= n}}
BitsOf(c) == {k \in 0..7 : (c \div 2^k) % 2 = 1}
ValueOf(w) == FoldLeft(LAMBDA sum, k : sum + (IF k \in w THEN 2^k ELSE 0), 0, [k \in 1..8 |-> k - 1])

\* 0x82F63B78; the table's literals are its remainders.
kCrcPoly == {3, 4, 5, 6, 8, 9, 11, 12, 13, 17, 18, 20, 21, 22, 23, 25, 31}
DividedOnce(w) == BitSum(ShiftRight(w, 1), IF 0 \in w THEN kCrcPoly ELSE {})
kCrcTbl == [i \in 0..255 |-> FoldLeft(LAMBDA w, k : DividedOnce(w), BitsOf(i), [k \in 1..8 |-> k])]

\* Char is signed: from 128 on the index is negative, and what stands before
\* the table is read, before[k] k entries before its first.
ke_calculate_crc32(text, before) ==
  LET Step(crc, c) ==
        LET index == ValueOf(BitSum(crc \intersect 0..7, BitsOf(c)))
        IN  BitSum(IF c < 128 THEN kCrcTbl[index] ELSE before[256 - index], ShiftRight(crc, 8))
  IN  BitSum(FoldLeft(Step, 0..31, text), 0..31)

-----------------------------------------------------------------------------
(* The loader's Support.h: numbers.                                        *)

IsSpace(c) == c = 32

StringNCompare(destination, source, length) ==
  Cardinality({i \in 1..length : Chr(source, i) # Chr(destination, i)})

\* The value of a character from 'A' on: upper and lower case alike.
DigitOf(c) ==
  IF c >= 65 THEN (IF (c - 65) % 64 >= 32 THEN c - 97 ELSE c - 65) + 10
  ELSE IF c =< 57 THEN c - 48 ELSE -1
IsDigit(c, base) == DigitOf(c) \in 0..(base - 1)

LongMin == -LongMax - 1

\* The answer, and how many characters endptr is moved by (ends says whether
\* the caller gave one: without it the scan stops once the number overflows,
\* which the answer does not show).
StringToLong(nptr, base0) ==
  LET spaces == CHOOSE n \in 0..Len(nptr) :
                  /\ ~IsSpace(Chr(nptr, n + 1)) /\ \A i \in 1..n : IsSpace(nptr[i])
      signed == Chr(nptr, spaces + 1) \in {43, 45}
      isNeg  == Chr(nptr, spaces + 1) = 45
      p      == spaces + (IF signed THEN 1 ELSE 0)
      zero   == Chr(nptr, p + 1) = 48
      mark   == Chr(nptr, p + 2)
      hex    == zero /\ mark \in {88, 120} /\ base0 \in {0, 16}
      binary == zero /\ mark \in {66, 98} /\ base0 \in {0, 2}
      base   == IF base0 # 0 THEN base0
                ELSE IF hex THEN 16 ELSE IF binary THEN 2 ELSE IF zero THEN 8 ELSE 10
      from   == p + (IF zero THEN 1 ELSE 0) + (IF hex \/ binary THEN 1 ELSE 0)
      digits == CHOOSE n \in 0..(Len(nptr) - from) :
                  /\ ~IsDigit(Chr(nptr, from + n + 1), base)
                  /\ \A i \in 1..n : IsDigit(nptr[from + i], base)
      limit  == IF isNeg THEN LongMax + 1 ELSE LongMax
      Step(got, c) ==
        IF got.over \/ got.n > limit \div base
             \/ (got.n = limit \div base /\ DigitOf(c) > limit % base)
        THEN [got EXCEPT !.over = TRUE]
        ELSE [got EXCEPT !.n = @ * base + DigitOf(c)]
      got    == FoldLeft(Step, [n |-> 0, over |-> FALSE], SubSeq(nptr, from + 1, from + digits))
  IN  IF base0 < 0 \/ base0 = 1 \/ base0 > 36 THEN [value |-> 0, end |-> -1]
      ELSE [value |-> IF got.over THEN (IF isNeg THEN LongMin ELSE LongMax)
                      ELSE IF isNeg THEN -got.n ELSE got.n,
            end   |-> IF digits > 0 THEN from + digits ELSE IF zero THEN p + 1 ELSE 0]

-----------------------------------------------------------------------------
(* Json.h.  Key and value are written into cleared blocks, a terminator    *)
(* being skipped or written where a part ends.  (Both blocks hold          *)
(* kMaxJsonPath characters, more than any text here.)                      *)

kNull == [key |-> <<110, 117, 108, 108>>, value |-> <<110, 117, 108, 108>>]

In(text) ==
  LET isArray == Chr(text, 1) = 91
      endVal  == IF isArray THEN 93 ELSE 125
      Step(st, c) ==
        IF c \in {10, 13} THEN st
        ELSE IF st.probe
        THEN IF c \in {endVal, 44}
             THEN [st EXCEPT !.probe = FALSE, !.value = Append(@, 0)]
             ELSE [st EXCEPT !.value = Append(@, c)]
        ELSE IF isArray THEN st
        ELSE IF c = 58
        THEN [st EXCEPT !.probe = TRUE, !.key = Append(@, 0)]
        ELSE [st EXCEPT !.key = Append(@, c)]
      read == FoldLeft(Step, [probe |-> isArray, key |-> <<>>, value |-> <<>>], SubSeq(text, 2, Len(text)))
  IN  IF Chr(text, 1) \notin {91, 123} THEN kNull
      ELSE [key |-> TextOf(read.key), value |-> TextOf(read.value)]

-----------------------------------------------------------------------------
(* CxxAbi-AMD64.cc: destructors in order of registration; 0 is no function. *)

atexit(funcs, f) ==
  IF Len(funcs) >= kAtExitMacDestructors
  THEN [answer |-> 1, funcs |-> funcs]
  ELSE [answer |-> 0, funcs |-> Append(funcs, f)]

\* With no handle the entries stay, and a second call runs them again; the
\* object's own handle is never compared with the one given.
__cxa_finalize(funcs, handle) ==
  [called |-> Reverse(SelectSeq(funcs, LAMBDA f : f # 0)),
   funcs  |-> IF handle = 0 THEN funcs ELSE [i \in DOMAIN funcs |-> 0]]

\* A function's static is constructed when this answers anything but 0.
__cxa_guard_acquire(guard) == 0

\* The release writes 1 whatever was there; an abort leaves it.
__cxa_guard_release(guard) == 1
__cxa_guard_abort(guard) == guard

-----------------------------------------------------------------------------
(* MutableArray.h.  A node holds a value and whether it is used; its index *)
(* is 0 always, and no second node is ever linked.                         *)

FreshNode == [val |-> 0, used |-> FALSE]
NoNode == <<>>
EmptyNullable == [node |-> FreshNode, count |-> 0]

NullableAdd(list, val) ==
  IF list.node.used THEN [answer |-> FALSE, list |-> list]
  ELSE [answer |-> TRUE, list |-> [node |-> [val |-> val, used |-> TRUE], count |-> list.count + 1]]

NullableRemove(list, index) ==
  IF index # 0 THEN [answer |-> FALSE, list |-> list]
  ELSE [answer |-> TRUE, list |-> [list EXCEPT !.node.used = FALSE]]

NullableAt(list, index, placeholder) == IF index = 0 THEN list.node.val ELSE placeholder

\* MutableArray declares its nodes anew, so that what it inherits, Remove and
\* operator bool, works on the base's node and count and never on its own.
EmptyMutable == [base |-> EmptyNullable, node |-> NoNode, count |-> 0]

MutableAdd(list, val) ==
  IF list.node # NoNode /\ list.node.used THEN [answer |-> FALSE, list |-> list]
  ELSE [answer |-> TRUE,
        list |-> [list EXCEPT !.node = [val |-> val, used |-> TRUE], !.count = @ + 1]]

MutableRemove(list, index) ==
  LET removed == NullableRemove(list.base, index)
  IN  [answer |-> removed.answer, list |-> [list EXCEPT !.base = removed.list]]

MutableContains(list, val) == list.node # NoNode /\ list.node.val = val /\ list.node.used
MutableBool(list) == list.base.count > 1

-----------------------------------------------------------------------------
(* The other holders.  A pointer is 0 or an object; Array<T, N> holds N.   *)

ArrayEmpty(n) == n > 0
ArrayBool(n) == ~ArrayEmpty(n)

\* OwnPtr's constructor leaves fCls as it was in memory.
OwnNew(fCls, made) ==
  IF fCls # 0 THEN [answer |-> FALSE, fCls |-> fCls]
  ELSE [answer |-> made # 0, fCls |-> made]
OwnDelete(fCls) == [deleted |-> IF fCls # 0 THEN {fCls} ELSE {}, fCls |-> 0]

\* An ErrorOr is true when it refers to something, whatever its code.
ErrorOrCode(err) == [mRef |-> 0, mId |-> err]
ErrorOrClass(cls) == [mRef |-> cls, mId |-> 0]
ErrorOrBool(result) == result.mRef # 0

\* err_bug_check panics only once err_bug_check_raise was called.
err_bug_check(raised) == IF raised THEN "panic" ELSE "No"

-----------------------------------------------------------------------------
(* HardwareThreadScheduler.cc.  One timer counts the busy polls of all.    *)

kAPSystemReserved == 0
kAPStandard == 1
kAPBoot == 2

FreshThreads == [busy  |-> [t \in 0..(kMaxAPInsideSched - 1) |-> FALSE],
                 kind  |-> [t \in 0..(kMaxAPInsideSched - 1) |-> kAPStandard],
                 timer |-> 0]

Busy(hw, t, busy) == [hw EXCEPT !.busy[t] = busy]

IsBusy(hw, t, ptime) ==
  LET rung == hw.busy[t] /\ hw.timer > ptime
      left == IF rung THEN [hw EXCEPT !.busy[t] = FALSE] ELSE hw
  IN  [answer |-> left.busy[t],
       hw |-> [left EXCEPT !.timer = (IF rung THEN 0 ELSE @) + 1]]

\* registered is mp_register_process's answer for the frame; a refusal comes
\* after the thread's stack and process were replaced.
Switch(hw, t, ptime, registered) ==
  LET asked == IsBusy(hw, t, ptime) IN
  [answer |-> ~asked.answer /\ registered, replaced |-> ~asked.answer, hw |-> asked.hw]

\* Thread 0 becomes the boot thread when it is looked at; an index past the
\* list is a reference to nothing.
ThreadAt(hw, idx) ==
  IF idx = 0 /\ hw.kind[0] # kAPSystemReserved
  THEN [thread |-> 0, hw |-> [hw EXCEPT !.kind[0] = kAPBoot]]
  ELSE [thread |-> IF idx >= kMaxAPInsideSched THEN -1 ELSE idx, hw |-> hw]

\* The list is an Array, which says it is empty when it is not.
SchedulerBool == ~ArrayEmpty(kMaxAPInsideSched)
SchedulerNot == ArrayEmpty(kMaxAPInsideSched)

-----------------------------------------------------------------------------
(* Device fronts.  The drive's function gets a copy of the packet, so that *)
(* the mark looked at afterwards is the one cleared before the call.       *)

fs_ifs_read(mounted, drvIndex) ==
  [answer |-> IF mounted THEN 0 ELSE 1,
   asked  |-> IF mounted /\ drvIndex \in 0..3 THEN {drvIndex} ELSE {}]
fs_ifs_write(mounted, drvIndex) == fs_ifs_read(mounted, drvIndex)

\* The terminator is compared too: a kind that goes on after "ATA-" differs.
ATAForwards(data, kinds) == data /\ \A d \in 0..3 : SubSeq(kinds[d], 1, 5) = <<"A", "T", "A", "-">>

-----------------------------------------------------------------------------

\* The division the checksum stands for, bit by bit and with no table: every bit
\* of the text meets the lowest bit of the register.
LOCAL Divided(text) ==
  LET Bit(crc, b) == BitSum(ShiftRight(crc, 1), IF (0 \in crc) # b THEN kCrcPoly ELSE {})
      Character(crc, c) == FoldLeft(LAMBDA w, k : Bit(w, k \in BitsOf(c)), crc, [i \in 1..8 |-> i - 1])
  IN  BitSum(FoldLeft(Character, 0..31, text), 0..31)

\* The sum of a text of characters below 128 is its CRC-32C, whatever stands
\* before the table, and tells texts of one length of at most four characters
\* apart. (Crc32.cc:72)
ChecksumsAgree(ASCII, Befores) ==
  /\ \A text \in ASCII : \A before \in Befores :
       ke_calculate_crc32(text, before) = Divided(text)
  /\ LET sum == [text \in ASCII |-> ke_calculate_crc32(text, <<>>)]
     IN  \A s, t \in ASCII : Len(s) = Len(t) /\ s # t => sum[s] # sum[t]

\* The number a text denotes: the longest prefix of blanks, a sign, a mark for
\* the base and digits, written without the scan's cut-off.
LOCAL Denoted(text, at, n, base) ==
  LET sum[k \in 0..n] == IF k = 0 THEN 0 ELSE sum[k - 1] * base + DigitOf(text[at + k])
  IN  sum[n]

\* A number that fits is read as it is, one that does not as the nearest bound,
\* and the end is past its digits: at 'x' after a zero that no digit follows, at
\* the start when there is no number. (Support.h:69)
NumbersRead(TextSet) ==
  \A text \in TextSet : \A base \in {0, 2, 8, 10, 16} :
    LET read == StringToLong(text, base)
        Body == {n \in 0..Len(text) : /\ \A i \in 1..n : text[i] = 32 \/ (i = n /\ text[i] \in {43, 45})
                                      /\ Chr(text, n + 1) # 32 \/ Chr(text, n) \in {43, 45}}
        start == CHOOSE n \in Body : \A k \in Body : k =< n
        minus == Chr(text, start) = 45
        Numerals == {q \in [at : start..Len(text), n : 1..Len(text), base : {2, 8, 10, 16}] :
                       /\ q.at + q.n =< Len(text)
                       /\ \A i \in 1..q.n : IsDigit(text[q.at + i], q.base)
                       /\ \/ q.at = start
                          \/ /\ q.at = start + 2 /\ text[start + 1] = 48
                             /\ \/ q.base = 16 /\ text[start + 2] \in {88, 120}
                                \/ q.base = 2 /\ text[start + 2] \in {66, 98}
                       /\ \/ base = q.base
                          \/ base = 0 /\ q.at = start + 2
                          \/ base = 0 /\ q.at = start /\ q.base = (IF text[start + 1] = 48 THEN 8 ELSE 10)}
        whole == CHOOSE q \in Numerals : \A r \in Numerals : r.at + r.n =< q.at + q.n
        value == Denoted(text, whole.at, whole.n, whole.base)
    IN  IF Numerals = {} THEN read = [value |-> 0, end |-> 0]
        ELSE /\ read.end = whole.at + whole.n
             /\ read.value = IF minus THEN (IF value > LongMax + 1 THEN LongMin ELSE -value)
                             ELSE IF value > LongMax THEN LongMax ELSE value

\* An object's first member is its key up to the colon and its value up to the
\* comma or the closing brace, an array its first element, line ends left out;
\* what comes after is not seen, and any other text is null. (Json.h:78)
JsonAgrees(TextSet) ==
  \A text \in TextSet :
    LET body == SelectSeq(SubSeq(text, 2, Len(text)), LAMBDA c : c \notin {10, 13})
        Upto(from, stops) == LET n == CHOOSE n \in 0..Len(body) :
                                        /\ from + n = Len(body) + 1 \/ Chr(body, from + n) \in stops
                                        /\ \A i \in 0..(n - 1) : body[from + i] \notin stops
                             IN  SubSeq(body, from, from + n - 1)
        key == Upto(1, {58})
        after == IF Len(key) < Len(body) THEN Len(key) + 2 ELSE Len(body) + 1
    IN  In(text) = CASE Chr(text, 1) = 123 -> [key |-> key, value |-> Upto(after, {44, 125})]
                     [] Chr(text, 1) = 91 -> [key |-> <<>>, value |-> Upto(1, {44, 93})]
                     [] OTHER -> kNull

\* Destructors run in the reverse order of registration, and with a handle each
\* runs once however often the call is made; a registration that was told 1 is
\* the only one lost. (CxxAbi-AMD64.cc:44)
DestructorsOnce(Functions) ==
  \A fs \in Functions :
       LET funcs == FoldLeft(LAMBDA had, f : atexit(had, f).funcs, <<>>, fs)
           first == __cxa_finalize(funcs, 1)
       IN  /\ first.called = Reverse([i \in 1..Len(funcs) |-> fs[i]])
           /\ Len(funcs) = IF Len(fs) < kAtExitMacDestructors THEN Len(fs) ELSE kAtExitMacDestructors
           /\ __cxa_finalize(first.funcs, 1).called = <<>>
           /\ __cxa_finalize(__cxa_finalize(funcs, 0).funcs, 0).called = first.called

\* A MutableArray keeps the first value it was given and no other, through every
\* Remove: it contains exactly that one, Count says 1, and operator bool No.
\* (MutableArray.h:160)
FirstValueStays(Values) ==
  LET Ops == [op : {"Add"}, arg : Values] \union [op : {"Remove"}, arg : 0..1]
      Run(ops) == FoldLeft(LAMBDA list, o : IF o.op = "Add" THEN MutableAdd(list, o.arg).list
                                            ELSE MutableRemove(list, o.arg).list,
                           EmptyMutable, ops)
  IN  \A n \in 0..4 : \A ops \in [1..n -> Ops] :
        LET added == SelectSeq(ops, LAMBDA o : o.op = "Add")
            list == Run(ops)
        IN  /\ ~MutableBool(list)
            /\ list.count = IF added = <<>> THEN 0 ELSE 1
            /\ \A v \in Values : MutableContains(list, v) <=> added # <<>> /\ Head(added).arg = v

\* A busy thread is refused until the timer every poll of any thread advances has
\* passed ptime: it is never replaced while marked busy, and polls of the others
\* free it early. (HardwareThreadScheduler.cc:62)
BusyKept(Times) ==
  LET T == 0..(kMaxAPInsideSched - 1) IN
  \A t \in T : \A ptime \in Times : \A polls \in UNION {[1..n -> T] : n \in 0..(ptime + 2)} :
    LET hw == FoldLeft(LAMBDA h, o : IsBusy(h, o, ptime).hw, Busy(FreshThreads, t, TRUE), polls)
        asked == Switch(hw, t, ptime, TRUE)
    IN  asked.replaced <=> \E k \in (ptime + 2)..(Len(polls) + 1) : Append(polls, t)[k] = t
=============================================================================
