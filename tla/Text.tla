-------------------------------- MODULE Text --------------------------------
(***************************************************************************)
(* The memory and text helpers every part of OpenNE leans on: NewKit's     *)
(* Utils.cc and KString.cc, the boot loader's BootString.cc and the        *)
(* address checks of IPAddr.cc.  Memory is a function from addresses to    *)
(* characters (0 is the terminator) and is taken as zero after its last    *)
(* byte; a text in a C sense is what stands from an address to the next    *)
(* terminator.  Every loop of the code is kept as a recursive function, or *)
(* as the least index at which the loop stops.                             *)
(***************************************************************************)
EXTENDS Integers, Sequences, FiniteSets

CONSTANTS MemSz,   \* bytes of memory
          Chars,   \* the characters in it
          Word,    \* bytes in the UInt32 that rt_set_memory steps by
          IntValues, LongValues   \* how many values an int and a UInt64 have

ASSUME TextAssumption == /\ MemSz \in Nat \ {0} /\ Word \in Nat \ {0}
                         /\ Chars \subseteq 0..255 /\ 0 \in Chars
ASSUME WidthsAssumption == /\ IntValues \in Nat \ {0} /\ LongValues \in Nat \ {0}
                           /\ IntValues % 2 = 0 /\ IntValues =< LongValues

Addr == 0..(MemSz - 1)
Null == -1

Least(S) == CHOOSE x \in S : \A y \in S : x =< y
Byte(m, p) == IF p \in Addr THEN m[p] ELSE 0
Put(m, p, c) == IF p \in Addr THEN [m EXCEPT ![p] = c] ELSE m

-----------------------------------------------------------------------------
(* Utils.cc: lengths and comparison.                                       *)

rt_string_cmp(m, src, cmp, size) ==
  Cardinality({i \in 0..(size - 1) : Byte(m, src + i) # Byte(m, cmp + i)})

rt_string_len(m, p) == Least({n \in 0..MemSz : Byte(m, p + n) = 0})

\* The do-while of the bounded length never looks at the first character.
rt_string_len_max(m, p, max) ==
  LET n == Least({k \in 1..(MemSz + 1) : Byte(m, p + k) = 0})
  IN  IF n > max + 1 THEN max ELSE n

-----------------------------------------------------------------------------
(* Utils.cc: filling, copying and moving.                                  *)

\* Mutated: len counts bytes, and a last part of a word is left.
rt_set_memory_Bytes(m, p, c, len) ==
  [q \in Addr |-> IF q \notin p..(p + Word * (len \div Word) - 1) THEN m[q]
                  ELSE IF (q - p) % Word = 0 THEN c ELSE 0]

\* len counts words: each gets the character in its first byte, zero after.
rt_set_memory(m, p, c, len) ==
  [q \in Addr |-> IF q \notin p..(p + Word * len - 1) THEN m[q]
                  ELSE IF (q - p) % Word = 0 THEN c ELSE 0]

rt_zero_memory(m, p, len) == rt_set_memory(m, p, 0, len)

rt_move_memory(m, src, dst, len) ==
  LET moved[i \in 0..len] ==
        IF i = 0 THEN m
        ELSE LET before == moved[i - 1] IN
             Put(Put(before, dst + i - 1, Byte(before, src + i - 1)), src + i - 1, 0)
  IN  moved[len]

Forward(m, src, dst, len) ==
  LET copied[i \in 0..len] ==
        IF i = 0 THEN m
        ELSE Put(copied[i - 1], dst + i - 1, Byte(copied[i - 1], src + i - 1))
  IN  copied[len]

\* Mutated: the terminator takes the last character's place.
rt_copy_memory_Over(m, src, dst, len) == Put(Forward(m, src, dst, len), dst + len - 1, 0)

\* The terminator goes after the len characters asked for.
rt_copy_memory(m, src, dst, len) == Put(Forward(m, src, dst, len), dst + len, 0)

\* The string and its terminator are copied, and a second terminator put after
\* them, one character past the block `block' of len + 1.
rt_alloc_string(m, src, block) ==
  rt_copy_memory(m, src, block, rt_string_len(m, src) + 1)

-----------------------------------------------------------------------------
(* Utils.cc: letters, searching and numbers.                               *)

rt_to_uppercase(c) == IF c \in 97..122 THEN c - 32 ELSE c
rt_to_lower(c) == IF c \in 65..90 THEN c + 32 ELSE c
is_space(c) == c = 32
is_newln(c) == c = 10

rt_string_in_string(m, in, needle) ==
  LET hits == {i \in 0..(rt_string_len(m, in) - 1) :
                 rt_string_cmp(m, in + i, needle, rt_string_len(m, needle)) = 0}
  IN  IF hits = {} THEN Null ELSE in + Least(hits)

\* The first character is compared before any terminator is looked for.
rt_string_has_char(m, p, c) ==
  LET stop == Least({k \in 1..(MemSz + 1) : Byte(m, p + k) \in {0, c}})
  IN  IF Byte(m, p) = c THEN p
      ELSE IF Byte(m, p + stop) = 0 THEN Null ELSE p + stop

kNumbers == <<48, 49, 50, 51, 52, 53, 54, 55, 56, 57, 65, 66, 67, 68, 69, 70>>
rt_to_char(n, limit) == kNumbers[(n % limit) + 1]

ToInt(x) == ((x + (IntValues \div 2)) % IntValues) - (IntValues \div 2)
ToLong(x) == x % LongValues

\* Each turn rotates the number's decimal digits by one and writes the last.  The
\* power of ten it rotates by is an int, which wraps round (a build that does not
\* optimise multiplies and keeps the low half) and is widened with its sign.
rt_to_string(n, limit) ==
  LET mult[k \in 0..n] == IF k < 10 THEN 1 ELSE ToInt(10 * mult[k \div 10])
      elems[k \in 0..n] == IF k < 10 THEN 0 ELSE 1 + elems[k \div 10]
      turn[i \in 0..(elems[n] + 1)] ==
        IF i = 0 THEN n
        ELSE LET m == ToLong(mult[n])
             IN  ToLong(((turn[i - 1] % m) * 10) + (turn[i - 1] \div m))
  IN  [i \in 1..(elems[n] + 1) |-> rt_to_char(turn[i], limit)]

-----------------------------------------------------------------------------
(* KString.cc: two texts, and the results put together from a format.      *)

StringBuilderEquals(m, lhs, rhs) ==
  /\ rt_string_len(m, rhs) = rt_string_len(m, lhs)
  /\ \A i \in 0..(rt_string_len(m, rhs) - 1) : Byte(m, rhs + i) = Byte(m, lhs + i)

\* The wide one only follows rhs: lhs may be longer.
StringBuilderEqualsWide(m, lhs, rhs) ==
  \A i \in 0..(rt_string_len(m, rhs) - 1) : Byte(m, rhs + i) = Byte(m, lhs + i)

Percent == 37
YesText == <<89, 69, 83>>
NoText == <<78, 79>>

\* What stands before the first % of a format; all of it if there is none.
BeforePercent(fmt) ==
  LET at == {i \in 1..Len(fmt) : fmt[i] = Percent}
  IN  IF at = {} THEN fmt ELSE SubSeq(fmt, 1, Least(at) - 1)

HasPercent(fmt) == \E i \in 1..Len(fmt) : fmt[i] = Percent

\* What the two write to the block they take on their own frame.  The address they
\* answer is that frame's, which is no longer there: nothing a caller reads at it
\* is modelled.
FormatFrame(fmt, fmt2) == BeforePercent(fmt) \o (IF HasPercent(fmt) THEN fmt2 ELSE <<>>)

\* The word is entered at the index the % has in the format.
FromBoolFrame(fmt, b) ==
  LET word == IF b THEN YesText ELSE NoText
      pre == BeforePercent(fmt)
  IN  pre \o (IF HasPercent(fmt) THEN SubSeq(word, Len(pre) + 1, Len(word)) ELSE <<>>)

FromBoolBlock(fmt, b) == IF b THEN 4 ELSE 5 + Len(fmt)

-----------------------------------------------------------------------------
(* BootString.cc: the loader's own copies of the same helpers.             *)

BStrLen(m, p) == IF p = Null THEN 0 ELSE rt_string_len(m, p)
BCopyMem(m, dst, src, len) == Forward(m, src, dst, len)

\* Stops at the terminator, and only after len + 1 characters otherwise.
BSetMemCount(m, p, len) ==
  LET n == rt_string_len(m, p) IN IF n > len + 1 THEN len + 1 ELSE n

BSetMem(m, p, c, len) ==
  [q \in Addr |-> IF q \in p..(p + BSetMemCount(m, p, len) - 1) THEN c ELSE m[q]]

-----------------------------------------------------------------------------
(* IPAddr.cc: an address is a sequence of bytes, a version 4 text a        *)
(* sequence of characters.                                                 *)

AddressEquals(a, b) == \A i \in 1..Len(a) : b[i] = a[i]
AddressDiffers(a, b) == \A i \in 1..Len(a) : b[i] # a[i]

\* `index > size' lets the index one past the last through.
AddressIndexAllowed(a, index) == ~(index > Len(a))

Dot == 46

IpCheckVersion4(ip) ==
  LET cnter[i \in 0..Len(ip)] ==
        IF i = 0 THEN 0
        ELSE IF cnter[i - 1] > 3 THEN 4
        ELSE IF ip[i] = Dot THEN 0 ELSE cnter[i - 1] + 1
  IN  cnter[Len(ip)] =< 3

-----------------------------------------------------------------------------
(* What the helpers are for, said without their loops.                     *)

TextAt(m, p) == [i \in 1..rt_string_len(m, p) |-> m[p + i - 1]]
Apart(p, q, n) == q =< p \/ p + n =< q

\* A copy delivers what the source held when the ranges are apart or the target
\* lies before the source; one that overlaps forward repeats the source's first
\* dst - src characters.  Beside the range only the terminator after it is
\* written.  A move leaves zeros in what it moved away. (Utils.cc:70, :87)
CopiesAgree(m) ==
  \A src, dst \in Addr : \A n \in 0..(MemSz - dst) :
    LET copy == rt_copy_memory(m, src, dst, n)
        move == rt_move_memory(m, src, dst, n)
    IN  /\ \A i \in 0..(n - 1) : copy[dst + i] =
             Byte(m, src + IF Apart(src, dst, n) THEN i ELSE i % (dst - src))
        /\ \A q \in Addr \ (dst..(dst + n)) : copy[q] = m[q]
        /\ dst < src \/ src + n =< dst =>
             /\ \A i \in 0..(n - 1) : move[dst + i] = Byte(m, src + i)
             /\ \A q \in (src..(src + n - 1)) \ (dst..(dst + n - 1)) : Byte(move, q) = 0

\* The bounded length answers the length of a text that is not empty when it is
\* at most max + 1, and max otherwise; overwriting a text never reaches its
\* terminator. (Utils.cc:29, BootString.cc:73)
LengthsAgree(m) ==
  \A p \in Addr : \A max \in Addr :
    /\ m[p] # 0 => rt_string_len_max(m, p, max) =
                     IF rt_string_len(m, p) =< max + 1 THEN rt_string_len(m, p) ELSE max
    /\ \A c \in Chars \ {0} : BStrLen(BSetMem(m, p, c, max), p) = BStrLen(m, p)

\* A search that compares past the end of the text still finds only what lies
\* inside it, and the first such place; two texts are equal exactly when they
\* are the same characters, and wide ones when the second begins the first.
\* (Utils.cc:145, :196, KString.cc:132)
SearchesAgree(m) ==
  \A p, q \in Addr :
    LET in == TextAt(m, p)  needle == TextAt(m, q)
        places == {i \in 0..(Len(in) - Len(needle)) :
                     SubSeq(in, i + 1, i + Len(needle)) = needle}
    IN  /\ in # <<>> =>
             rt_string_in_string(m, p, q) =
               IF places = {} THEN Null ELSE p + Least(places)
        /\ \A c \in Chars \ {0} : in # <<>> =>
             rt_string_has_char(m, p, c) =
               IF \E i \in 1..Len(in) : in[i] = c
               THEN p + Least({i \in 1..Len(in) : in[i] = c}) - 1 ELSE Null
        /\ StringBuilderEquals(m, p, q) <=> in = needle
        /\ StringBuilderEqualsWide(m, p, q) => SubSeq(in, 1, Len(needle)) = needle

\* Turned to text base ten, a number has as many characters as it has digits; as
\* long as the power of ten below it is an int, it reads back as itself and has
\* no leading zero.  (From 10 to the 10th on it reads as another number.)
\* Letters change case and back. (Utils.cc:119, :162, :169)
NumbersAgree(Numbers) ==
  /\ \A n \in Numbers :
       LET text == rt_to_string(n, 10)
           value[i \in 0..Len(text)] ==
             IF i = 0 THEN 0 ELSE 10 * value[i - 1] + text[i] - 48
           power == 10^(Len(text) - 1)
       IN  /\ n < 10 * power /\ (Len(text) > 1 => n >= power)
           /\ power < IntValues \div 2 => value[Len(text)] = n /\ (Len(text) > 1 => text[1] # 48)
  /\ \A c \in 0..255 :
       /\ rt_to_lower(rt_to_uppercase(c)) = rt_to_lower(c)
       /\ (is_space(c) \/ is_newln(c)) => rt_to_lower(c) = rt_to_uppercase(c)

\* While it runs, Format writes only to the block it took on its frame; FromBool
\* does for No, and for Yes in a format of at most four characters.
\* (KString.cc:97, :157)
FormatsAgree(Fmts) ==
  \A f, g \in Fmts :
    /\ Len(FormatFrame(f, g)) =< Len(f) + Len(g)
    /\ \A b \in BOOLEAN : Len(FromBoolFrame(f, b)) > FromBoolBlock(f, b) => b /\ Len(f) > 4

\* No two addresses are both equal and different, and == is equality; a version
\* 4 text is refused exactly when it has four characters in a row without a
\* dot. (IPAddr.cc:33, :105)
AddressesAgree(Ips, Quads) ==
  /\ \A a, b \in Quads : /\ AddressEquals(a, b) <=> a = b
                         /\ ~(AddressEquals(a, b) /\ AddressDiffers(a, b))
  /\ \A a \in Quads : \A i \in 0..(Len(a) - 1) : AddressIndexAllowed(a, i)
  /\ \A ip \in Ips : IpCheckVersion4(ip) <=>
       ~\E i \in 1..(Len(ip) - 3) : \A k \in i..(i + 3) : ip[k] # Dot
=============================================================================
