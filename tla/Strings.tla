------------------------------ MODULE Strings ------------------------------
(***************************************************************************)
(* NewKit's KString: a block of fDataSz characters on the heap and a       *)
(* cursor, filled by += and by StringBuilder::Construct.  Neither += looks *)
(* at the room that is left, and rt_set_memory, told to clear fDataSz      *)
(* characters, clears fDataSz words: what one string does can reach the    *)
(* block of its neighbour.  The blocks stand at fixed addresses here.      *)
(***************************************************************************)
EXTENDS Text

CONSTANTS Names,   \* the strings there are
          Base,    \* [Names -> addresses]: where each string's block begins
          Sizes,   \* the sizes a string is created with
          Texts    \* the texts callers append: sequences of characters

ASSUME StringsAssumption ==
         /\ Base \in [Names -> Nat] /\ Sizes \subseteq Nat \ {0}
         /\ Texts \subseteq Seq(Chars \ {0})

VARIABLES mem,      \* memory
          str,      \* per string: fDataSz (0 before it exists) and fCur
          said,     \* per string: all that was appended, in order
          touched,  \* the strings cleared by another, or left with a wrong cursor
          mixed     \* those that characters of another came into

stringsVars == <<mem, str, said, touched, mixed>>

fDataSz(s) == str[s].size
fCur(s) == str[s].cur
fData(s) == Base[s]

\* rt_string_append: the length is taken first, then the characters are copied
\* one by one, without their terminator and without a bound.
rt_string_append(m, lhs, m0, rhs, cur) ==
  Forward(m, rhs, lhs + cur, rt_string_len(m0, rhs))

\* The same for a text that is not in the modelled memory.
AppendText(m, lhs, text, cur) ==
  [q \in Addr |-> IF q \in (lhs + cur)..(lhs + cur + Len(text) - 1)
                  THEN text[q - lhs - cur + 1] ELSE m[q]]

\* The allocator hands out memory that nobody has. (That a size of one is refused
\* is only looked at in a debug build.)
HandedOut(s, size) ==
  /\ Base[s] + size =< MemSz
  /\ \A o \in Names : fDataSz(o) > 0 =>
       Base[s] + size =< Base[o] \/ Base[o] + fDataSz(o) =< Base[s]

Cleared(s, size) == Base[s]..(Base[s] + Word * size - 1)
BlockOf(s) == Base[s]..(Base[s] + fDataSz(s) - 1)

\* What a reader who stays inside the block finds up to the terminator.
TextIn(s) ==
  LET n == rt_string_len(mem, fData(s))
  IN  [i \in 1..(IF n > fDataSz(s) THEN fDataSz(s) ELSE n) |-> Byte(mem, fData(s) + i - 1)]

\* The strings whose blocks n characters appended to s run into.
RunInto(s, n) ==
  {o \in Names \ {s} :
     BlockOf(o) \intersect (fData(s) + fCur(s))..(fData(s) + fCur(s) + n - 1) # {}}

-----------------------------------------------------------------------------

\* The memory an allocator hands out may hold anything.
StringsInit ==
  /\ mem \in [Addr -> Chars]
  /\ str = [s \in Names |-> [size |-> 0, cur |-> 0]]
  /\ said = [s \in Names |-> <<>>]
  /\ touched = {} /\ mixed = {}

\* KString(Sz): the block is cleared a word per character.
KString(s, size) ==
  /\ fDataSz(s) = 0 /\ HandedOut(s, size)
  /\ mem' = rt_set_memory(mem, Base[s], 0, size)
  /\ str' = [str EXCEPT ![s] = [size |-> size, cur |-> 0]]
  /\ touched' = touched \union {o \in Names \ {s} : BlockOf(o) \intersect Cleared(s, size) # {}}
  /\ UNCHANGED <<said, mixed>>

\* StringBuilder::Construct: a string of exactly the text's size, which leaves
\* no room for a terminator.  (An empty text gives an empty answer instead.)
Construct(s, text) ==
  /\ fDataSz(s) = 0 /\ HandedOut(s, Len(text))
  /\ text # <<>>
  /\ mem' = AppendText(rt_set_memory(mem, Base[s], 0, Len(text)), Base[s], text, 0)
  /\ str' = [str EXCEPT ![s] = [size |-> Len(text), cur |-> Len(text)]]
  /\ said' = [said EXCEPT ![s] = text]
  /\ touched' = touched \union
       {o \in Names \ {s} : BlockOf(o) \intersect Cleared(s, Len(text)) # {}}
  /\ UNCHANGED mixed

\* operator+=(const Char*) looks at no room at all: MemSz bounds how far past its
\* block a string runs.
AppendChars(s, text) ==
  /\ fDataSz(s) > 0
  /\ fData(s) + fCur(s) + Len(text) =< MemSz
  /\ mem' = AppendText(mem, fData(s), text, fCur(s))
  /\ str' = [str EXCEPT ![s].cur = @ + Len(text)]
  /\ said' = [said EXCEPT ![s] = @ \o text]
  /\ mixed' = mixed \union RunInto(s, Len(text))
  /\ UNCHANGED touched

\* operator+=(const KString&): refused by the text's length against the size of
\* the whole block.  What is asked for is rhs's text; what is copied goes on past
\* its block where no terminator is in it.  The cursor moves by the length rhs has
\* AFTER the copy, which is another one when the copy goes over rhs's terminator:
\* for a string appended to itself, and for one that fills its block up to where
\* s begins.
AppendString(s, r) ==
  LET n == rt_string_len(mem, fData(r))
      after == rt_string_append(mem, fData(s), mem, fData(r), fCur(s))
      moved == rt_string_len(after, fData(r))
  IN  /\ fDataSz(s) > 0 /\ fDataSz(r) > 0
      /\ fData(s) + fCur(s) + n =< MemSz
      /\ IF n > fDataSz(s)
         THEN UNCHANGED stringsVars
         ELSE /\ mem' = after
              /\ str' = [str EXCEPT ![s].cur = @ + moved]
              /\ said' = [said EXCEPT ![s] = @ \o TextIn(r)]
              /\ touched' = IF moved # n THEN touched \union {s} ELSE touched
              /\ mixed' = mixed \union RunInto(s, n)
                               \union (IF n > fDataSz(r) THEN {s} ELSE {})

StringsNext ==
  \E s \in Names :
    \/ \E size \in Sizes : KString(s, size)
    \/ \E text \in Texts : Construct(s, text) \/ AppendChars(s, text)
    \/ \E r \in Names : AppendString(s, r)

StringsSpec == StringsInit /\ [][StringsNext]_stringsVars

-----------------------------------------------------------------------------
(* Comparison: both operators answer No for strings of different sizes.    *)

StringsEqual(s, r) ==
  /\ fDataSz(r) = fDataSz(s)
  /\ \A i \in 0..(fDataSz(s) - 1) : Byte(mem, fData(r) + i) = Byte(mem, fData(s) + i)

StringsDiffer(s, r) ==
  /\ fDataSz(r) = fDataSz(s)
  /\ \A i \in 0..(fDataSz(r) - 1) : Byte(mem, fData(r) + i) # Byte(mem, fData(s) + i)

\* Against a C text the size of the block is taken for the length of the string.
EqualsText(s, text) ==
  /\ Len(text) = fDataSz(s)
  /\ \A i \in 1..Len(text) : text[i] = Byte(mem, fData(s) + i - 1)

DiffersText(s, text) ==
  /\ Len(text) = fDataSz(s)
  /\ \A i \in 1..Len(text) : text[i] # Byte(mem, fData(s) + i - 1)

-----------------------------------------------------------------------------

Prefix(a, b) == Len(a) =< Len(b) /\ a = SubSeq(b, 1, Len(a))

\* Whatever the strings run past, every one that no character of another came into
\* reads as a prefix of what was appended to it: a neighbour created over its first
\* characters, or the wrong cursor an append is left with that went over its
\* source's terminator, can cut the text short.  A string neither happened to reads
\* as all of it that its block has room for, also when it ran past it.  And strings
\* that compare equal, to a text or to one another, read the same.
\* (KString.h:33, KString.cc:30, :44, :188, :213)
StringsHoldTheirText ==
  \A s \in Names : fDataSz(s) > 0 =>
    /\ s \notin mixed => /\ Prefix(TextIn(s), said[s])
                         /\ s \notin touched /\ Len(said[s]) =< fDataSz(s) => TextIn(s) = said[s]
                         /\ s \notin touched /\ Len(said[s]) > fDataSz(s) => Len(TextIn(s)) = fDataSz(s)
    /\ \A text \in Texts : EqualsText(s, text) => text = TextIn(s)
    /\ \A r \in Names : StringsEqual(s, r) => TextIn(s) = TextIn(r) /\ ~StringsDiffer(s, r)
=============================================================================
