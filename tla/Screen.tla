------------------------------- MODULE Screen -------------------------------
(***************************************************************************)
(* What OpenNE shows: CoreGfx's drawing into the frame buffer (FBMgr.h and *)
(* TextMgr.h), the panic screen, and the texts of the consoles: the serial *)
(* terminal of the kernel and BTextWriter over the firmware's.  A frame    *)
(* buffer is a function from offsets, in pixels, to colours, which are     *)
(* sets of bits; drawing is an operator from one to the next and to the    *)
(* cursor it leaves.                                                       *)
(***************************************************************************)
EXTENDS Integers, Sequences, FiniteSets
LOCAL INSTANCE SequencesExt

CONSTANTS PixelPerLine,    \* pixels from one line of the screen to the next
          FbSz,            \* pixels of memory the model looks at
          FontSize,        \* kFontSizeX = kFontSizeY
          Font,            \* kFontBitmap: [characters -> sequences of sets of bits]
          TextMax          \* the most characters ke_io_write asks the length for

ASSUME ScreenAssumption == /\ PixelPerLine \in Nat \ {0}
                           /\ FbSz \in Nat /\ FontSize \in Nat \ {0} /\ TextMax \in Nat

Offsets == 0..(FbSz - 1)
ClearColour == {1}   \* fb_get_clear_clr

-----------------------------------------------------------------------------
(* FBMgr.h.  The loops go over base_x first, and x is what is multiplied   *)
(* by the line: x counts lines and y the pixels in one.                    *)

OffsetOf(x, y) == PixelPerLine * x + y

\* What the cursor, 0 at base, has counted to when the loops are at <<x, y>>.
CursorAt(x, y, height, base_x, base_y) == (x - base_x) * height + (y - base_y)

\* Every offset in one of the lines' parts gets Set(its colour, x, y), line by line.
LOCAL Drawn(fb, height, width, base_x, base_y, Set(_, _, _)) ==
  [o \in Offsets |->
     FoldLeft(LAMBDA c, x : IF o - PixelPerLine * x \in base_y..(base_y + height - 1)
                            THEN Set(c, x, o - PixelPerLine * x) ELSE c,
              fb[o], [k \in 1..width |-> base_x + k - 1])]

FBDrawInRegion(fb, clr, height, width, base_x, base_y) ==
  Drawn(fb, height, width, base_x, base_y, LAMBDA c, x, y : clr)

FBDrawInRegionA(fb, clr, height, width, base_x, base_y) ==
  Drawn(fb, height, width, base_x, base_y, LAMBDA c, x, y : c \union clr)

CGClearRegion(fb, height, width, base_x, base_y) ==
  FBDrawInRegion(fb, ClearColour, height, width, base_x, base_y)

\* A bitmap is read on from the cursor, which only fb_clear brings back.
FBDrawBitMapInRegion(fb, bitmap, cursor, height, width, base_x, base_y) ==
  [fb |-> Drawn(fb, height, width, base_x, base_y,
                LAMBDA c, x, y : bitmap[cursor + CursorAt(x, y, height, base_x, base_y)]),
   cursor |-> cursor + width * height]

FBDrawBitMapInRegionA(fb, bitmap, cursor, height, width, base_x, base_y) ==
  [fb |-> Drawn(fb, height, width, base_x, base_y,
                LAMBDA c, x, y : c \union bitmap[cursor + CursorAt(x, y, height, base_x, base_y)]),
   cursor |-> cursor + width * height]

\* The two that draw to a region of the caller's take that region for the frame
\* buffer, lines as long as the screen's included.
FBDrawBitMapInRegionToRgn(rgn, bitmap, cursor, height, width, base_x, base_y) ==
  FBDrawBitMapInRegion(rgn, bitmap, cursor, height, width, base_x, base_y)
FBDrawInRegionToRgn(rgn, clr, cursor, height, width, base_x, base_y) ==
  FBDrawBitMapInRegion(rgn, clr, cursor, height, width, base_x, base_y)

fb_init == 0
fb_clear == 0

-----------------------------------------------------------------------------
(* TextMgr.h: bit y of a glyph's byte x is its pixel in line x, place y.   *)

fb_render_string_for_bitmap(fb, bitmap, x_sz, y_sz, x_dst, y_dst, color) ==
  FoldLeft(LAMBDA f, p : IF p[2] \in bitmap[p[1] + 1]
                         THEN FBDrawInRegion(f, color, 1, 1, x_dst + p[1], y_dst + p[2]) ELSE f,
           fb, [k \in 1..(x_sz * y_sz) |-> <<(k - 1) % x_sz, (k - 1) \div x_sz>>])

fb_render_string(fb, text, x_dst, y_dst, color) ==
  FoldLeft(LAMBDA f, i : fb_render_string_for_bitmap(f, Font[text[i]], FontSize, FontSize,
                                                     x_dst, y_dst + FontSize * (i - 1), color),
           fb, [i \in 1..Len(text) |-> i])

\* Three lines, a fixed step apart, and a halt nothing leads out of.  (Both
\* blocks of 128 characters are cleared by rt_set_memory, which clears four
\* times as much.)
ke_panic(fb, lines, step) ==
  [fb |-> FoldLeft(LAMBDA f, k : fb_render_string(f, lines[k], step * k, step, {0, 1, 2}),
                   fb, <<1, 2, 3>>),
   halted |-> TRUE]

ke_runtime_check(fb, expr, lines, step) ==
  IF expr THEN [fb |-> fb, halted |-> FALSE] ELSE ke_panic(fb, lines, step)

-----------------------------------------------------------------------------
(* The serial terminal.  A port is its state; echo says whether the chip   *)
(* sends back the byte it is tested with.                                  *)

Serial == {"Invalid", "Ready", "Transmit"}

hal_serial_init(port, echo) ==
  IF port \in {"Ready", "Transmit"} THEN port ELSE IF echo THEN "Ready" ELSE "panic"

\* rt_string_len with a limit.
LOCAL Limited(n) == IF n > TextMax + 1 THEN TextMax ELSE n
OnConsole(c) == IF c = 13 THEN <<13, 10>> ELSE <<c>>

\* A text that comes while another is on its way is dropped.
ke_io_write(port0, bytes, echo) ==
  LET port == hal_serial_init(port0, echo) IN
  IF port # "Ready" \/ bytes = <<>> THEN [port |-> port, out |-> <<>>]
  ELSE [port |-> "Ready",
        out  |-> FlattenSeq([i \in 1..Limited(Len(bytes)) |-> OnConsole(bytes[i])])]

\* The six inequalities joined by `or' always hold, so that whatever stands
\* before 'a' is skipped; got is what the port holds, read until a return.
ke_io_read(port0, got, echo) ==
  LET port == hal_serial_init(port0, echo)
      enter == CHOOSE n \in 1..Len(got) : got[n] = 13 /\ \A i \in 1..(n - 1) : got[i] # 13
  IN  IF port # "Ready" THEN [port |-> port, bytes |-> <<>>]
      ELSE [port |-> "Ready", bytes |-> SelectSeq(SubSeq(got, 1, enter - 1), LAMBDA c : c >= 97)]

end_line == <<13>>
carriage_return == <<13>>
tabulate == <<9>>
bell == <<7>>

LOCAL Magnitude(x) == IF x > 0 THEN x ELSE -x
LOCAL DigitsFrom(numbers, n) ==
  LET base == Len(numbers)
      digits[v \in 0..n] == (IF v \div base > 0 THEN digits[v \div base] ELSE <<>>) \o <<numbers[(v % base) + 1]>>
  IN  digits[n]

LOCAL Decimal == <<48, 49, 50, 51, 52, 53, 54, 55, 56, 57>>
LOCAL Hexadecimal == Decimal \o <<65, 66, 67, 68, 69, 70>>

\* The sign is dropped.  (The tests for a digit past the base never hold.)
_write_number(x) == DigitsFrom(Decimal, Magnitude(x))
_write_number_hex(x) == DigitsFrom(Hexadecimal, Magnitude(x))
hex_number(x) == _write_number_hex(x) \o <<104>>
number(x) == _write_number(x)
NumberOfText == <<63>>

-----------------------------------------------------------------------------
(* BTextWriter: one call of the firmware's OutputString for each character; *)
(* the three widths of text write alike.                                   *)

WriteWide(str) == FlattenSeq([i \in 1..Len(str) |-> OnConsole(str[i])])
WriteText(str) == WriteWide(str)
WriteBytes(str) == WriteWide(str)
WriteCharacter(c) == <<c>>
_Write(x) == DigitsFrom(Hexadecimal, Magnitude(x))
WriteLong(x) == _Write(x) \o WriteText(<<104>>)

-----------------------------------------------------------------------------

Blank == [o \in Offsets |-> {}]
LOCAL Changed(fb, was) == {o \in Offsets : fb[o] # was[o]}

\* A bitmap stands where it was drawn, pixel for pixel from the cursor on, and
\* the next one starts where it ended; drawing over it with Or keeps its bits;
\* nothing outside the region changes while it ends within a line. (FBMgr.h:36)
BitmapsStand(Regions, Sources) ==
  \A r \in Regions : \A bitmap \in Sources :
    LET drawn == FBDrawBitMapInRegion(Blank, bitmap, fb_init, r.height, r.width, r.x, r.y)
        again == FBDrawBitMapInRegionA(drawn.fb, bitmap, drawn.cursor, r.height, r.width, r.x, r.y)
        inside == {OffsetOf(r.x + a, r.y + b) : a \in 0..(r.width - 1), b \in 0..(r.height - 1)}
    IN  r.y + r.height =< PixelPerLine =>
          /\ Changed(again.fb, Blank) \subseteq inside
          /\ \A a \in 0..(r.width - 1), b \in 0..(r.height - 1) :
               LET o == OffsetOf(r.x + a, r.y + b) IN
               o \in Offsets =>
                 /\ drawn.fb[o] = bitmap[a * r.height + b]
                 /\ again.fb[o] = drawn.fb[o] \union bitmap[r.width * r.height + a * r.height + b]

\* The characters of a line stand side by side and the three lines of a panic
\* one below the other: every pixel is as its own character's glyph says, for any
\* step that a glyph fits in. (TextMgr.h:167, HalKernelPanic.cc:34)
CharactersApart(LineSets, step) ==
  \A lines \in LineSets :
    LET shown == ke_panic(Blank, lines, step).fb IN
    /\ \A k \in 1..3 : \A i \in DOMAIN lines[k] : \A x, y \in 0..(FontSize - 1) :
         (shown[OffsetOf(step * k + x, step + FontSize * (i - 1) + y)] # {})
           <=> y \in Font[lines[k][i]][x + 1]
    /\ Cardinality(Changed(shown, Blank)) =
         FoldLeft(LAMBDA n, c : n + FoldLeft(LAMBDA m, bits : m + Cardinality(bits), 0, Font[c]),
                  0, lines[1] \o lines[2] \o lines[3])

\* What is written while the port is free comes out whole, up to the limit, with a
\* line feed after each return, and leaves the port free; while it is taken,
\* nothing does; what is read is letters and signs from 'a' on only.
\* (HalDebugOutput.cc:64)
SerialKeeps(TextSet) ==
  \A text \in TextSet :
    LET sent == ke_io_write("Ready", text, FALSE)
        Returns(s) == Len(SelectSeq(s, LAMBDA c : c = 13))
    IN  /\ sent.port = "Ready" /\ ke_io_write("Transmit", text, TRUE).out = <<>>
        /\ Len(text) =< TextMax =>
             /\ SelectSeq(sent.out, LAMBDA c : c # 10) = SelectSeq(text, LAMBDA c : c # 10)
             /\ Len(sent.out) = Len(text) + Returns(text)
             /\ sent.out = WriteText(text)
        /\ \A i \in 1..(Len(sent.out) - 1) : sent.out[i] = 13 => sent.out[i + 1] = 10
        /\ LET read == ke_io_read("Ready", text \o <<13>>, TRUE).bytes
           IN  \A c \in ToSet(read) : c >= 97 /\ c \in ToSet(text)

\* A number is written with no leading zero and read back as itself without its
\* sign, in decimal and in hexadecimal, the kernel's digits and the loader's alike.
\* (DebugOutput.h:95, BootTextWriter.cc:144)
DigitsDenote(Values) ==
  \A x \in Values :
    LET Denotes(text, numbers) ==
          FoldLeft(LAMBDA n, c : n * Len(numbers) + (CHOOSE d \in DOMAIN numbers : numbers[d] = c) - 1, 0, text)
        m == Magnitude(x)
    IN  /\ Denotes(number(x), Decimal) = m /\ Denotes(_write_number_hex(x), Hexadecimal) = m
        /\ \A text \in {number(x), _write_number_hex(x)} : text[1] = 48 => m = 0 /\ Len(text) = 1
        /\ WriteLong(x) = hex_number(x)
=============================================================================
