-------------------------------- MODULE MCBoot --------------------------------
(***************************************************************************)
(* An instance of Boot for TLC: files of up to five cells read two at a    *)
(* time, with a .bss copies run over, one they do not reach, and a name    *)
(* without a dot.                                                          *)
(***************************************************************************)
EXTENDS Boot

Section(name, va, raw, ptr) ==
  [name |-> name, va |-> va, raw |-> raw, bss |-> 0, ptr |-> ptr, stamped |-> TRUE]
Bss(va) == [Section("other", va, 0, 0) EXCEPT !.bss = 1]
Image(kind, size, pages, sections) ==
  [kind |-> kind, size |-> size, image |-> pages, sections |-> sections]

Text == Section(".text", 0, 2, 1)
Stamp == Section(".ldr", 3, 1, 3)
MCImages ==
  {Image("absent", 0, 0, <<>>), Image("unknown", 0, 0, <<>>),
   Image("unknown", 1, 0, <<>>), Image("foreign", 3, 1, <<>>),
   Image("pe", 5, 10, <<Text, Stamp, Section("other", 5, 1, 4), Bss(9)>>),
   Image("pe", 4, 3, <<Section("undotted", 0, 1, 1), Bss(1),
                       Section("other", 2, 1, 3)>>),
   Image("pe", 4, 4, <<Text, [Stamp EXCEPT !.stamped = FALSE]>>),
   Image("pe", 2, 2, <<Section("other", 0, 1, 1)>>)}
===============================================================================
