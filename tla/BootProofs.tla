------------------------------ MODULE BootProofs ------------------------------
(***************************************************************************)
(* Theorems about the boot, for any images under the two names, any size   *)
(* of the reader's chunks and any number of calls the firmware fails.      *)
(***************************************************************************)
EXTENDS Boot, TLAPS

Jumped == pc \in {"jump", "platform", "running"}
Prepared == pc \in {"open", "size", "read", "load", "sections", "stack", "start",
                    "check", "fill", "exit", "jump", "platform", "running"}

(* What each step on the way to the kernel leaves in the header.           *)
HeaderSoFar ==
  /\ Prepared => header.bitmap
  /\ Prepared /\ file = "kernel" =>
       header.magic /\ ~header.tables /\ drive \in {"checked", "formatted"}
  /\ pc \in {"entry", "map", "bitmap", "check", "fill"} => file = "syschk"
  /\ pc = "fill" => drive \in {"checked", "formatted"}
  /\ Jumped => file = "kernel" /\ header.image = "kernel"
  /\ pc \in {"platform", "running"} => thread.start

(* Code was found only in an image of this machine, and the thread is of   *)
(* the file at hand.                                                       *)
ThreadOfFile ==
  /\ pc \in {"sections", "stack", "start"} \/ Jumped =>
       (thread.start => This.kind = "pe")
  /\ pc = "sections" => This.kind = "pe" /\ thread.section \in Nat \ {0}
  /\ pc = "stack" => ~thread.start

(* Until a read fails, the reader counts what it has read, and the blob is *)
(* the file up to there.                                                   *)
Followed == /\ read.count = read.at /\ read.at <= This.size
            /\ \A c \in 0 .. (Cells - 1) : c < read.count => blob[c] = c

ReaderInStep ==
  /\ overrun => misread
  /\ pc = "size" => read = Closed
  /\ pc \in {"size", "read", "sections", "stack", "start"} /\ ~misread => Followed
  /\ pc = "sections" => read.count >= This.size

(* What was laid out so far of the sections is whole, in pages given.      *)
LaidUpTo(last) ==
  \A n \in 1 .. Len(This.sections) : n <= last =>
    LET s == This.sections[n]
    IN \A k \in 0 .. (s.raw - 1) : mem[s.va + k] = s.ptr + k

SectionsSoFar ==
  ~misread /\ thread.given =>
    /\ pc = "sections" => LaidUpTo(thread.section - 1)
    /\ pc = "start" /\ thread.start => LaidUpTo(Len(This.sections))

(* A cell that holds something was reached from a section laid out.        *)
TouchedBefore(c, f, last) == \E m \in 1 .. Len(f.sections) : m < last /\ c \in Touched(f.sections[m])
TouchedSoFar ==
  \A c \in 0 .. (Cells - 1) :
    mem[c] # None => This.kind = "pe" /\ TouchedBefore(c, This, thread.section)

IInv == /\ TypeOK /\ HeaderSoFar /\ ThreadOfFile /\ ReaderInStep
        /\ SectionsSoFar /\ TouchedSoFar

(* The file at hand is one of the images.                                  *)
LEMMA ThisType == TypeOK => This \in Images
BY DEF TypeOK, This

(* It holds at first.                                                      *)
LEMMA InitInvariant == Init => IInv
<1> SUFFICES ASSUME Init PROVE IInv
  OBVIOUS
<1> USE BootAssumption DEF Init
<1>1. TypeOK
  <2>1. blob \in [0 .. (Cells - 1) -> Nat \cup {None}]
        /\ mem \in [0 .. (Cells - 1) -> Nat \cup {None, Zero, Other}]
    BY DEF Empty
  <2>2. read \in [count : Nat, at : Nat, buf : 0 .. Chunk]
    BY DEF Closed
  <2>3. thread \in [section : Nat, start : BOOLEAN, stack : BOOLEAN, given : BOOLEAN]
    BY DEF NoThread
  <2>4. header \in [bitmap : BOOLEAN, magic : BOOLEAN, tables : BOOLEAN,
                    image : Files \cup {"none"}]
    OBVIOUS
  <2>5. firmware \in [key : BOOLEAN, left : BOOLEAN]
    OBVIOUS
  <2>6. failures \in 0 .. MaxFailures
    OBVIOUS
  <2> HIDE DEF Init
  <2>7. disk \in [Files -> Images] /\ pc = "entry" /\ file = "syschk" /\ drive = "unknown"
        /\ overrun = FALSE /\ misread = FALSE
    BY DEF Init
  <2> QED
    BY <2>1, <2>2, <2>3, <2>4, <2>5, <2>6, <2>7 DEF TypeOK, Files, Ends
<1>2. HeaderSoFar /\ ThreadOfFile /\ ReaderInStep /\ SectionsSoFar
  BY DEF HeaderSoFar, ThreadOfFile, ReaderInStep, SectionsSoFar, Prepared, Jumped, NoThread
<1>3. TouchedSoFar
  BY DEF TouchedSoFar, Empty
<1> QED
  BY <1>1, <1>2, <1>3 DEF IInv
-----------------------------------------------------------------------------
(* The map key and the failures left stay what they are: a flag, a number. *)
LEMMA CallsTyped ==
  TypeOK => /\ Pool \/ Pages \/ UNCHANGED firmware => firmware' \in [key : BOOLEAN, left : BOOLEAN]
            /\ Fails \/ Works => failures' \in 0 .. MaxFailures
<1> SUFFICES ASSUME TypeOK PROVE /\ Pool \/ Pages \/ UNCHANGED firmware =>
                                      firmware' \in [key : BOOLEAN, left : BOOLEAN]
                                 /\ Fails \/ Works => failures' \in 0 .. MaxFailures
  OBVIOUS
<1>1. [firmware EXCEPT !.key = FALSE] \in [key : BOOLEAN, left : BOOLEAN]
  BY DEF TypeOK
<1>2. Pool \/ Pages \/ UNCHANGED firmware => firmware' \in [key : BOOLEAN, left : BOOLEAN]
  BY <1>1 DEF TypeOK, Pool, Pages
<1>3. Fails \/ Works => failures' \in 0 .. MaxFailures
  BY BootAssumption DEF TypeOK, Fails, Works
<1> QED
  BY <1>2, <1>3

(* Every step keeps the state typed.                                       *)
LEMMA TypeInductive == TypeOK /\ ReaderInStep /\ [Next]_vars => TypeOK'
<1> SUFFICES ASSUME TypeOK, ReaderInStep, [Next]_vars PROVE TypeOK'
  OBVIOUS
<1> USE BootAssumption DEF TypeOK, Files, Ends, reader, image
<1>1. CASE Entry
  <2>1. failures' \in 0 .. MaxFailures
    BY <1>1, CallsTyped DEF Entry
  <2> QED
    BY <1>1, <2>1 DEF Entry, This
<1>2. CASE GetMemoryMap
  <2>1. failures' \in 0 .. MaxFailures
    BY <1>2, CallsTyped DEF GetMemoryMap
  <2>2. firmware' \in [key : BOOLEAN, left : BOOLEAN]
    BY <1>2 DEF GetMemoryMap
  <2>3. pc' \in {"bitmap", "lost"}
    BY <1>2 DEF GetMemoryMap
  <2> QED
    BY <1>2, <2>1, <2>2, <2>3 DEF GetMemoryMap, This
<1>3. CASE AllocateBitMap
  <2>1. failures' \in 0 .. MaxFailures /\ firmware' \in [key : BOOLEAN, left : BOOLEAN]
    BY <1>3, CallsTyped DEF AllocateBitMap
  <2>2. header' \in [bitmap : BOOLEAN, magic : BOOLEAN, tables : BOOLEAN,
                     image : Files \cup {"none"}]
    BY <1>3 DEF AllocateBitMap
  <2>3. pc' \in {"open", "bitmap"}
    BY <1>3 DEF AllocateBitMap
  <2> QED
    BY <1>3, <2>1, <2>2, <2>3 DEF AllocateBitMap, This
<1>4. CASE OpenFile
  <2>1. failures' \in 0 .. MaxFailures
    BY <1>4, CallsTyped DEF OpenFile
  <2>2. read' \in [count : Nat, at : Nat, buf : 0 .. Chunk]
    BY <1>4 DEF OpenFile, Closed
  <2>3. pc' \in {"lost", "size"}
    BY <1>4 DEF OpenFile
  <2>4. blob' \in [0 .. (Cells - 1) -> Nat \cup {None}]
    BY <1>4 DEF OpenFile, Empty
  <2>5. overrun' \in BOOLEAN /\ misread' \in BOOLEAN
    BY <1>4 DEF OpenFile
  <2> QED
    BY <1>4, <2>1, <2>2, <2>3, <2>4, <2>5 DEF OpenFile
<1>5. CASE AllocateBlob
  <2>1. failures' \in 0 .. MaxFailures /\ firmware' \in [key : BOOLEAN, left : BOOLEAN]
    BY <1>5, CallsTyped DEF AllocateBlob
  <2>2. pc' \in {"stopped", "lost", "read"}
    BY <1>5 DEF AllocateBlob, NoBlob
  <2>3. read'.at <= This.size /\ This' = This
    BY <1>5, ThisType DEF AllocateBlob, This, ReaderInStep, Closed
  <2> QED
    BY <1>5, <2>1, <2>2, <2>3 DEF AllocateBlob
<1>6. CASE ReadChunk
  <2>1. This.size \in Nat /\ This' = This
    BY <1>6 DEF ReadChunk, This
  <2> DEFINE n == Least(read.buf, This.size - read.at)
  <2>2. n \in 0 .. Chunk /\ read.at + n <= This.size
    BY <1>6, <2>1 DEF ReadChunk, Least
  <2>3. read' \in [count : Nat, at : Nat, buf : 0 .. Chunk] /\ read'.at <= This.size
    BY <1>6, <2>2 DEF ReadChunk, Took
  <2>4. blob' \in [0 .. (Cells - 1) -> Nat \cup {None}]
    BY <1>6, <2>2 DEF ReadChunk
  <2>5. overrun' \in BOOLEAN
    BY <1>6 DEF ReadChunk
  <2> QED
    BY <1>6, <2>1, <2>3, <2>4, <2>5 DEF ReadChunk, Works
<1>7. CASE ReadFails
  <2>1. failures' \in 0 .. MaxFailures
    BY <1>7, CallsTyped DEF ReadFails
  <2>2. read' \in [count : Nat, at : Nat, buf : 0 .. Chunk] /\ read'.at = read.at
    <3>1. read \in [count : Nat, at : Nat, buf : 0 .. Chunk]
          /\ read' = [read EXCEPT !.count = read.count + read.buf]
      BY <1>7 DEF ReadFails
    <3> HIDE DEF TypeOK
    <3>2. read.count + read.buf \in Nat
      BY <3>1, BootAssumption
    <3> QED BY <3>1, <3>2
  <2> QED
    BY <1>7, <2>1, <2>2 DEF ReadFails, This
<1>8. CASE Load
  <2>1. failures' \in 0 .. MaxFailures /\ firmware' \in [key : BOOLEAN, left : BOOLEAN]
    BY <1>8, CallsTyped DEF Load
  <2>2. thread' \in [section : Nat, start : BOOLEAN, stack : BOOLEAN, given : BOOLEAN]
    <3>1. NoThread \in [section : Nat, start : BOOLEAN, stack : BOOLEAN, given : BOOLEAN]
      BY DEF NoThread
    <3>2. \A given \in BOOLEAN :
            [NoThread EXCEPT !.section = 1, !.given = given]
              \in [section : Nat, start : BOOLEAN, stack : BOOLEAN, given : BOOLEAN]
      BY DEF NoThread
    <3>3. \/ thread' \in {NoThread, thread}
          \/ \E given \in BOOLEAN : thread' = [NoThread EXCEPT !.section = 1, !.given = given]
      BY <1>8 DEF Load
    <3> QED
      BY <3>1, <3>2, <3>3
  <2>3. mem' \in [0 .. (Cells - 1) -> Nat \cup {None, Zero, Other}]
    BY <1>8 DEF Load, Empty
  <2>4. pc' \in {"stack", "start", "sections", "lost"}
    BY <1>8 DEF Load
  <2> QED
    BY <1>8, <2>1, <2>2, <2>3, <2>4 DEF Load, This
<1>9. CASE LoadSection
  <2> DEFINE s == This.sections[thread.section]
  <2>1. CASE s.name = ".ldr" /\ ~s.stamped
    BY <1>9, <2>1 DEF LoadSection, This
  <2>2. CASE ~(s.name = ".ldr" /\ ~s.stamped)
    <3>1. mem' = Laid(s) \/ mem' = mem
      BY <1>9, <2>2 DEF LoadSection
    <3>2. \A p : Byte(p) \in Nat \cup {None, Other}
      BY DEF Byte
    <3>3. mem' \in [0 .. (Cells - 1) -> Nat \cup {None, Zero, Other}]
      BY <3>1, <3>2 DEF Laid
    <3>4. thread' = [thread EXCEPT !.section = @ + 1, !.start = @ \/ IsCode(s)]
      BY <1>9, <2>2 DEF LoadSection
    <3>5. (thread.start \/ IsCode(s)) \in BOOLEAN /\ thread.section + 1 \in Nat
      OBVIOUS
    <3>6. thread' \in [section : Nat, start : BOOLEAN, stack : BOOLEAN, given : BOOLEAN]
      BY <3>4, <3>5
    <3> QED
      BY <1>9, <2>2, <3>3, <3>6 DEF LoadSection, This
  <2> QED
    BY <2>1, <2>2
<1>10. CASE AllocateStack
  <2>1. failures' \in 0 .. MaxFailures /\ firmware' \in [key : BOOLEAN, left : BOOLEAN]
    BY <1>10, CallsTyped DEF AllocateStack
  <2>2. thread' \in [section : Nat, start : BOOLEAN, stack : BOOLEAN, given : BOOLEAN]
    BY <1>10 DEF AllocateStack
  <2> QED
    BY <1>10, <2>1, <2>2 DEF AllocateStack, This
<1>11. CASE StartCheck
  <2>1. firmware' \in [key : BOOLEAN, left : BOOLEAN]
    BY <1>11, CallsTyped DEF StartCheck
  <2>2. thread' \in [section : Nat, start : BOOLEAN, stack : BOOLEAN, given : BOOLEAN]
    BY <1>11 DEF StartCheck
  <2> QED
    BY <1>11, <2>1, <2>2 DEF StartCheck, This
<1>12. CASE CheckPartition
  BY <1>12 DEF CheckPartition, This
<1>13. CASE Fill
  BY <1>13 DEF Fill, This, Empty
<1>14. CASE ExitBootServices
  BY <1>14 DEF ExitBootServices, This
<1>15. CASE StartKernel
  BY <1>15 DEF StartKernel, This
<1>16. CASE InitPlatform
  BY <1>16 DEF InitPlatform, This
<1>18. CASE RunAstray
  BY <1>18 DEF RunAstray, This, image
<1>17. CASE UNCHANGED vars
  BY <1>17 DEF vars, This
<1> QED
  BY <1>1, <1>2, <1>3, <1>4, <1>5, <1>6, <1>7, <1>8, <1>9, <1>10, <1>11, <1>12,
     <1>13, <1>14, <1>15, <1>16, <1>17, <1>18 DEF Next, Main, Reading, Loading, End
-----------------------------------------------------------------------------
(* Every step on the way leaves in the header what was put there, and the  *)
(* kernel's turn comes only after the drive's.                             *)
LEMMA HeaderInductive == TypeOK /\ HeaderSoFar /\ [Next]_vars => HeaderSoFar'
<1> SUFFICES ASSUME TypeOK, HeaderSoFar, [Next]_vars PROVE HeaderSoFar'
  OBVIOUS
<1> USE DEF HeaderSoFar, Prepared, Jumped
<1>0. header \in [bitmap : BOOLEAN, magic : BOOLEAN, tables : BOOLEAN,
                  image : Files \cup {"none"}] /\ file \in {"syschk", "kernel"}
  BY DEF TypeOK, Files
<1>1. CASE Entry
  BY <1>1 DEF Entry
<1>2. CASE GetMemoryMap
  BY <1>2 DEF GetMemoryMap
<1>3. CASE AllocateBitMap
  <2>1. pc' = "open" => header' = [header EXCEPT !.bitmap = TRUE, !.tables = TRUE]
    BY <1>3 DEF AllocateBitMap
  <2>2. pc' = "open" => header'.bitmap
    BY <1>0, <2>1
  <2>3. pc' \in {"open", "bitmap"} /\ file' = file /\ file = "syschk"
    BY <1>3, <1>0 DEF AllocateBitMap
  <2> QED
    BY <1>3, <2>2, <2>3
<1>4. CASE OpenFile
  BY <1>4 DEF OpenFile, image
<1>5. CASE AllocateBlob
  BY <1>5 DEF AllocateBlob, NoBlob
<1>6. CASE ReadChunk
  BY <1>6 DEF ReadChunk
<1>7. CASE ReadFails
  BY <1>7 DEF ReadFails
<1>8. CASE Load
  BY <1>8 DEF Load
<1>9. CASE LoadSection
  BY <1>9 DEF LoadSection
<1>10. CASE AllocateStack
  BY <1>10 DEF AllocateStack
<1>11. CASE StartCheck
  BY <1>11 DEF StartCheck
<1>12. CASE CheckPartition
  BY <1>12 DEF CheckPartition
<1>13. CASE Fill
  <2>1. header'.bitmap = header.bitmap /\ header'.magic /\ ~header'.tables
    BY <1>0, <1>13 DEF Fill
  <2> QED
    BY <1>13, <2>1 DEF Fill
<1>14. CASE ExitBootServices
  BY <1>0, <1>14 DEF ExitBootServices
<1>15. CASE StartKernel
  BY <1>15 DEF StartKernel, image
<1>16. CASE InitPlatform
  BY <1>16 DEF InitPlatform, image
<1>18. CASE RunAstray
  BY <1>18 DEF RunAstray, This, image
<1>17. CASE UNCHANGED vars
  BY <1>17 DEF vars, image
<1> QED
  BY <1>1, <1>2, <1>3, <1>4, <1>5, <1>6, <1>7, <1>8, <1>9, <1>10, <1>11, <1>12,
     <1>13, <1>14, <1>15, <1>16, <1>17, <1>18 DEF Next, Main, Reading, Loading, End

(* The thread that has code is of an image of this machine.                *)
LEMMA ThreadInductive ==
  TypeOK /\ HeaderSoFar /\ ThreadOfFile /\ [Next]_vars => ThreadOfFile'
<1> SUFFICES ASSUME TypeOK, HeaderSoFar, ThreadOfFile, [Next]_vars PROVE ThreadOfFile'
  OBVIOUS
<1> USE DEF ThreadOfFile, Jumped, This
<1>0. thread \in [section : Nat, start : BOOLEAN, stack : BOOLEAN, given : BOOLEAN]
  BY DEF TypeOK
<1>1. CASE Entry
  BY <1>1 DEF Entry
<1>2. CASE GetMemoryMap
  BY <1>2 DEF GetMemoryMap
<1>3. CASE AllocateBitMap
  BY <1>3 DEF AllocateBitMap
<1>4. CASE OpenFile
  BY <1>4 DEF OpenFile
<1>5. CASE AllocateBlob
  BY <1>5 DEF AllocateBlob, NoBlob
<1>6. CASE ReadChunk
  BY <1>6 DEF ReadChunk
<1>7. CASE ReadFails
  BY <1>7 DEF ReadFails
<1>8. CASE Load
  <2>1. This' = This /\ pc = "read" /\ pc' \in {"stack", "start", "sections", "lost"}
    BY <1>8 DEF Load
  <2>2. \/ pc' \in {"stack", "start"} /\ thread' = NoThread
        \/ pc' = "sections" /\ This.kind = "pe" /\ \E given \in BOOLEAN :
             thread' = [NoThread EXCEPT !.section = 1, !.given = given]
        \/ pc' = "lost"
    BY <1>8 DEF Load
  <2>3. ~NoThread.start
    BY DEF NoThread
  <2>4. \A given \in BOOLEAN : [NoThread EXCEPT !.section = 1, !.given = given].section = 1
    BY DEF NoThread
  <2>5. CASE thread' = NoThread /\ pc' \in {"stack", "start"}
    BY <2>1, <2>3, <2>5
  <2>6. CASE pc' = "lost"
    BY <2>6
  <2>7. CASE pc' = "sections"
    <3>1. thread'.section = 1 /\ This.kind = "pe"
      BY <2>2, <2>4, <2>7
    <3>2. 1 \in Nat \ {0}
      OBVIOUS
    <3> QED BY <2>1, <2>7, <3>1, <3>2
  <2> QED BY <2>2, <2>5, <2>6, <2>7
<1>9. CASE LoadSection
  <2>1. This' = This /\ pc' \in {"sections", "stopped", "lost"} /\ This.kind = "pe"
    BY <1>9 DEF LoadSection
  <2>2. pc' = "sections" => thread' = [thread EXCEPT !.section = @ + 1,
          !.start = @ \/ IsCode(This.sections[thread.section])]
    BY <1>9 DEF LoadSection
  <2> DEFINE code == thread.start \/ IsCode(This.sections[thread.section])
  <2>3. pc' = "sections" => thread' = [thread EXCEPT !.section = @ + 1, !.start = code]
    BY <2>2
  <2> HIDE DEF code
  <2>4. pc' = "sections" => thread'.section = thread.section + 1
    BY <1>0, <2>3
  <2>5. pc' = "sections" => thread'.section \in Nat \ {0}
    BY <1>0, <2>4
  <2> QED
    BY <2>1, <2>5
<1>10. CASE AllocateStack
  <2>1. thread'.start = thread.start /\ This' = This /\ pc' = "start"
    BY <1>0, <1>10 DEF AllocateStack
  <2> QED
    BY <1>10, <2>1 DEF AllocateStack
<1>11. CASE StartCheck
  BY <1>11 DEF StartCheck
<1>12. CASE CheckPartition
  BY <1>12 DEF CheckPartition
<1>13. CASE Fill
  BY <1>13 DEF Fill
<1>14. CASE ExitBootServices
  BY <1>14 DEF ExitBootServices, image
<1>15. CASE StartKernel
  BY <1>15 DEF StartKernel, image
<1>16. CASE InitPlatform
  BY <1>16 DEF InitPlatform, image
<1>18. CASE RunAstray
  BY <1>18 DEF RunAstray, This, image
<1>17. CASE UNCHANGED vars
  BY <1>17 DEF vars, image
<1> QED
  BY <1>1, <1>2, <1>3, <1>4, <1>5, <1>6, <1>7, <1>8, <1>9, <1>10, <1>11, <1>12,
     <1>13, <1>14, <1>15, <1>16, <1>17, <1>18 DEF Next, Main, Reading, Loading, End
-----------------------------------------------------------------------------
(* The place after a chunk is the same in the count and in the file.       *)
LEMMA ReaderInductive == TypeOK /\ ReaderInStep /\ [Next]_vars => ReaderInStep'
<1> SUFFICES ASSUME TypeOK, ReaderInStep, [Next]_vars PROVE ReaderInStep'
  OBVIOUS
<1> USE DEF ReaderInStep, Followed, reader
<1>0. read \in [count : Nat, at : Nat, buf : 0 .. Chunk] /\ overrun \in BOOLEAN
      /\ misread \in BOOLEAN /\ This.size \in Nat
  BY BootAssumption, ThisType DEF TypeOK
<1>1. CASE Entry
  BY <1>1 DEF Entry, This
<1>2. CASE GetMemoryMap
  BY <1>2 DEF GetMemoryMap, This
<1>3. CASE AllocateBitMap
  BY <1>3 DEF AllocateBitMap, This
<1>4. CASE OpenFile
  <2>1. This' = This /\ read' = Closed /\ ~overrun' /\ pc' \in {"lost", "size"}
    BY <1>4 DEF OpenFile, This
  <2>2. Closed.count = 0 /\ Closed.at = 0
    BY DEF Closed
  <2>3. read'.count = 0 /\ read'.at = 0
    BY <2>1, <2>2
  <2> QED
    BY <1>0, <2>1, <2>3 DEF Closed
<1>5. CASE AllocateBlob
  BY <1>5 DEF AllocateBlob, NoBlob, Closed, This
<1>6. CASE ReadChunk
  <2>1. PICK n : /\ n = Least(read.buf, This.size - read.at)
                 /\ read' = Took(n)
                 /\ blob' = [c \in DOMAIN blob |->
                               IF c \in read.count .. (read.count + n - 1)
                               THEN read.at + (c - read.count) ELSE blob[c]]
                 /\ overrun' = (overrun \/ read.count + n > This.size)
    BY <1>6 DEF ReadChunk
  <2>2. This' = This /\ pc' = "read" /\ pc = "read" /\ misread' = misread
    BY <1>6 DEF ReadChunk, This
  <2>3. CASE misread
    BY <2>2, <2>3
  <2>4. CASE ~misread
    <3>1. read.count = read.at /\ read.at <= This.size
          /\ \A c \in 0 .. (Cells - 1) : c < read.count => blob[c] = c
      BY <2>2, <2>4
    <3>2. n \in Nat /\ read.at + n <= This.size
      BY <1>0, <2>1, <3>1 DEF Least
    <3>3. read'.count = read.count + n /\ read'.at = read.at + n
      BY <2>1 DEF Took
    <3>4. ~overrun'
      BY <1>0, <2>1, <2>4, <3>1, <3>2
    <3>5. ASSUME NEW c \in 0 .. (Cells - 1), c < read.count + n PROVE blob'[c] = c
      <4>1. c \in DOMAIN blob
        BY DEF TypeOK
      <4>2. CASE c < read.count
        BY <1>0, <2>1, <3>1, <4>1, <4>2, BootAssumption
      <4>3. CASE c >= read.count
        BY <1>0, <2>1, <3>1, <3>2, <3>5, <4>1, <4>3, BootAssumption
      <4> QED
        BY <4>2, <4>3, <1>0, BootAssumption
    <3> QED
      BY <2>2, <3>1, <3>2, <3>3, <3>4, <3>5, <1>0
  <2> QED
    BY <2>3, <2>4
<1>7. CASE ReadFails
  BY <1>7 DEF ReadFails, This
<1>8. CASE Load
  BY <1>8 DEF Load, This
<1>9. CASE LoadSection
  BY <1>9 DEF LoadSection, This
<1>10. CASE AllocateStack
  BY <1>10 DEF AllocateStack, This
<1>11. CASE StartCheck
  BY <1>11 DEF StartCheck, This
<1>12. CASE CheckPartition
  BY <1>12 DEF CheckPartition, This
<1>13. CASE Fill
  BY <1>13 DEF Fill, This
<1>14. CASE ExitBootServices
  BY <1>14 DEF ExitBootServices, This
<1>15. CASE StartKernel
  BY <1>15 DEF StartKernel, This
<1>16. CASE InitPlatform
  BY <1>16 DEF InitPlatform, This
<1>18. CASE RunAstray
  BY <1>18 DEF RunAstray, This, image
<1>17. CASE UNCHANGED vars
  BY <1>17 DEF vars, This
<1> QED
  BY <1>1, <1>2, <1>3, <1>4, <1>5, <1>6, <1>7, <1>8, <1>9, <1>10, <1>11, <1>12,
     <1>13, <1>14, <1>15, <1>16, <1>17, <1>18 DEF Next, Main, Reading, Loading, End
-----------------------------------------------------------------------------
(* The sections of an image the linker made: typed, inside the file and    *)
(* the image, and one behind the other.                                    *)
LEMMA SectionFits ==
  ASSUME TypeOK, This.kind = "pe", NEW n \in 1 .. Len(This.sections)
  PROVE  LET s == This.sections[n]
         IN  /\ s.va \in Nat /\ s.raw \in Nat /\ s.bss \in Nat /\ s.ptr \in Nat
             /\ This.size \in Nat /\ This.image \in Nat /\ This.size <= Cells
             /\ s.ptr + s.raw <= This.size /\ s.va + s.raw + s.bss <= This.image
             /\ s.va + s.raw + s.bss <= Cells /\ s.va + s.raw <= Cells
             /\ \A m \in 1 .. (n - 1) :
                  LET t == This.sections[m]
                  IN  t.va + t.raw + t.bss <= s.va /\ t.va + t.raw <= s.va
<1>1. PICK f \in Images : f = This
  BY ThisType
<1>2. WellLinked(f) /\ f.sections \in Seq(Sections) /\ f.size \in Nat /\ f.image \in Nat
  BY <1>1, BootAssumption, ImagesAssumption
<1>3. \A m \in 1 .. Len(f.sections) : f.sections[m] \in Sections
  BY <1>1, <1>2
<1>4. \A m \in 1 .. Len(f.sections) :
        /\ f.sections[m].va \in Nat /\ f.sections[m].raw \in Nat
        /\ f.sections[m].bss \in Nat /\ f.sections[m].ptr \in Nat
  BY <1>3 DEF Sections
<1>5. \A v, w, z, y \in Int : z >= 0 /\ v + w + z <= y => v + w <= y
  OBVIOUS
<1>6. n \in 1 .. Len(f.sections) /\ Len(f.sections) \in Nat /\ Cells \in Nat
  BY <1>1, <1>2, BootAssumption
<1>7. LET s == f.sections[n]
      IN  /\ f.size <= Cells
          /\ s.ptr + s.raw <= f.size /\ s.va + s.raw + s.bss <= f.image
          /\ s.va + s.raw + s.bss <= Cells /\ s.va + s.raw <= Cells
  BY <1>2, <1>4, <1>6 DEF WellLinked
<1>8. ASSUME NEW m \in 1 .. (n - 1)
      PROVE  LET t == f.sections[m]
             IN  t.va + t.raw + t.bss <= f.sections[n].va /\ t.va + t.raw <= f.sections[n].va
  <2>1. m \in 1 .. Len(f.sections)
    BY <1>6
  <2>2. f.sections[m].va + f.sections[m].raw + f.sections[m].bss <= f.sections[n].va
    BY <1>2, <1>6 DEF WellLinked
  <2> QED BY <1>4, <1>6, <2>1, <2>2
<1> QED
  BY <1>1, <1>2, <1>4, <1>6, <1>7, <1>8

(* A byte of a section that ends before y lies before y, and in the cells  *)
(* that are touched.                                                       *)
LEMMA ByteInside ==
  ASSUME NEW v \in Nat, NEW w \in Nat, NEW y \in Nat, v + w <= y, NEW k \in 0 .. (w - 1)
  PROVE  /\ v + k \in 0 .. (y - 1) /\ v + k < y
         /\ v + k \in v .. (v + WordSize * w - 1)
BY DEF WordSize

(* A step that lays out a section: its cells are the file's, and no cell   *)
(* before it is touched.                                                   *)
LEMMA LaidOut ==
  ASSUME TypeOK, ReaderInStep, ~misread, pc = "sections", This.kind = "pe",
         NEW n \in 1 .. Len(This.sections), mem' = Laid(This.sections[n])
  PROVE  LET s == This.sections[n]
         IN  /\ \A k \in 0 .. (s.raw - 1) : mem'[s.va + k] = s.ptr + k
             /\ \A c \in 0 .. (Cells - 1) : c < s.va => mem'[c] = mem[c]
<1> DEFINE s == This.sections[n]
<1>1. /\ s.va \in Nat /\ s.raw \in Nat /\ s.ptr \in Nat /\ This.size \in Nat
      /\ This.size <= Cells /\ s.ptr + s.raw <= This.size /\ s.va + s.raw <= Cells
  BY SectionFits
<1>2. Cells \in Nat /\ DOMAIN mem = 0 .. (Cells - 1) /\ DOMAIN blob = 0 .. (Cells - 1)
  BY BootAssumption DEF TypeOK
<1>3. \A c \in 0 .. (Cells - 1) :
        mem'[c] = IF c \in Touched(s) THEN Byte(s.ptr + (c - s.va)) ELSE mem[c]
  BY <1>2 DEF Laid
<1>4. \A p \in 0 .. (This.size - 1) : Byte(p) = p
  <2>1. read.count \in Nat /\ read.count >= This.size /\ Followed
    BY DEF ReaderInStep, TypeOK
  <2> QED
    BY <1>1, <1>2, <2>1 DEF Byte, Followed
<1> HIDE DEF s
<1>5. ASSUME NEW k \in 0 .. (s.raw - 1) PROVE mem'[s.va + k] = s.ptr + k
  <2>1. s.va + k \in 0 .. (Cells - 1) /\ s.va + k \in Touched(s)
    BY <1>1, <1>2, <1>5, ByteInside DEF Touched
  <2>2. s.ptr + ((s.va + k) - s.va) = s.ptr + k /\ s.ptr + k \in 0 .. (This.size - 1)
    BY <1>1
  <2>3. mem'[s.va + k] = Byte(s.ptr + ((s.va + k) - s.va))
    BY <1>3, <2>1
  <2> QED
    BY <1>4, <2>2, <2>3
<1>6. ASSUME NEW c \in 0 .. (Cells - 1), c < s.va PROVE mem'[c] = mem[c]
  BY <1>1, <1>2, <1>3, <1>6 DEF Touched, WordSize
<1> QED
  BY <1>5, <1>6 DEF s

(* Laying out a section leaves those before it whole, as they end before   *)
(* it begins, however far the four times too many cells reach behind it.   *)
LEMMA SectionsInductive ==
  TypeOK /\ ThreadOfFile /\ ReaderInStep /\ SectionsSoFar /\ [Next]_vars => SectionsSoFar'
<1> SUFFICES ASSUME TypeOK, ThreadOfFile, ReaderInStep, SectionsSoFar, [Next]_vars
             PROVE  SectionsSoFar'
  OBVIOUS
<1> USE DEF SectionsSoFar
<1>0. thread \in [section : Nat, start : BOOLEAN, stack : BOOLEAN, given : BOOLEAN]
      /\ Len(This.sections) \in Nat
  BY ThisType, BootAssumption DEF TypeOK
<1>1. CASE Entry
  BY <1>1 DEF Entry
<1>2. CASE GetMemoryMap
  BY <1>2 DEF GetMemoryMap
<1>3. CASE AllocateBitMap
  BY <1>3 DEF AllocateBitMap
<1>4. CASE OpenFile
  BY <1>4 DEF OpenFile
<1>5. CASE AllocateBlob
  BY <1>5 DEF AllocateBlob, NoBlob
<1>6. CASE ReadChunk
  BY <1>6 DEF ReadChunk
<1>7. CASE ReadFails
  BY <1>7 DEF ReadFails
<1>8. CASE Load
  <2>1. misread' = misread /\ pc' \in {"stack", "start", "sections", "lost"}
    BY <1>8 DEF Load, reader
  <2>2. CASE pc' = "sections"
    <3>1. thread'.section = 1 /\ This' = This
      <4>1. PICK given \in BOOLEAN : thread' = [NoThread EXCEPT !.section = 1, !.given = given]
        BY <1>8, <2>2 DEF Load
      <4> QED BY <1>8, <4>1 DEF Load, NoThread, This
    <3> QED
      BY <1>0, <2>1, <2>2, <3>1 DEF LaidUpTo
  <2>3. CASE pc' = "start"
    <3>1. ~thread'.start
      BY <1>8, <2>3 DEF Load, NoThread
    <3> QED
      BY <2>1, <2>3, <3>1
  <2> QED
    BY <2>1, <2>2, <2>3
<1>9. CASE LoadSection
  <2>1. /\ pc = "sections" /\ This' = This /\ misread' = misread
        /\ This.kind = "pe" /\ thread.section \in 1 .. Len(This.sections)
    BY <1>0, <1>9 DEF LoadSection, This, ThreadOfFile, reader
  <2>4. PICK m \in 1 .. Len(This.sections) : m = thread.section
    BY <2>1
  <2> DEFINE s == This.sections[m]
  <2>5. pc' \in {"sections", "stopped", "lost"}
    BY <1>9 DEF LoadSection
  <2>2. CASE pc' # "sections" \/ ~thread'.given
    BY <2>2, <2>5
  <2>3. CASE pc' = "sections" /\ thread'.given
    <3>0. thread' = [thread EXCEPT !.section = @ + 1, !.start = @ \/ IsCode(s)]
          /\ (mem' = Laid(s) \/ ~thread.given)
      BY <1>9, <2>1, <2>3, <2>4 DEF LoadSection
    <3> HIDE DEF s
    <3>4. thread'.section = thread.section + 1 /\ thread'.given = thread.given
      BY <1>0, <3>0
    <3>1. mem' = Laid(s) /\ pc' = "sections" /\ thread.given
      BY <2>3, <3>0, <3>4
    <3> USE DEF s
    <3>2. thread'.section - 1 = m
      BY <1>0, <2>4, <3>4
    <3>3. ASSUME ~misread PROVE LaidUpTo(m)'
      <4>1. /\ \A k \in 0 .. (s.raw - 1) : mem'[s.va + k] = s.ptr + k
            /\ \A c \in 0 .. (Cells - 1) : c < s.va => mem'[c] = mem[c]
        BY <2>1, <3>1, <3>3, LaidOut
      <4>2. LaidUpTo(m - 1)
        BY <2>1, <2>4, <3>1, <3>3
      <4>3. ASSUME NEW n \in 1 .. Len(This.sections), n <= m,
                   NEW k \in 0 .. (This.sections[n].raw - 1)
            PROVE  mem'[This.sections[n].va + k] = This.sections[n].ptr + k
        <5>1. CASE n = m
          BY <4>1, <5>1
        <5>2. CASE n < m
          <6>1. This.sections[n].va + This.sections[n].raw <= s.va
            <7>1. n \in 1 .. (m - 1)
              BY <5>2
            <7> QED BY <2>1, <7>1, SectionFits
          <6>2. /\ This.sections[n].va \in Nat /\ This.sections[n].raw \in Nat
                /\ This.sections[n].va + This.sections[n].raw <= Cells /\ s.va \in Nat
            BY <2>1, SectionFits
          <6>3. /\ This.sections[n].va + k \in 0 .. (Cells - 1)
                /\ This.sections[n].va + k < s.va
            BY <4>3, <6>1, <6>2, ByteInside, BootAssumption
          <6>4. mem[This.sections[n].va + k] = This.sections[n].ptr + k
            BY <2>1, <4>2, <5>2 DEF LaidUpTo
          <6> QED
            BY <4>1, <6>3, <6>4
        <5> QED
          BY <2>1, <4>3, <5>1, <5>2
      <4> QED
        BY <2>1, <4>3 DEF LaidUpTo
    <3> QED
      BY <2>1, <3>1, <3>2, <3>3
  <2> QED
    BY <2>2, <2>3
<1>10. CASE AllocateStack
  <2>1. /\ This' = This /\ misread' = misread /\ mem' = mem /\ pc' = "start"
        /\ thread'.start = thread.start /\ thread'.given = thread.given
    BY <1>0, <1>10 DEF AllocateStack, This, reader
  <2>2. CASE pc = "stack"
    BY <2>1, <2>2 DEF ThreadOfFile
  <2>3. CASE pc = "sections" /\ thread.section > Len(This.sections)
    BY <1>0, <2>1, <2>3 DEF LaidUpTo
  <2> QED
    BY <1>10, <2>2, <2>3 DEF AllocateStack
<1>11. CASE StartCheck
  BY <1>11 DEF StartCheck
<1>12. CASE CheckPartition
  BY <1>12 DEF CheckPartition
<1>13. CASE Fill
  BY <1>13 DEF Fill
<1>14. CASE ExitBootServices
  BY <1>14 DEF ExitBootServices
<1>15. CASE StartKernel
  BY <1>15 DEF StartKernel
<1>16. CASE InitPlatform
  BY <1>16 DEF InitPlatform
<1>18. CASE RunAstray
  BY <1>18 DEF RunAstray, This, image
<1>17. CASE UNCHANGED vars
  BY <1>17 DEF vars, image, reader, This, LaidUpTo
<1> QED
  BY <1>1, <1>2, <1>3, <1>4, <1>5, <1>6, <1>7, <1>8, <1>9, <1>10, <1>11, <1>12,
     <1>13, <1>14, <1>15, <1>16, <1>17, <1>18 DEF Next, Main, Reading, Loading, End
-----------------------------------------------------------------------------
(* Four times too many cells lie in eight times too many pages.            *)
LEMMA TouchedGranted ==
  ASSUME TypeOK, This.kind = "pe", NEW n \in 1 .. Len(This.sections)
  PROVE  Touched(This.sections[n]) \subseteq Granted
<1>1. PICK v \in Nat, w \in Nat, i \in Nat :
        /\ v = This.sections[n].va /\ w = This.sections[n].raw /\ i = This.image
        /\ v + w <= i
  BY SectionFits
<1>2. ASSUME NEW c \in v .. (v + 4 * w - 1) PROVE c \in 0 .. (i * 8 - 1)
  <2>1. v + w <= i
    BY <1>1
  <2>2. i * 8 \in Nat /\ v + 4 * w <= i * 8
    BY <2>1
  <2> QED
    BY <1>2, <2>2
<1>3. PageRatio = 8
  BY DEF PageRatio, PageSize
<1> QED
  BY <1>1, <1>2, <1>3 DEF Touched, Granted, WordSize, PagesFor

(* Every section reaches only its own cells.                               *)
LEMMA TouchedInductive == TypeOK /\ ThreadOfFile /\ TouchedSoFar /\ [Next]_vars => TouchedSoFar'
<1> SUFFICES ASSUME TypeOK, ThreadOfFile, TouchedSoFar, [Next]_vars PROVE TouchedSoFar'
  OBVIOUS
<1>0. thread \in [section : Nat, start : BOOLEAN, stack : BOOLEAN, given : BOOLEAN]
      /\ Len(This.sections) \in Nat /\ mem \in [0 .. (Cells - 1) -> Nat \cup {None, Zero, Other}]
  BY ThisType, BootAssumption DEF TypeOK
<1>1. ASSUME UNCHANGED <<mem, disk, file>>, thread'.section = thread.section
      PROVE  TouchedSoFar'
  <2>1. This' = This
    BY <1>1 DEF This
  <2> QED BY <1>1, <2>1 DEF TouchedSoFar
<1>2. CASE mem' = Empty
  BY <1>2 DEF TouchedSoFar, Empty
<1>3. CASE LoadSection
  <2>1. /\ This' = This /\ This.kind = "pe" /\ thread.section \in 1 .. Len(This.sections)
    BY <1>0, <1>3 DEF LoadSection, This, ThreadOfFile
  <2>2. PICK m \in 1 .. Len(This.sections) : m = thread.section
    BY <2>1
  <2>3. \/ mem' = mem /\ thread'.section = thread.section
        \/ (mem' = mem \/ mem' = Laid(This.sections[m])) /\ thread'.section = m + 1
    <3>1. PICK code : code = (thread.start \/ IsCode(This.sections[m]))
      OBVIOUS
    <3>2. \/ mem' = mem /\ thread' = thread
          \/ /\ mem' = mem \/ mem' = Laid(This.sections[m])
             /\ thread' = [thread EXCEPT !.section = @ + 1, !.start = code]
      BY <1>3, <2>2, <3>1 DEF LoadSection
    <3> QED BY <1>0, <2>2, <3>2
  <2>4. ASSUME NEW c \in 0 .. (Cells - 1), mem'[c] # None
        PROVE  TouchedBefore(c, This, thread'.section)
    <3>1. mem[c] # None \/ (c \in Touched(This.sections[m]) /\ thread'.section = m + 1)
      BY <1>0, <2>3, <2>4 DEF Laid
    <3> QED BY <1>0, <2>2, <2>3, <3>1 DEF TouchedSoFar, TouchedBefore
  <2> QED BY <2>1, <2>4 DEF TouchedSoFar
<1>4. \/ UNCHANGED <<mem, disk, file>> /\ thread'.section = thread.section
      \/ mem' = Empty \/ LoadSection
  <2>1. CASE StartCheck \/ AllocateStack
    BY <1>0, <2>1 DEF StartCheck, AllocateStack
  <2> QED BY <2>1
     DEF Next, Main, Reading, Loading, End, Entry, GetMemoryMap, AllocateBitMap, OpenFile,
       CheckPartition, Fill, ExitBootServices, StartKernel, RunAstray, InitPlatform,
       AllocateBlob, ReadChunk, ReadFails, Load, image, vars
<1> QED
  BY <1>1, <1>2, <1>3, <1>4

LEMMA TailInside ==
  ASSUME NEW v \in Nat, NEW w \in Nat, NEW z \in Nat, NEW y \in Nat, v + w + z <= y,
         NEW c, c \in (v + w) .. (v + w + z - 1)
  PROVE  c \in 0 .. (y - 1) /\ c < v + w + z
OBVIOUS

(* What a section reaches does not lie in the memory of one in front.      *)
LEMMA ReachedFromFront ==
  ASSUME TypeOK, This.kind = "pe", NEW n \in 1 .. Len(This.sections),
         NEW m \in 1 .. Len(This.sections), NEW c \in Touched(This.sections[m]),
         c < This.sections[n].va + This.sections[n].raw + This.sections[n].bss
  PROVE  m <= n
<1>1. This.sections[m].va \in Nat /\ c \in Int /\ c >= This.sections[m].va
      /\ This.sections[m].raw \in Nat
  BY SectionFits DEF Touched, WordSize
<1> SUFFICES ASSUME n < m PROVE FALSE
  OBVIOUS
<1>2. This.sections[n].va + This.sections[n].raw + This.sections[n].bss <= This.sections[m].va
      /\ This.sections[n].va \in Nat /\ This.sections[n].raw \in Nat /\ This.sections[n].bss \in Nat
  BY SectionFits
<1> QED BY <1>1, <1>2

(* The invariant is inductive.                                             *)
LEMMA Inductive == IInv /\ [Next]_vars => IInv'
BY TypeInductive, HeaderInductive, ThreadInductive, ReaderInductive, SectionsInductive,
   TouchedInductive DEF IInv

(* The invariant of the boot holds in every state.                         *)
THEOREM BootInvariant == Spec => []IInv
BY InitInvariant, Inductive, PTL DEF Spec

(* The boot's state is typed: where the reader is in a file, what lies in  *)
(* each cell behind the image's base, the thread, the header, the map key. *)
THEOREM BootTypeCorrect == Spec => []TypeOK
BY BootInvariant, PTL DEF IInv

(* The handover: whatever the disk holds and whichever calls fail, in any  *)
(* number, the kernel is begun only from an image of this machine with     *)
(* code in it, with the header marked, the memory's start in it and the    *)
(* firmware's tables out of it, after the drive was found good or was      *)
(* formatted.                                                              *)
THEOREM HandoverIsWhole == Spec => []HandoverWhole
<1>1. ASSUME IInv PROVE HandoverWhole
  <2> SUFFICES ASSUME Began PROVE /\ disk["kernel"].kind = "pe" /\ thread.start
           /\ header = [bitmap |-> TRUE, magic |-> TRUE, tables |-> FALSE,
                        image |-> "kernel"]
           /\ drive \in {"checked", "formatted"}
    BY DEF HandoverWhole
  <2>1. /\ file = "kernel" /\ header.image = "kernel" /\ thread.start
        /\ header.bitmap /\ header.magic /\ ~header.tables
        /\ drive \in {"checked", "formatted"}
    BY <1>1 DEF IInv, HeaderSoFar, Began, Jumped, Prepared
  <2>2. disk["kernel"].kind = "pe"
    BY <1>1, <2>1 DEF IInv, ThreadOfFile, Began, Jumped, This
  <2>3. header \in [bitmap : BOOLEAN, magic : BOOLEAN, tables : BOOLEAN,
                    image : Files \cup {"none"}]
    BY <1>1 DEF IInv, TypeOK
  <2>4. header.bitmap = TRUE /\ header.magic = TRUE /\ header.tables = FALSE
    BY <2>1, <2>3
  <2>5. header = [bitmap |-> TRUE, magic |-> TRUE, tables |-> FALSE, image |-> "kernel"]
    BY <2>1, <2>3, <2>4
  <2> QED
    BY <2>1, <2>2, <2>5
<1> QED
  BY <1>1, BootInvariant, PTL

(* The image: unless a read failed or its pages were not given, every      *)
(* section's bytes are at their place when it is jumped to, although       *)
(* laying out a section runs over the cells behind it; .bss is as it was   *)
(* found or run over; nothing is written behind the pages given, nor,      *)
(* unless a read failed, behind the reader's pool.                         *)
THEOREM ImageIsWhole == Spec => []ImageWhole
<1>1. ASSUME IInv PROVE ImageWhole
  <2>1. SectionsWhole
    <3>1. Len(This.sections) \in Nat
      BY <1>1, ThisType, BootAssumption DEF IInv
    <3> QED
      BY <1>1, <3>1 DEF IInv, SectionsSoFar, SectionsWhole, LaidUpTo
  <2>2. LoadInside
    <3> SUFFICES ASSUME NEW c \in 0 .. (Cells - 1), mem[c] # None PROVE c \in Granted
      BY <1>1 DEF LoadInside, IInv, TypeOK
    <3>1. PICK m \in 1 .. Len(This.sections) : c \in Touched(This.sections[m])
      BY <1>1 DEF IInv, TouchedSoFar, TouchedBefore
    <3> QED BY <1>1, <3>1, TouchedGranted DEF IInv, TouchedSoFar
  <2>3. BssAsFound
    <3> SUFFICES ASSUME pc = "start", thread.start, NEW n \in 1 .. Len(This.sections),
                        NEW c \in (This.sections[n].va + This.sections[n].raw) ..
                             (This.sections[n].va + This.sections[n].raw + This.sections[n].bss - 1)
                 PROVE  mem[c] = None \/ \E m \in 1 .. n : c \in Touched(This.sections[m])
      BY DEF BssAsFound
    <3>1. This.kind = "pe" /\ Len(This.sections) \in Nat
      BY <1>1, ThisType, BootAssumption DEF IInv, ThreadOfFile
    <3>2. c \in 0 .. (Cells - 1)
          /\ c < This.sections[n].va + This.sections[n].raw + This.sections[n].bss
      <4>1. PICK v \in Nat, w \in Nat, z \in Nat :
              /\ v = This.sections[n].va /\ w = This.sections[n].raw
              /\ z = This.sections[n].bss /\ v + w + z <= Cells
        BY <1>1, <3>1, SectionFits DEF IInv
      <4>2. c \in (v + w) .. (v + w + z - 1)
        BY <4>1
      <4>3. c \in 0 .. (Cells - 1) /\ c < v + w + z
        BY <4>1, <4>2, TailInside, BootAssumption
      <4> QED BY <4>1, <4>3
    <3>3. ASSUME mem[c] # None PROVE \E m \in 1 .. n : c \in Touched(This.sections[m])
      <4>1. PICK m \in 1 .. Len(This.sections) : c \in Touched(This.sections[m])
        BY <1>1, <3>2, <3>3 DEF IInv, TouchedSoFar, TouchedBefore
      <4>2. m <= n
        BY <1>1, <3>1, <3>2, <4>1, ReachedFromFront DEF IInv
      <4> QED BY <3>1, <4>1, <4>2
    <3> QED BY <3>3
  <2> QED
    BY <1>1, <2>1, <2>2, <2>3 DEF IInv, ImageWhole, BlobInside, ReaderInStep
<1> QED
  BY <1>1, BootInvariant, PTL
==============================================================================
