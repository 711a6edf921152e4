----------------------------- MODULE MCLibrary -----------------------------
(* Small instances of the kernel's support code: all contents of a seven   *)
(* byte memory, and two strings whose blocks stand next to each other.     *)
EXTENDS Strings, Peers, Support, Screen, Loader, TLC

CONSTANTS a, b

MCBase == (a :> 0) @@ (b :> 2)
MCTexts == {<<65>>, <<65, 37>>}

\* Two glyphs of two by two pixels: a full one and one of two corners.
MCFont == (65 :> <<{0, 1}, {0, 1}>>) @@ (66 :> <<{1}, {0}>>)

Regions == [height : 1..2, width : 1..2, x : 0..1, y : 0..5]
Sources == {[k \in 0..7 |-> {k % 2}], [k \in 0..7 |-> {k}]}

SeqsUpTo(S, n) == UNION {[1..k -> S] : k \in 0..n}

Numbers == 0..120 \union {199, 700, 909, 999, 1000, 1001, 1010, 9999, 10000, 65535, 65536}
Passwords == SeqsUpTo({65, 66}, 2)

Packets == [first : {1}, magic : {kIPCHeaderMagic, 1}, endian : 0..2, size : {1, 2, 3, 5},
            from : Address, to : Address, msgsz : 0..kIPCMsgSize,
            data : {[i \in 1..(kIPCMsgSize + 1) |-> 7], [i \in 1..(kIPCMsgSize + 1) |-> 9]}]

Headers == [name : {<<1, 1, 1, 4>>, <<1, 1, 1, 36>>, <<2, 2, 2>> \o kPefStackSizeSymbol},
            kind : {kPefCode, kPefData}, cpu : {1, 2}, body : {<<8>>, <<9>>}]
Calls == [name : {kPefStart, <<32>>, <<36>>, kPefStackSizeSymbol}, kind : {kPefCode, kPefData},
          after : {<<>>, <<4>>}]
Containers == [cpu : {1, 2}, magic : {Joy, <<"0", "!", "y", "o", "J">>, kPefMagicFat}, abi : {kPefAbi, 0}]

\* What does not depend on memory.
ConstantsAgree ==
  /\ NumbersAgree(Numbers)
  /\ FormatsAgree(SeqsUpTo({37, 65}, 5))
  /\ AddressesAgree(SeqsUpTo({46, 48}, 6), [1..4 -> {1, 2}])
  /\ OnlySavedMatches(Passwords)
  /\ MessagesKeep(Packets)
  /\ IndexedOnce({<<1>>, <<2>>}, {0, 16, 64})
  /\ ChecksumsAgree(SeqsUpTo({65, 97, 127}, 4), {<<>>, <<{3}>>})
  /\ NumbersRead(SeqsUpTo({32, 45, 48, 49, 98, 120}, 4))
  /\ JsonAgrees(SeqsUpTo({10, 44, 58, 65, 91, 93, 123, 125}, 4))
  /\ DestructorsOnce(SeqsUpTo(1..3, 4))
  /\ FirstValueStays({5, 6})
  /\ BusyKept(0..2)
  /\ BitmapsStand(Regions, Sources)
  /\ CharactersApart([1..3 -> SeqsUpTo({65, 66}, 1) \union {<<66, 65>>}], 2)
  /\ SerialKeeps(SeqsUpTo({10, 13, 65, 97}, 5))
  /\ DigitsDenote((-20)..300)
  /\ SymbolsFound(SeqsUpTo(Headers, 2), Calls)
  /\ LoadedIsChecked(Containers)
  /\ LibrariesHeld({1, 2})
  /\ StartedWhole({NoBlob, <<1>>}, {kProcessInvalidID, 0, 1})

\* Every helper answers what it is for: CopiesAgree, LengthsAgree,
\* SearchesAgree, NumbersAgree, FormatsAgree and AddressesAgree of Text,
\* OnlySavedMatches, MessagesKeep and IndexedOnce of Peers, and the properties
\* at the end of Support, of Screen and of Loader.  The helpers on memory are checked on
\* every content it can have, once: the initial states hold all; the others in
\* the initial state whose memory is clear.
AgreesWithReference ==
  LET untouched == touched = {} /\ \A s \in Names : fDataSz(s) = 0 IN
  /\ untouched => CopiesAgree(mem) /\ LengthsAgree(mem) /\ SearchesAgree(mem)
  /\ untouched /\ (\A p \in Addr : mem[p] = 0) => ConstantsAgree
=============================================================================
