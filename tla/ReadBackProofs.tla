--------------------------- MODULE ReadBackProofs ---------------------------
(***************************************************************************)
(* Theorems about what is written and read back: files through streams,    *)
(* for any disk, streams and files, strings in a memory they share, for    *)
(* any size of it, strings and texts, and the helpers on memory and        *)
(* addresses that stand under both.                                        *)
(***************************************************************************)
EXTENDS Files, Strings, FiniteSetTheorems, SequenceTheorems, WellFoundedInduction,
        TLAPS

-----------------------------------------------------------------------------
(* A set of numbers has a least one.                                       *)
LEMMA LeastOne ==
  ASSUME NEW S \in SUBSET Nat, S # {}
  PROVE  \E x \in S : \A y \in S : x =< y
<1>1. PICK x \in S : \A y \in S : ~ (<<y, x>> \in OpToRel(<, Nat))
  BY NatLessThanWellFounded, WFMin
<1>2. \A y \in S : <<y, x>> \in OpToRel(<, Nat) <=> y < x
  BY DEF OpToRel
<1>3. \A y \in S : ~ (y < x)
  BY <1>1, <1>2
<1> QED BY <1>3

(* What SelectInSeq goes by.                                               *)
LEMMA MinIsLeast ==
  ASSUME NEW S \in SUBSET Nat, S # {}
  PROVE  Min(S) \in S /\ \A y \in S : Min(S) =< y
BY LeastOne DEF Min

-----------------------------------------------------------------------------
(* The forks.                                                              *)

(* Every disk it starts with has forks whose chains count down.            *)
DiskTidy == disk \in [ForkAddr -> Fork] /\ Tidy(disk)

(* One unfolding of Chain, on the addresses up to n.                       *)
Chains(c, n) ==
  c = [a \in 0..n |-> IF a = 0 THEN <<>> ELSE <<a>> \o c[disk[a].next]]

LEMMA Sized == Forks \in Nat /\ Forks >= 1 /\ kNeFSForkSize \in Nat /\ kNeFSForkSize >= 1
BY FilesAssumption

LEMMA NextIsBelow ==
  ASSUME DiskTidy, NEW a \in ForkAddr
  PROVE  disk[a].next \in 0..(a - 1)
<1>1. disk[a] \in Fork /\ disk[a].next < a
  BY DEF DiskTidy, Tidy
<1>2. disk[a].next \in Nat
  <2>1. CASE disk[a] = Blank
    BY <2>1 DEF Blank
  <2>2. CASE disk[a] # Blank
    <3>1. disk[a].next \in 0..(Forks - 1)
      BY <1>1, <2>2 DEF Fork
    <3> QED BY <3>1, Sized
  <2> QED BY <2>1, <2>2
<1> QED BY <1>1, <1>2 DEF ForkAddr

ChainsTo(n) == \E c \in [0..n -> Seq(ForkAddr)] : Chains(c, n)

LEMMA Prepended ==
  ASSUME NEW S, NEW x \in S, NEW s \in Seq(S)
  PROVE  <<x>> \o s \in Seq(S)
OBVIOUS

LEMMA ChainsExist ==
  ASSUME DiskTidy
  PROVE  ChainsTo(Forks)
<1> DEFINE Bad == {n \in 0..Forks : ~ChainsTo(n)}
<1>1. SUFFICES ASSUME Bad # {} PROVE FALSE
  BY Sized
<1>2. PICK n \in Bad : \A m \in Bad : n =< m
  <2>1. Bad \in SUBSET Nat
    OBVIOUS
  <2> HIDE DEF Bad
  <2> QED BY <1>1, <2>1, LeastOne
<1>3. CASE n = 0
  <2>1. [a \in 0..0 |-> <<>>] \in [0..0 -> Seq(ForkAddr)]
    OBVIOUS
  <2>2. Chains([a \in 0..0 |-> <<>>], 0)
    BY DEF Chains
  <2> QED BY <1>2, <1>3, <2>1, <2>2 DEF ChainsTo
<1>4. CASE n # 0
  <2>1. n - 1 \in 0..Forks /\ n - 1 \notin Bad /\ n \in ForkAddr
    BY <1>2, <1>4, Sized DEF ForkAddr
  <2>2. PICK c \in [0..(n - 1) -> Seq(ForkAddr)] : Chains(c, n - 1)
    BY <2>1 DEF ChainsTo
  <2>3. disk[n].next \in 0..(n - 1)
    BY <2>1, NextIsBelow
  <2> DEFINE d == [a \in 0..n |-> IF a = n THEN <<n>> \o c[disk[n].next] ELSE c[a]]
  <2>4. d \in [0..n -> Seq(ForkAddr)]
    <3>1. <<n>> \o c[disk[n].next] \in Seq(ForkAddr)
      BY <2>1, <2>2, <2>3, Prepended
    <3> QED BY <1>2, <2>2, <3>1
  <2>5. \A a \in 0..n : d[a] = IF a = 0 THEN <<>> ELSE <<a>> \o d[disk[a].next]
    <3> TAKE a \in 0..n
    <3>1. CASE a = n
      BY <1>2, <1>4, <2>3, <3>1
    <3>2. CASE a # n
      <4>1. a \in 0..(n - 1) /\ (a # 0 => a \in ForkAddr)
        BY <2>1, <3>2, Sized DEF ForkAddr
      <4>2. c[a] = IF a = 0 THEN <<>> ELSE <<a>> \o c[disk[a].next]
        BY <2>2, <4>1 DEF Chains
      <4>3. a # 0 => disk[a].next \in 0..(a - 1)
        BY <4>1, NextIsBelow
      <4> QED BY <1>2, <3>2, <4>1, <4>2, <4>3
    <3> QED BY <3>1, <3>2
  <2>6. Chains(d, n)
    BY <2>4, <2>5 DEF Chains
  <2> QED BY <1>2, <2>4, <2>6 DEF ChainsTo
<1> QED BY <1>3, <1>4

LEMMA ChainIsTyped ==
  ASSUME DiskTidy, NEW from \in 0..Forks
  PROVE  Chain(from) \in Seq(ForkAddr)
<1> DEFINE c == CHOOSE g : Chains(g, Forks)
           Bad == {n \in 0..Forks : c[n] \notin Seq(ForkAddr)}
<1>1. Chains(c, Forks)
  BY ChainsExist DEF ChainsTo
<1>2. Chain(from) = c[from]
  BY DEF Chain, Chains
<1> HIDE DEF c
<1>3. SUFFICES ASSUME Bad # {} PROVE FALSE
  BY <1>2
<1>4. PICK n \in Bad : \A m \in Bad : n =< m
  <2>1. Bad \in SUBSET Nat
    OBVIOUS
  <2> HIDE DEF Bad
  <2> QED BY <1>3, <2>1, LeastOne
<1>5. c[n] = IF n = 0 THEN <<>> ELSE <<n>> \o c[disk[n].next]
  BY <1>1 DEF Chains
<1>6. CASE n = 0
  <2>1. c[n] = <<>> /\ <<>> \in Seq(ForkAddr)
    BY <1>5, <1>6
  <2> QED BY <1>4, <2>1
<1>7. CASE n # 0
  <2>1. n \in ForkAddr /\ n \in 0..Forks
    BY <1>7, Sized DEF ForkAddr
  <2>2. disk[n].next \in 0..(n - 1)
    BY <2>1, NextIsBelow
  <2>3. disk[n].next \in 0..Forks /\ ~(n =< disk[n].next)
    BY <2>1, <2>2, Sized DEF ForkAddr
  <2>4. c[disk[n].next] \in Seq(ForkAddr)
    BY <1>4, <2>3
  <2> QED BY <1>4, <1>5, <1>7, <2>1, <2>4, Prepended
<1> QED BY <1>6, <1>7

(* The forks a chain meets.                                                *)
Met(from) == {Chain(from)[i] : i \in 1..Len(Chain(from))}

LEMMA MetAreForks ==
  ASSUME DiskTidy, NEW from \in 0..Forks
  PROVE  Met(from) \subseteq ForkAddr
<1>1. Chain(from) \in Seq(ForkAddr)
  BY ChainIsTyped
<1>2. \A i \in 1..Len(Chain(from)) : Chain(from)[i] \in ForkAddr
  BY <1>1
<1> QED BY <1>2 DEF Met

(* What a name and a path are given to, if anything, is said by both.      *)
Named(a, name, path) == disk[a].created /\ disk[a].name = name /\ disk[a].catalog = path

LEMMA NamedIsOne ==
  ASSUME DiskTidy, NEW a \in ForkAddr, NEW b \in ForkAddr, NEW name, NEW path,
         Named(a, name, path), Named(b, name, path)
  PROVE  a = b
BY DEF DiskTidy, Tidy, Named

(* WriteCatalog answers a fork of the chain with that name and path, or    *)
(* nothing.                                                                *)
LEMMA WriteFinds ==
  ASSUME DiskTidy, NEW path \in Paths, NEW size, NEW name,
         cat[path].fork \in 0..Forks, WriteCatalog(path, size, name) # 0
  PROVE  /\ cat[path] # NoCatalog
         /\ WriteCatalog(path, size, name) \in Met(cat[path].fork)
         /\ Named(WriteCatalog(path, size, name), name, path)
<1> DEFINE chain == Chain(cat[path].fork)
           Hits == {i \in 1..Len(chain) :
                      /\ disk[chain[i]].created /\ disk[chain[i]].name = name
                      /\ disk[chain[i]].catalog = path /\ disk[chain[i]].size = size}
           first == IF Hits # {} THEN Min(Hits) ELSE 0
<1>1. cat[path] # NoCatalog
  BY DEF WriteCatalog
<1>2. WriteCatalog(path, size, name) = IF first = 0 THEN 0 ELSE chain[first]
  BY <1>1 DEF WriteCatalog, FirstIn, SelectInSeq
<1>3. Hits # {}
  BY <1>2
<1>4. Hits \in SUBSET Nat
  OBVIOUS
<1>5. Min(Hits) \in Hits
  <2> HIDE DEF Hits
  <2> QED BY <1>3, <1>4, MinIsLeast
<1>6. WriteCatalog(path, size, name) = chain[Min(Hits)]
  BY <1>2
<1>7. Min(Hits) \in 1..Len(chain) /\ Named(chain[Min(Hits)], name, path)
  BY <1>5 DEF Named
<1> HIDE DEF Hits
<1> QED BY <1>1, <1>6, <1>7 DEF Met

(* ReadCatalog answers the fork with that name and path if the chain meets *)
(* it.                                                                     *)
LEMMA ReadFinds ==
  ASSUME DiskTidy, NEW node, NEW name, node.fork \in 0..Forks, name # None,
         NEW a \in Met(node.fork), Named(a, name, node.path)
  PROVE  ReadCatalog(node, name) = {disk[a]}
<1> DEFINE chain == Chain(node.fork)
           Hits == {i \in 1..Len(chain) :
                      disk[chain[i]].name = name /\ disk[chain[i]].catalog = node.path}
           first == IF Hits # {} THEN Min(Hits) ELSE 0
           found == IF first = 0 THEN 0 ELSE chain[first]
<1>1. ReadCatalog(node, name) = {disk[x] : x \in {found} \ {0}}
  BY DEF ReadCatalog, FirstIn, SelectInSeq
<1>2. PICK i \in 1..Len(chain) : chain[i] = a
  BY DEF Met
<1>3. Hits # {}
  BY <1>2 DEF Named
<1>4. Hits \in SUBSET Nat
  OBVIOUS
<1>5. Min(Hits) \in Hits
  <2> HIDE DEF Hits
  <2> QED BY <1>3, <1>4, MinIsLeast
<1>6. Min(Hits) \in 1..Len(chain) /\ Min(Hits) # 0
  <2>1. Len(chain) \in Nat
    BY ChainIsTyped
  <2>2. Min(Hits) \in 1..Len(chain)
    BY <1>5
  <2> HIDE DEF chain
  <2> QED BY <2>1, <2>2
<1>7. found = chain[Min(Hits)]
  BY <1>3, <1>6
<1>8. chain[Min(Hits)] \in ForkAddr /\ a \in ForkAddr
  <2>1. chain[Min(Hits)] \in Met(node.fork)
    BY <1>6 DEF Met
  <2> QED BY <2>1, MetAreForks
<1>9. Named(chain[Min(Hits)], name, node.path)
  <2>1. disk[chain[Min(Hits)]].name = name /\ disk[chain[Min(Hits)]].catalog = node.path
    BY <1>5
  <2>2. disk[chain[Min(Hits)]] \in Fork /\ disk[chain[Min(Hits)]] # Blank
    <3>1. Blank.name # name
      BY DEF Blank
    <3>2. disk[chain[Min(Hits)]] \in Fork
      BY <1>8 DEF DiskTidy
    <3> QED BY <2>1, <3>1, <3>2
  <2>3. disk[chain[Min(Hits)]].created
    BY <2>2 DEF Fork
  <2> QED BY <2>1, <2>3 DEF Named
<1>10. chain[Min(Hits)] = a
  BY <1>8, <1>9, NamedIsOne
<1>11. a # 0
  BY <1>8, Sized DEF ForkAddr
<1> HIDE DEF found, chain, Hits
<1> QED BY <1>1, <1>7, <1>10, <1>11

-----------------------------------------------------------------------------
(* Streams: a node agrees with the catalog there is now, as catalogs stay; *)
(* what was written last to a fork with a name stands in the fork the      *)
(* catalog's chain meets under that name.                                  *)

Modes == {"read", "readBinary", "write"}

NodeAgrees(node) ==
  \/ node = NullNode
  \/ /\ node.path \in Paths /\ cat[node.path] # NoCatalog
     /\ node.kind = cat[node.path].kind /\ node.fork = cat[node.path].fork

StreamsAgree ==
  \A s \in Streams :
    \/ stream[s] = Closed
    \/ stream[s].mode \in Modes /\ NodeAgrees(stream[s].node)

StandsIn(path, name, a) ==
  a \in Met(cat[path].fork) /\ Named(a, name, path) /\ data[a] = written[path][name]

WrittenStands ==
  \A path \in Paths, name \in ForkNames :
    written[path][name] # None =>
      cat[path] # NoCatalog /\ \E a \in ForkAddr : StandsIn(path, name, a)

DiskInv ==
  /\ mounted \in BOOLEAN /\ readOnly \in BOOLEAN /\ slots \in 0..Forks
  /\ cat \in [Paths -> Catalogs] /\ data \in [ForkAddr -> Data]
  /\ DiskTidy
  /\ written \in [Paths -> [ForkNames -> Data \union {None}]]

StreamsTyped == DOMAIN stream = Streams /\ stream = [s \in Streams |-> stream[s]]

IInv == DiskInv /\ StreamsTyped /\ StreamsAgree /\ WrittenStands

(* The list's first entry takes all that begin with r: of the five modes   *)
(* no stream has one that both reads and writes.                           *)
LEMMA TakenByFirst ==
  ASSUME NEW r \in Seq(STRING), NEW S, NEW e \in Seq(S), Len(e) >= 1, e[1] = "r",
         IsPrefix(e, r)
  PROVE  IsPrefix(<<"r">>, r)
<1>1. Len(e) =< Len(r) /\ SubSeq(e, 1, Len(e)) = SubSeq(r, 1, Len(e))
  BY DEF IsPrefix
<1>2. SubSeq(e, 1, Len(e))[1] = e[1] /\ SubSeq(r, 1, Len(e))[1] = r[1]
  BY <1>1
<1>3. r[1] = "r" /\ Len(r) >= 1
  BY <1>1, <1>2
<1>4. SubSeq(r, 1, 1) = SubSeq(<<"r">>, 1, 1)
  <2>1. SubSeq(r, 1, 1) = [i \in 1..1 |-> r[i]]
    OBVIOUS
  <2>2. SubSeq(<<"r">>, 1, 1) = [i \in 1..1 |-> <<"r">>[i]]
    OBVIOUS
  <2>3. \A i \in 1..1 : r[i] = <<"r">>[i]
    BY <1>3
  <2> QED BY <2>1, <2>2, <2>3, Zenon
<1>5. Len(<<"r">>) = 1
  OBVIOUS
<1> QED BY <1>3, <1>4, <1>5 DEF IsPrefix

LEMMA BeginWithR ==
  \A e \in {<<"r", "b">>, <<"r", "w", "b">>, <<"r", "w">>} :
    e \in Seq({"r", "w", "b"}) /\ Len(e) >= 1 /\ e[1] = "r"
<1>1. <<"r", "b">> \in Seq({"r", "w", "b"}) /\ Len(<<"r", "b">>) >= 1 /\ <<"r", "b">>[1] = "r"
  OBVIOUS
<1>2. <<"r", "w", "b">> \in Seq({"r", "w", "b"})
  OBVIOUS
<1>4. Len(<<"r", "w", "b">>) >= 1 /\ <<"r", "w", "b">>[1] = "r"
  OBVIOUS
<1>3. <<"r", "w">> \in Seq({"r", "w", "b"}) /\ Len(<<"r", "w">>) >= 1 /\ <<"r", "w">>[1] = "r"
  OBVIOUS
<1> QED BY <1>1, <1>2, <1>3, <1>4, Zenon

LEMMA ModeIsListed ==
  ASSUME NEW r \in Restricts
  PROVE  ModeOf(r) \in Modes
<1> DEFINE Hits == {i \in 1..Len(kRestrictList) : IsPrefix(kRestrictList[i].fRestrict, r)}
           first == IF Hits # {} THEN Min(Hits) ELSE 0
<1>1. r \in Seq(STRING)
  BY FilesAssumption
<1>2. ModeOf(r) = IF first = 0 THEN "readBinary" ELSE kRestrictList[first].fMappedTo
  BY DEF ModeOf, SelectInSeq
<1>3. Len(kRestrictList) = 5
  BY DEF kRestrictList
<1>4. CASE Hits = {}
  BY <1>2, <1>4 DEF Modes
<1>5. CASE Hits # {}
  <2>1. Hits \in SUBSET Nat
    BY <1>3
  <2>2. Min(Hits) \in Hits /\ \A i \in Hits : Min(Hits) =< i
    <3> HIDE DEF Hits
    <3> QED BY <1>5, <2>1, MinIsLeast
  <2>3. Min(Hits) \in 1..5 /\ IsPrefix(kRestrictList[Min(Hits)].fRestrict, r)
    BY <1>3, <2>2
  <2>4. Min(Hits) \notin {2, 3, 5}
    <3> SUFFICES ASSUME Min(Hits) \in {2, 3, 5} PROVE FALSE
      OBVIOUS
    <3> DEFINE e == kRestrictList[Min(Hits)].fRestrict
    <3>1. e \in Seq({"r", "w", "b"}) /\ Len(e) >= 1 /\ e[1] = "r"
      <4>1. kRestrictList[2].fRestrict = <<"r", "b">>
        BY DEF kRestrictList
      <4>2. kRestrictList[3].fRestrict = <<"r", "w", "b">>
        BY DEF kRestrictList
      <4>3. kRestrictList[5].fRestrict = <<"r", "w">>
        BY DEF kRestrictList
      <4>4. e \in {<<"r", "b">>, <<"r", "w", "b">>, <<"r", "w">>}
        BY <4>1, <4>2, <4>3
      <4> HIDE DEF e
      <4> QED BY <4>4, BeginWithR
    <3>2. IsPrefix(<<"r">>, r)
      <4> HIDE DEF e
      <4>1. IsPrefix(e, r)
        BY <2>3 DEF e
      <4> QED BY <1>1, <3>1, <4>1, TakenByFirst
    <3>3. 1 \in Hits
      BY <1>3, <3>2 DEF kRestrictList
    <3>4. Min(Hits) =< 1
      BY <2>2, <3>3
    <3> HIDE DEF Hits
    <3> QED BY <3>4
  <2>5. Min(Hits) \in {1, 4}
    <3> HIDE DEF Hits
    <3> QED BY <2>3, <2>4
  <2>6. kRestrictList[1].fMappedTo = "read" /\ kRestrictList[4].fMappedTo = "write"
    BY DEF kRestrictList
  <2>7. ModeOf(r) = kRestrictList[Min(Hits)].fMappedTo
    <3> HIDE DEF Hits
    <3> QED BY <1>2, <1>5, <2>5
  <2> QED BY <2>5, <2>6, <2>7 DEF Modes
<1> QED BY <1>4, <1>5

-----------------------------------------------------------------------------
(* One write through a node that agrees with its catalog.                  *)

LEMMA CatalogFork ==
  ASSUME DiskInv, NEW path \in Paths
  PROVE  /\ cat[path].fork \in 0..Forks
         /\ cat[path] # NoCatalog => cat[path].fork >= 1
<1>1. cat[path] \in Catalogs
  BY DEF DiskInv
<1> QED BY <1>1, Sized DEF Catalogs, NoCatalog, ForkAddr

(* It goes to a fork of the node's file, unless it goes nowhere.           *)
LEMMA NodeWriteFinds ==
  ASSUME DiskInv, NEW node, NodeAgrees(node), NEW name, NEW size,
         NodeWrite(node, name, size) # 0
  PROVE  /\ node.path \in Paths /\ cat[node.path] # NoCatalog
         /\ node.kind = "file" /\ cat[node.path].kind = "file"
         /\ NodeWrite(node, name, size) \in Met(cat[node.path].fork)
         /\ NodeWrite(node, name, size) \in ForkAddr
         /\ Named(NodeWrite(node, name, size), name, node.path)
<1>1. node.kind = "file"
  BY DEF NodeWrite, Moves
<1>2. NodeWrite(node, name, size) = WriteCatalog(node.path, size, name)
  BY DEF NodeWrite
<1>3. node # NullNode
  BY <1>1 DEF NullNode, None
<1>4. /\ node.path \in Paths /\ cat[node.path] # NoCatalog
      /\ node.kind = cat[node.path].kind
  BY <1>3 DEF NodeAgrees
<1>5. cat[node.path].fork \in 0..Forks /\ DiskTidy
  BY <1>4, CatalogFork DEF DiskInv
<1>6. /\ WriteCatalog(node.path, size, name) \in Met(cat[node.path].fork)
      /\ Named(WriteCatalog(node.path, size, name), name, node.path)
  BY <1>2, <1>4, <1>5, WriteFinds
<1> QED BY <1>1, <1>2, <1>4, <1>5, <1>6, MetAreForks

LEMMA UnchangedKeeps ==
  ASSUME DiskInv, WrittenStands,
         UNCHANGED <<mounted, readOnly, cat, slots, disk, data, written>>
  PROVE  DiskInv' /\ WrittenStands'
<1>1. DiskInv'
  BY DEF DiskInv, DiskTidy, Tidy
<1>2. \A f : Met(f)' = Met(f)
  BY DEF Met, Chain
<1>3. ASSUME NEW p \in Paths, NEW n \in ForkNames, written'[p][n] # None
      PROVE  cat'[p] # NoCatalog /\ \E b \in ForkAddr : StandsIn(p, n, b)'
  <2>1. cat[p] # NoCatalog
    BY <1>3 DEF WrittenStands
  <2>2. PICK b \in ForkAddr : StandsIn(p, n, b)
    BY <1>3 DEF WrittenStands
  <2>3. StandsIn(p, n, b)'
    BY <1>2, <2>2 DEF StandsIn, Named
  <2> QED BY <2>1, <2>2, <2>3
<1> QED BY <1>1, <1>3 DEF WrittenStands

LEMMA StoreKeeps ==
  ASSUME DiskInv, WrittenStands, NEW node, NodeAgrees(node),
         NEW name \in ForkNames, NEW size, NEW d \in Data,
         Store(node, name, size, d), UNCHANGED <<mounted, readOnly, cat, slots, disk>>
  PROVE  DiskInv' /\ WrittenStands'
<1> DEFINE a == NodeWrite(node, name, size)
<1>1. CASE a = 0 \/ readOnly
  <2>1. UNCHANGED <<data, written>>
    BY <1>1 DEF Store
  <2> QED BY <2>1, UnchangedKeeps
<1>2. CASE a # 0 /\ ~readOnly
  <2>0. PICK w \in ForkAddr : w = a
    BY <1>2, NodeWriteFinds
  <2>1. /\ data' = [data EXCEPT ![w] = d]
        /\ written' = [written EXCEPT ![node.path][name] = d]
    BY <1>2, <2>0 DEF Store
  <2>2. /\ node.path \in Paths /\ cat[node.path] # NoCatalog
        /\ w \in Met(cat[node.path].fork) /\ Named(w, name, node.path)
    BY <1>2, <2>0, NodeWriteFinds
  <2> HIDE DEF a
  <2>3. DiskInv'
    BY <2>1, <2>2 DEF DiskInv, DiskTidy, Tidy
  <2>4. \A f : Met(f)' = Met(f)
    BY DEF Met, Chain
  <2>5. ASSUME NEW p \in Paths, NEW n \in ForkNames, written'[p][n] # None
        PROVE  cat'[p] # NoCatalog /\ \E b \in ForkAddr : StandsIn(p, n, b)'
    <3>1. CASE p = node.path /\ n = name
      <4>1. written'[p][n] = d /\ data'[w] = d
        BY <2>1, <2>2, <3>1 DEF DiskInv
      <4>2. StandsIn(p, n, w)'
        <5>1. w \in Met(cat[p].fork) /\ Named(w, n, p)
          BY <2>2, <3>1
        <5>2. data'[w] = written'[p][n]
          BY <4>1
        <5> QED BY <2>4, <5>1, <5>2 DEF StandsIn, Named
      <4>3. cat'[p] # NoCatalog
        BY <2>2, <3>1
      <4> QED BY <2>2, <4>2, <4>3
    <3>2. CASE ~(p = node.path /\ n = name)
      <4>1. written'[p][n] = written[p][n]
        BY <2>1, <2>2, <3>2 DEF DiskInv
      <4>2. PICK b \in ForkAddr : StandsIn(p, n, b)
        BY <2>5, <4>1 DEF WrittenStands
      <4>3. b # w
        BY <2>2, <3>2, <4>2 DEF StandsIn, Named
      <4>4. data'[b] = data[b]
        BY <2>1, <4>3 DEF DiskInv
      <4>5. StandsIn(p, n, b)'
        BY <2>4, <4>1, <4>2, <4>4 DEF StandsIn, Named
      <4> QED BY <2>5, <4>1, <4>5 DEF WrittenStands
    <3> QED BY <3>1, <3>2
  <2> QED BY <2>3, <2>5 DEF WrittenStands
<1> QED BY <1>1, <1>2

(* A store that changes a fork's data goes to a fork of the node's file.   *)
LEMMA StoreChanges ==
  ASSUME DiskInv, NEW node, NodeAgrees(node), NEW name, NEW size, NEW d,
         Store(node, name, size, d), NEW a \in ForkAddr, data'[a] # data[a]
  PROVE  /\ ~readOnly /\ disk[a].created
         /\ node.path \in Paths /\ disk[a].catalog = node.path
         /\ cat[node.path].kind = "file"
<1>1. /\ NodeWrite(node, name, size) # 0 /\ ~readOnly
      /\ data' = [data EXCEPT ![NodeWrite(node, name, size)] = d]
  BY DEF Store
<1>2. NodeWrite(node, name, size) = a
  BY <1>1 DEF DiskInv
<1> QED BY <1>1, <1>2, NodeWriteFinds DEF Named

(* A catalog is made where there is none, and is found like the others.    *)
LEMMA CreatedKeeps ==
  ASSUME IInv, NEW path \in Paths, NEW kind \in Kinds, slots < Forks, Created(path, kind),
         UNCHANGED <<mounted, readOnly, disk, data, stream, written>>
  PROVE  IInv'
<1>1. CASE UNCHANGED <<cat, slots>>
  <2>1. DiskInv' /\ WrittenStands'
    BY <1>1, UnchangedKeeps DEF IInv
  <2>2. StreamsTyped' /\ StreamsAgree'
    BY <1>1 DEF IInv, StreamsTyped, StreamsAgree, NodeAgrees
  <2> QED BY <2>1, <2>2 DEF IInv
<1>2. CASE ~UNCHANGED <<cat, slots>>
  <2> DEFINE new == [kind |-> kind, fork |-> Forks - slots]
  <2>1. cat[path] = NoCatalog /\ slots' = slots + 1 /\ cat' = [cat EXCEPT ![path] = new]
    BY <1>2 DEF Created, Refused
  <2>2. slots \in 0..Forks /\ slots' \in 0..Forks /\ Forks - slots \in ForkAddr
    BY <2>1, Sized DEF IInv, DiskInv, ForkAddr
  <2>3. new \in Catalogs
    BY <2>2 DEF Catalogs
  <2> HIDE DEF new
  <2>4. DiskInv'
    BY <2>1, <2>2, <2>3 DEF IInv, DiskInv, DiskTidy, Tidy
  <2>5. \A p \in Paths : cat[p] # NoCatalog => cat'[p] = cat[p]
    BY <2>1 DEF IInv, DiskInv
  <2>6. ASSUME NEW node, NodeAgrees(node) PROVE NodeAgrees(node)'
    BY <2>5, <2>6 DEF NodeAgrees
  <2>7. StreamsTyped' /\ StreamsAgree'
    BY <2>6 DEF IInv, StreamsTyped, StreamsAgree
  <2>8. \A f : Met(f)' = Met(f)
    BY DEF Met, Chain
  <2>9. ASSUME NEW p \in Paths, NEW n \in ForkNames, written'[p][n] # None
        PROVE  cat'[p] # NoCatalog /\ \E b \in ForkAddr : StandsIn(p, n, b)'
    <3>1. PICK b \in ForkAddr : StandsIn(p, n, b)
      BY <2>9 DEF IInv, WrittenStands
    <3>2. cat[p] # NoCatalog /\ cat'[p] = cat[p]
      BY <2>5, <2>9 DEF IInv, WrittenStands
    <3>3. StandsIn(p, n, b)'
      BY <2>8, <3>1, <3>2 DEF StandsIn, Named
    <3> QED BY <3>2, <3>3
  <2> QED BY <2>4, <2>7, <2>9 DEF IInv, WrittenStands
<1> QED BY <1>1, <1>2

LEMMA NodeOfAgrees ==
  ASSUME NEW path \in Paths
  PROVE  NodeAgrees(NodeOf(path))
BY DEF NodeAgrees, NodeOf

(* The journal's data is never written, as its fork would be refused.      *)
LEMMA ForksAreRefused ==
  ASSUME DiskInv
  PROVE  ~CreateFork(Stamp)
<1>1. Stamp \in Paths
  BY FilesAssumption
<1> QED BY <1>1, CatalogFork, Sized DEF CreateFork

-----------------------------------------------------------------------------
(* The invariant is inductive.                                             *)

LEMMA AtStart == Init => IInv
<1> SUFFICES ASSUME Init PROVE IInv
  OBVIOUS
<1>1. DiskTidy
  BY DisksAssumption DEF Init, DiskTidy
<1>2. DiskInv
  <2>1. cat \in [Paths -> Catalogs] /\ data \in [ForkAddr -> Data]
    BY DEF Init, Catalogs
  <2>2. written \in [Paths -> [ForkNames -> Data \union {None}]]
    BY DEF Init
  <2>3. mounted \in BOOLEAN /\ readOnly \in BOOLEAN /\ slots \in 0..Forks
    <3>1. mounted = FALSE /\ readOnly \in BOOLEAN /\ slots = 0
      BY Zenon DEF Init
    <3>2. slots \in 0..Forks
      BY <3>1, Sized
    <3> QED BY <3>1, <3>2, Zenon
  <2> QED BY <1>1, <2>1, <2>2, <2>3 DEF DiskInv
<1>3. StreamsTyped /\ StreamsAgree
  BY DEF Init, StreamsTyped, StreamsAgree
<1>4. WrittenStands
  BY DEF Init, WrittenStands
<1> QED BY <1>2, <1>3, <1>4 DEF IInv

(* What leaves the disk, the catalogs and the streams alone.               *)
LEMMA StoreStep ==
  ASSUME IInv, NEW node, NodeAgrees(node), NEW name \in ForkNames, NEW size, NEW d \in Data,
         Store(node, name, size, d) \/ UNCHANGED <<data, written>>,
         UNCHANGED <<mounted, readOnly, cat, slots, disk, stream>>
  PROVE  IInv'
<1>1. DiskInv' /\ WrittenStands'
  BY StoreKeeps, UnchangedKeeps DEF IInv
<1>2. StreamsTyped' /\ StreamsAgree'
  BY DEF IInv, StreamsTyped, StreamsAgree, NodeAgrees
<1> QED BY <1>1, <1>2 DEF IInv

LEMMA StepKeeps == IInv /\ [Next]_vars => IInv'
<1> SUFFICES ASSUME IInv, [Next]_vars PROVE IInv'
  OBVIOUS
<1>1. ASSUME UNCHANGED <<readOnly, cat, slots, disk, data, stream, written>>,
             mounted' \in BOOLEAN
      PROVE  IInv'
  <2>1. DiskInv' /\ WrittenStands'
    <3>1. DiskInv'
      BY <1>1 DEF IInv, DiskInv, DiskTidy, Tidy
    <3>2. \A f : Met(f)' = Met(f)
      BY <1>1 DEF Met, Chain
    <3>3. ASSUME NEW p \in Paths, NEW n \in ForkNames, written'[p][n] # None
          PROVE  cat'[p] # NoCatalog /\ \E b \in ForkAddr : StandsIn(p, n, b)'
      <4>1. PICK b \in ForkAddr : StandsIn(p, n, b)
        BY <1>1, <3>3 DEF IInv, WrittenStands
      <4>2. StandsIn(p, n, b)'
        BY <1>1, <3>2, <4>1 DEF StandsIn, Named
      <4> QED BY <1>1, <3>3, <4>2 DEF IInv, WrittenStands
    <3> QED BY <3>1, <3>3 DEF WrittenStands
  <2>2. StreamsTyped' /\ StreamsAgree'
    BY <1>1 DEF IInv, StreamsTyped, StreamsAgree, NodeAgrees
  <2> QED BY <2>1, <2>2 DEF IInv
<1>2. CASE Mount \/ Unmount
  BY <1>1, <1>2 DEF Mount, Unmount
<1>3. ASSUME NEW p \in Paths, NEW k \in Kinds, Create(p, k) PROVE IInv'
  BY <1>3, CreatedKeeps DEF Create
<1>4. ASSUME NEW s \in Streams, UNCHANGED <<mounted, readOnly, cat, slots, disk, data, written>>,
             NEW new, new = Closed \/ (new.mode \in Modes /\ NodeAgrees(new.node)),
             stream' = [stream EXCEPT ![s] = new]
      PROVE  IInv'
  <2>1. DiskInv' /\ WrittenStands'
    BY <1>4, UnchangedKeeps DEF IInv
  <2>2. \A n : NodeAgrees(n) => NodeAgrees(n)'
    BY <1>4 DEF NodeAgrees
  <2>3. StreamsTyped'
    BY <1>4 DEF IInv, StreamsTyped
  <2>4. ASSUME NEW t \in Streams
        PROVE  (stream[t] = Closed \/ (stream[t].mode \in Modes /\ NodeAgrees(stream[t].node)))'
    <3>1. stream'[t] = IF t = s THEN new ELSE stream[t]
      BY <1>4 DEF IInv, StreamsTyped
    <3>2. stream'[t] = Closed \/ (stream'[t].mode \in Modes /\ NodeAgrees(stream'[t].node))
      BY <1>4, <3>1 DEF IInv, StreamsAgree
    <3> QED BY <1>4, <3>2 DEF NodeAgrees
  <2> QED BY <2>1, <2>3, <2>4 DEF IInv, StreamsAgree
<1>5. ASSUME NEW s \in Streams, Close(s) PROVE IInv'
  BY <1>4, <1>5 DEF Close
<1>6. ASSUME NEW s \in Streams, NEW p \in Paths, NEW r \in Restricts, Open(s, p, r) PROVE IInv'
  <2> DEFINE new == [mode |-> ModeOf(r), node |-> NodeOf(p)]
  <2>1. new.mode \in Modes /\ NodeAgrees(new.node)
    BY ModeIsListed, NodeOfAgrees
  <2>2. /\ stream' = [stream EXCEPT ![s] = new]
        /\ UNCHANGED <<mounted, readOnly, cat, slots, disk, data, written>>
    BY <1>6 DEF Open
  <2> HIDE DEF new
  <2> QED BY <1>4, <2>1, <2>2
<1>7. ASSUME NEW s \in Streams, NEW n \in ForkNames, NEW z, NEW d \in Data,
             StreamWrite(s, n, z, d)
      PROVE  IInv'
  <2>1. /\ NodeAgrees(stream[s].node)
        /\ Store(stream[s].node, n, z, d) \/ UNCHANGED <<data, written>>
        /\ UNCHANGED <<mounted, readOnly, cat, slots, disk, stream>>
    BY <1>7 DEF StreamWrite, IInv, StreamsAgree
  <2> QED BY <2>1, StoreStep
<1>8. ASSUME NEW n \in ForkNames, NEW z, NEW d \in Data, SwapWrite(n, z, d) PROVE IInv'
  <2>1. NodeAgrees(NodeOf(kSwapPageFile))
    BY FilesAssumption, NodeOfAgrees
  <2> QED BY <1>8, <2>1, StoreStep DEF SwapWrite
<1>9. ASSUME NEW n \in ForkNames, NEW z, NEW d \in Data, CommitJournal(z, n, d) PROVE IInv'
  <2>1. NodeAgrees(NodeOf(Stamp))
    BY FilesAssumption, NodeOfAgrees
  <2> QED BY <1>9, <2>1, StoreStep DEF CommitJournal
<1>10. ASSUME UNCHANGED <<mounted, readOnly, cat, slots, disk, data, stream, written>>
       PROVE  IInv'
  <2>1. mounted' \in BOOLEAN
    BY <1>10 DEF IInv, DiskInv
  <2> QED BY <1>1, <1>10, <2>1
<1>11. CASE GetJournal \/ ReleaseJournal \/ UNCHANGED vars
  BY <1>10, <1>11 DEF GetJournal, ReleaseJournal, vars
<1>12. CASE CreateJournal
  <2>1. Stamp \in Paths /\ "file" \in Kinds
    BY FilesAssumption DEF Kinds
  <2> QED BY <1>12, <2>1, CreatedKeeps DEF CreateJournal
<1> QED BY <1>2, <1>3, <1>5, <1>6, <1>7, <1>8, <1>9, <1>11, <1>12 DEF Next

LEMMA Always == Spec => []IInv
BY AtStart, StepKeeps, PTL DEF Spec

-----------------------------------------------------------------------------
(* The fork a stream on a file is answered is the one behind which lies    *)
(* what was last written to that file, through whatever stream, whatever   *)
(* forks the disk came with and whatever else was written since; the data  *)
(* itself is not answered. (OpenNeFS.cc:640, :953, :975-989)               *)
LEMMA Kept == IInv => FilesKept
<1> SUFFICES ASSUME IInv PROVE FilesKept
  OBVIOUS
<1>1. TypeOK
  <2>1. ASSUME NEW s \in Streams PROVE stream[s].node.fork \in 0..Forks
    <3>1. CASE stream[s] = Closed \/ stream[s].node = NullNode
      BY <3>1, Sized DEF Closed, NullNode
    <3>2. CASE ~(stream[s] = Closed \/ stream[s].node = NullNode)
      <4>1. stream[s].node.path \in Paths /\ stream[s].node.fork = cat[stream[s].node.path].fork
        BY <3>2 DEF IInv, StreamsAgree, NodeAgrees
      <4> QED BY <4>1, CatalogFork DEF IInv
    <3> QED BY <3>1, <3>2
  <2> QED BY <2>1 DEF TypeOK, IInv, DiskInv, DiskTidy
<1>2. ASSUME NEW s \in Streams, NEW p \in Paths,
             stream[s].node.path = p, written[p][MainData] # None, mounted,
             stream[s].node.kind = "file", MayRead(stream[s].mode)
      PROVE  \E a \in ForkAddr : /\ StreamRead(s, 1) = {disk[a]}
                                  /\ disk[a].name = MainData /\ disk[a].catalog = p
                                  /\ data[a] = written[p][MainData]
  <2> DEFINE node == stream[s].node
  <2>1. MainData \in ForkNames /\ MainData # None
    BY FilesAssumption
  <2>2. PICK a \in ForkAddr : StandsIn(p, MainData, a)
    BY <1>2, <2>1 DEF IInv, WrittenStands
  <2>3. node.fork = cat[p].fork /\ node.fork \in 0..Forks
    <3>1. stream[s] # Closed /\ node # NullNode
      BY <1>2 DEF Closed, NullNode, None, MayRead
    <3>2. node.fork = cat[p].fork
      BY <1>2, <3>1 DEF IInv, StreamsAgree, NodeAgrees
    <3> QED BY <3>2, CatalogFork DEF IInv
  <2>4. ReadCatalog(node, MainData) = {disk[a]}
    BY <1>2, <2>1, <2>2, <2>3, ReadFinds DEF IInv, DiskInv, StandsIn
  <2>5. Moves(node, 1)
    BY <1>2, Sized DEF Moves
  <2>6. StreamRead(s, 1) = {disk[a]}
    BY <1>2, <2>4, <2>5 DEF StreamRead, NodeRead
  <2> QED BY <2>2, <2>6 DEF StandsIn, Named
<1> QED BY <1>1, <1>2 DEF FilesKept, ForkOfWritersIsRead

THEOREM FilesAreKept == Spec => []FilesKept
BY Always, Kept, PTL

(* Data changes only through a stream opened with "w", or in the swap file *)
(* when that is a file, and never on a read-only drive: no restriction     *)
(* that begins with r gets a mode that writes. (FileMgr.h:237, :375)       *)
THEOREM OnlyWritersDo == Spec => OnlyWritersWrite
<1>1. ASSUME IInv, [Next]_vars, NEW a \in ForkAddr, data'[a] # data[a]
      PROVE  /\ ~readOnly /\ mounted /\ disk[a].created
             /\ cat[disk[a].catalog].kind = "file"
             /\ \/ disk[a].catalog = kSwapPageFile
                \/ \E s \in Streams : /\ stream[s].node.path = disk[a].catalog
                                      /\ stream[s].mode = "write"
  <2>1. data' # data
    BY <1>1
  <2>2. CASE \E s \in Streams, n \in ForkNames, z \in 0..(kNeFSForkSize + 1), d \in Data :
               StreamWrite(s, n, z, d)
    <3>1. PICK s \in Streams, n \in ForkNames, z \in 0..(kNeFSForkSize + 1), d \in Data :
               StreamWrite(s, n, z, d)
      BY <2>2
    <3>2. MayWrite(stream[s].mode) /\ mounted /\ Store(stream[s].node, n, z, d)
      BY <2>1, <3>1 DEF StreamWrite
    <3>3. stream[s].mode = "write" /\ NodeAgrees(stream[s].node)
      BY <1>1, <3>1, <3>2 DEF StreamWrite, MayWrite, IInv, StreamsAgree, Modes
    <3> QED BY <1>1, <3>2, <3>3, StoreChanges DEF IInv
  <2>3. CASE \E n \in ForkNames, z \in 1..(kNeFSForkSize + 1), d \in Data : SwapWrite(n, z, d)
    <3>1. PICK n \in ForkNames, z \in 1..(kNeFSForkSize + 1), d \in Data : SwapWrite(n, z, d)
      BY <2>3
    <3>2. mounted /\ Store(NodeOf(kSwapPageFile), n, z, d)
      BY <3>1 DEF SwapWrite
    <3>3. NodeAgrees(NodeOf(kSwapPageFile))
      BY FilesAssumption, NodeOfAgrees
    <3>4. /\ ~readOnly /\ disk[a].created /\ disk[a].catalog = NodeOf(kSwapPageFile).path
          /\ cat[NodeOf(kSwapPageFile).path].kind = "file"
      BY <1>1, <3>2, <3>3, StoreChanges DEF IInv
    <3>5. NodeOf(kSwapPageFile).path = kSwapPageFile
      <4>1. NodeWrite(NodeOf(kSwapPageFile), n, z) # 0
        BY <2>1, <3>2 DEF Store
      <4>2. NodeOf(kSwapPageFile).kind = "file"
        BY <4>1 DEF NodeWrite, Moves
      <4>3. cat[kSwapPageFile] # NoCatalog
        BY <4>2 DEF NodeOf, NullNode, None
      <4> QED BY <4>3 DEF NodeOf
    <3> QED BY <3>2, <3>4, <3>5
  <2>4. CASE \E n \in ForkNames, z \in 1..(kNeFSForkSize + 1), d \in Data : CommitJournal(z, n, d)
    BY <1>1, <2>1, <2>4, ForksAreRefused DEF CommitJournal, IInv
  <2>5. CASE UNCHANGED data
    BY <2>1, <2>5
  <2> QED
    BY <1>1, <2>2, <2>3, <2>4, <2>5 DEF Next, Mount, Unmount, Create, Close, Open, GetJournal,
       CreateJournal, ReleaseJournal, vars
<1>2. IInv /\ [Next]_vars =>
        [\A a \in ForkAddr : data'[a] # data[a] =>
           /\ ~readOnly /\ mounted /\ disk[a].created
           /\ cat[disk[a].catalog].kind = "file"
           /\ \/ disk[a].catalog = kSwapPageFile
              \/ \E s \in Streams : /\ stream[s].node.path = disk[a].catalog
                                    /\ stream[s].mode = "write"]_vars
  BY <1>1
<1> QED BY <1>2, Always, PTL DEF Spec, OnlyWritersWrite

-----------------------------------------------------------------------------
(* Texts in memory.                                                        *)

LEMMA Widths ==
  /\ MemSz \in Nat /\ MemSz >= 1 /\ Word \in Nat /\ Word >= 1
  /\ 0 \in Chars /\ Addr = 0..(MemSz - 1)
BY TextAssumption DEF Addr

LEMMA LeastIsLeast ==
  ASSUME NEW S \in SUBSET Nat, S # {}
  PROVE  Least(S) \in S /\ \A y \in S : Least(S) =< y
BY LeastOne DEF Least

(* A text ends at the first zero, at the latest where memory does.         *)
LEMMA LengthIs ==
  ASSUME NEW m, NEW p \in Nat
  PROVE  /\ rt_string_len(m, p) \in Nat
         /\ Byte(m, p + rt_string_len(m, p)) = 0
         /\ \A k \in Nat : Byte(m, p + k) = 0 => rt_string_len(m, p) =< k
<1> DEFINE Z == {n \in 0..MemSz : Byte(m, p + n) = 0}
<1>1. MemSz \in Z
  BY Widths DEF Byte
<1>2. Z \in SUBSET Nat
  BY Widths
<1>3. rt_string_len(m, p) = Least(Z)
  BY DEF rt_string_len
<1>4. Least(Z) \in Z /\ \A y \in Z : Least(Z) =< y
  <2> HIDE DEF Z
  <2> QED BY <1>1, <1>2, LeastIsLeast
<1>5. \A k \in Nat : Byte(m, p + k) = 0 => Least(Z) =< k
  <2> TAKE k \in Nat
  <2> HAVE Byte(m, p + k) = 0
  <2>1. CASE k =< MemSz
    <3>1. k \in 0..MemSz
      BY <2>1, Widths
    <3>2. k \in Z
      BY <3>1
    <3> HIDE DEF Z
    <3> QED BY <1>4, <3>2
  <2>2. CASE k > MemSz
    <3>1. Least(Z) \in 0..MemSz
      BY <1>4
    <3> HIDE DEF Z
    <3> QED BY <2>2, <3>1, Widths
  <2> QED BY <2>1, <2>2, Widths
<1>6. Least(Z) \in Nat /\ Byte(m, p + Least(Z)) = 0
  BY <1>2, <1>4
<1> QED BY <1>3, <1>5, <1>6

(* One unfolding of the copying loop, for the first n turns.               *)
Copies(c, m, src, dst, n) ==
  c = [i \in 0..n |-> IF i = 0 THEN m
                      ELSE Put(c[i - 1], dst + i - 1, Byte(c[i - 1], src + i - 1))]

CopiesTo(m, src, dst, n) ==
  \E c \in [0..n -> [Addr -> Chars]] : Copies(c, m, src, dst, n)

LEMMA PutIsTyped ==
  ASSUME NEW m \in [Addr -> Chars], NEW p, NEW q
  PROVE  Put(m, p, Byte(m, q)) \in [Addr -> Chars] /\ Byte(m, q) \in Chars
BY Widths DEF Put, Byte

LEMMA CopiesExist ==
  ASSUME NEW m \in [Addr -> Chars], NEW src \in Nat, NEW dst \in Nat, NEW len \in Nat
  PROVE  CopiesTo(m, src, dst, len)
<1> DEFINE Bad == {n \in 0..len : ~CopiesTo(m, src, dst, n)}
<1>1. SUFFICES ASSUME Bad # {} PROVE FALSE
  OBVIOUS
<1>2. PICK n \in Bad : \A k \in Bad : n =< k
  <2>1. Bad \in SUBSET Nat
    OBVIOUS
  <2> HIDE DEF Bad
  <2> QED BY <1>1, <2>1, LeastOne
<1>3. CASE n = 0
  <2>1. [i \in 0..0 |-> m] \in [0..0 -> [Addr -> Chars]]
    OBVIOUS
  <2>2. Copies([i \in 0..0 |-> m], m, src, dst, 0)
    BY DEF Copies
  <2> QED BY <1>2, <1>3, <2>1, <2>2 DEF CopiesTo
<1>4. CASE n # 0
  <2>1. n - 1 \in 0..len /\ n - 1 \notin Bad /\ n \in Nat
    BY <1>2, <1>4
  <2>2. PICK c \in [0..(n - 1) -> [Addr -> Chars]] : Copies(c, m, src, dst, n - 1)
    BY <2>1 DEF CopiesTo
  <2> DEFINE last == Put(c[n - 1], dst + n - 1, Byte(c[n - 1], src + n - 1))
             d == [i \in 0..n |-> IF i = n THEN last ELSE c[i]]
  <2>3. last \in [Addr -> Chars]
    BY <1>4, <2>1, <2>2, PutIsTyped
  <2> HIDE DEF last
  <2>4. d \in [0..n -> [Addr -> Chars]]
    BY <2>1, <2>2, <2>3
  <2>5. \A i \in 0..n : d[i] = IF i = 0 THEN m
                               ELSE Put(d[i - 1], dst + i - 1, Byte(d[i - 1], src + i - 1))
    <3> TAKE i \in 0..n
    <3>1. CASE i = n
      <4>1. d[n] = last /\ d[n - 1] = c[n - 1]
        BY <1>4, <2>1
      <4> HIDE DEF d
      <4> QED BY <1>4, <3>1, <4>1 DEF last
    <3>2. CASE i # n
      <4>1. i \in 0..(n - 1) /\ (i # 0 => i - 1 \in 0..(n - 1))
        BY <2>1, <3>2
      <4>2. c[i] = IF i = 0 THEN m ELSE Put(c[i - 1], dst + i - 1, Byte(c[i - 1], src + i - 1))
        BY <2>2, <4>1 DEF Copies
      <4>3. d[i] = c[i] /\ (i # 0 => d[i - 1] = c[i - 1])
        BY <2>1, <3>2, <4>1
      <4> HIDE DEF d
      <4> QED BY <4>2, <4>3
    <3> QED BY <3>1, <3>2
  <2>6. Copies(d, m, src, dst, n)
    <3>1. d = [i \in 0..n |-> d[i]]
      OBVIOUS
    <3> HIDE DEF d
    <3> QED BY <2>5, <3>1 DEF Copies
  <2> HIDE DEF d
  <2> QED BY <1>2, <2>4, <2>6 DEF CopiesTo
<1> QED BY <1>3, <1>4

(* The loop, turn by turn: what it leaves alone is what lies before and    *)
(* after the characters written so far.                                    *)
Turns(c, m, src, dst, len) ==
  /\ Forward(m, src, dst, len) = c[len] /\ c[0] = m
  /\ \A i \in 1..len : c[i] = Put(c[i - 1], dst + i - 1, Byte(c[i - 1], src + i - 1))

LEMMA ForwardTurns ==
  ASSUME NEW m \in [Addr -> Chars], NEW src \in Nat, NEW dst \in Nat, NEW len \in Nat
  PROVE  \E c : Turns(c, m, src, dst, len)
<1> DEFINE c == CHOOSE g : Copies(g, m, src, dst, len)
<1>1. Copies(c, m, src, dst, len)
  BY CopiesExist DEF CopiesTo
<1>2. Forward(m, src, dst, len) = c[len]
  BY DEF Forward, Copies
<1> HIDE DEF c
<1>3. c[0] = m /\ \A i \in 1..len : c[i] = Put(c[i - 1], dst + i - 1, Byte(c[i - 1], src + i - 1))
  BY <1>1 DEF Copies
<1> QED BY <1>2, <1>3 DEF Turns

LEMMA PutPoint ==
  ASSUME NEW m \in [Addr -> Chars], NEW p \in Nat, NEW c \in Chars
  PROVE  /\ Put(m, p, c) \in [Addr -> Chars]
         /\ \A q \in Addr : Put(m, p, c)[q] = IF q = p THEN c ELSE m[q]
BY DEF Put

LEMMA ForwardLeaves ==
  ASSUME NEW m \in [Addr -> Chars], NEW src \in Nat, NEW dst \in Nat, NEW len \in Nat
  PROVE  /\ Forward(m, src, dst, len) \in [Addr -> Chars]
         /\ \A q \in Addr : q < dst \/ q >= dst + len => Forward(m, src, dst, len)[q] = m[q]
<1>1. PICK c : Turns(c, m, src, dst, len)
  BY ForwardTurns
<1> DEFINE Fine(i) == /\ c[i] \in [Addr -> Chars]
                      /\ \A q \in Addr : q < dst \/ q >= dst + len => c[i][q] = m[q]
           Bad == {i \in 0..len : ~Fine(i)}
<1>2. SUFFICES ASSUME Bad # {} PROVE FALSE
  BY <1>1 DEF Turns
<1>3. PICK n \in Bad : \A k \in Bad : n =< k
  <2>1. Bad \in SUBSET Nat
    OBVIOUS
  <2> HIDE DEF Bad
  <2> QED BY <1>2, <2>1, LeastOne
<1>4. n # 0
  BY <1>1, <1>3 DEF Turns
<1>5. n - 1 \in 0..len /\ n \in 1..len /\ Fine(n - 1)
  BY <1>3, <1>4
<1>6. c[n] = Put(c[n - 1], dst + n - 1, Byte(c[n - 1], src + n - 1))
  BY <1>1, <1>5 DEF Turns
<1>7. dst + n - 1 \in Nat /\ dst + n - 1 >= dst /\ dst + n - 1 < dst + len
  BY <1>5
<1>8. Byte(c[n - 1], src + n - 1) \in Chars
  BY <1>5, PutIsTyped
<1>9. Fine(n)
  <2>1. /\ c[n] \in [Addr -> Chars]
        /\ \A q \in Addr : c[n][q] = IF q = dst + n - 1 THEN Byte(c[n - 1], src + n - 1)
                                    ELSE c[n - 1][q]
    <3>1. PICK v \in Chars : v = Byte(c[n - 1], src + n - 1)
      BY <1>8
    <3>2. PICK p \in Nat : p = dst + n - 1
      BY <1>7
    <3>3. c[n] = Put(c[n - 1], p, v) /\ c[n - 1] \in [Addr -> Chars]
      BY <1>5, <1>6, <3>1, <3>2
    <3>4. c[n] \in [Addr -> Chars] /\ \A q \in Addr : c[n][q] = IF q = p THEN v ELSE c[n - 1][q]
      <4>1. PICK before \in [Addr -> Chars] : before = c[n - 1]
        BY <3>3
      <4>2. c[n] = Put(before, p, v)
        BY <3>3, <4>1
      <4>3. /\ Put(before, p, v) \in [Addr -> Chars]
            /\ \A q \in Addr : Put(before, p, v)[q] = IF q = p THEN v ELSE before[q]
        BY DEF Put
      <4> QED BY <4>1, <4>2, <4>3
    <3> QED BY <3>1, <3>2, <3>4
  <2>2. ASSUME NEW q \in Addr, q < dst \/ q >= dst + len PROVE c[n][q] = m[q]
    <3>1. q \in Nat /\ q # dst + n - 1
      BY <1>7, <2>2, Widths
    <3> QED BY <1>5, <2>1, <2>2, <3>1
  <2> QED BY <2>1, <2>2
<1> QED BY <1>3, <1>9

(* Apart, or with its target first, a copy appends what the source held.   *)
Held(m, src, len) == [i \in 1..len |-> Byte(m, src + i - 1)]

LEMMA ForwardAppends ==
  ASSUME NEW m \in [Addr -> Chars], NEW src \in Nat, NEW lhs \in Nat, NEW cur \in Nat,
         NEW len \in Nat, lhs + cur =< src \/ src + len =< lhs + cur
  PROVE  Forward(m, src, lhs + cur, len) = AppendText(m, lhs, Held(m, src, len), cur)
<1> DEFINE dst == lhs + cur
<1>1. dst \in Nat
  OBVIOUS
<1>2. PICK c : Turns(c, m, src, dst, len)
  BY <1>1, ForwardTurns
<1> DEFINE At(i, q) == IF q \in dst..(dst + i - 1) THEN Byte(m, src + q - dst) ELSE m[q]
           Fine(i) == c[i] \in [Addr -> Chars] /\ \A q \in Addr : c[i][q] = At(i, q)
           Bad == {i \in 0..len : ~Fine(i)}
<1>3. ASSUME Bad # {} PROVE FALSE
  <2>1. PICK n \in Bad : \A k \in Bad : n =< k
    <3>1. Bad \in SUBSET Nat
      OBVIOUS
    <3> HIDE DEF Bad
    <3> QED BY <1>3, <3>1, LeastOne
  <2>2. n # 0
    <3>1. \A q \in Addr : At(0, q) = m[q]
      BY Widths
    <3> HIDE DEF At
    <3> QED BY <1>2, <2>1, <3>1 DEF Turns
  <2>3. n - 1 \in 0..len /\ n \in 1..len /\ Fine(n - 1)
    BY <2>1, <2>2
  <2>4. c[n] = Put(c[n - 1], dst + n - 1, Byte(c[n - 1], src + n - 1))
    BY <1>2, <2>3 DEF Turns
  <2>5. dst + n - 1 \in Nat
    BY <2>3
  <2>6. Byte(c[n - 1], src + n - 1) = Byte(m, src + n - 1)
    <3>1. src + n - 1 \notin dst..(dst + n - 2)
      BY <2>3
    <3> QED BY <2>3, <3>1, Widths DEF Byte
  <2>7. Byte(c[n - 1], src + n - 1) \in Chars
    BY <2>3, PutIsTyped
  <2>8. /\ c[n] \in [Addr -> Chars]
        /\ \A q \in Addr : c[n][q] = IF q = dst + n - 1 THEN Byte(m, src + n - 1) ELSE c[n - 1][q]
    BY <2>3, <2>4, <2>5, <2>6, <2>7, PutPoint
  <2>9. \A q \in Addr : c[n][q] = At(n, q)
    <3> TAKE q \in Addr
    <3>1. q \in Nat
      BY Widths
    <3>2. CASE q = dst + n - 1
      BY <2>3, <2>8, <3>1, <3>2
    <3>3. CASE q # dst + n - 1
      BY <2>3, <2>8, <3>1, <3>3
    <3> QED BY <3>2, <3>3
  <2> QED BY <2>1, <2>8, <2>9
<1>4. Fine(len)
  BY <1>3
<1>5. \A q \in Addr : AppendText(m, lhs, Held(m, src, len), cur)[q] = At(len, q)
  <2> TAKE q \in Addr
  <2>1. q \in Nat
    BY Widths
  <2>2. Len(Held(m, src, len)) = len
    BY DEF Held
  <2>3. CASE q \in dst..(dst + len - 1)
    <3>1. q - lhs - cur + 1 \in 1..len /\ src + (q - lhs - cur + 1) - 1 = src + q - dst
      BY <2>1, <2>3
    <3>2. Held(m, src, len)[q - lhs - cur + 1] = Byte(m, src + q - dst)
      BY <3>1 DEF Held
    <3>3. AppendText(m, lhs, Held(m, src, len), cur)[q] = Held(m, src, len)[q - lhs - cur + 1]
      BY <2>2, <2>3 DEF AppendText
    <3> QED BY <2>3, <3>2, <3>3
  <2>4. CASE q \notin dst..(dst + len - 1)
    BY <2>2, <2>4 DEF AppendText
  <2> QED BY <2>3, <2>4
<1>6. AppendText(m, lhs, Held(m, src, len), cur)
        = [q \in Addr |-> AppendText(m, lhs, Held(m, src, len), cur)[q]]
  BY DEF AppendText
<1>7. Forward(m, src, dst, len) = c[len]
  BY <1>2 DEF Turns
<1>8. \A q \in Addr : c[len][q] = AppendText(m, lhs, Held(m, src, len), cur)[q]
  BY <1>4, <1>5
<1>9. c[len] = [q \in Addr |-> c[len][q]]
  BY <1>4
<1> QED BY <1>6, <1>7, <1>8, <1>9, Zenon

-----------------------------------------------------------------------------
(* Strings: one that no character of another came into begins with the     *)
(* first j characters of what was appended to it and ends there, and is    *)
(* clear behind its cursor as far as its block goes; one that nobody       *)
(* touched either is not cut short.                                        *)

(* The block of z characters at p, with its cursor at c.                   *)
Holds(m, p, z, c, text, j) ==
  /\ j =< Len(text) /\ (Len(text) =< c \/ z =< c)
  /\ \A i \in 0..(j - 1) : Byte(m, p + i) = text[i + 1]
  /\ j < z => Byte(m, p + j) = 0
  /\ \A i \in c..(z - 1) : Byte(m, p + i) = 0

Uncut(text, c, z, j) == Len(text) = c /\ (j = c \/ j = z)

HoldsTo(s, j) ==
  /\ Holds(mem, fData(s), fDataSz(s), fCur(s), said[s], j)
  /\ s \notin touched => Uncut(said[s], fCur(s), fDataSz(s), j)

Whole ==
  /\ mem \in [Addr -> Chars]
  /\ said \in [Names -> Seq(Chars \ {0})]
  /\ \A s \in Names : fDataSz(s) = 0 => said[s] = <<>>
  /\ \A s \in Names : fDataSz(s) > 0 /\ s \notin mixed => \E j \in 0..fDataSz(s) : HoldsTo(s, j)

Blocks ==
  /\ str \in [Names -> [size : Nat, cur : Nat]]
  /\ \A s \in Names : fDataSz(s) = 0 => fCur(s) = 0
  /\ \A s, o \in Names : s # o /\ fDataSz(s) > 0 /\ fDataSz(o) > 0 =>
       fData(s) + fDataSz(s) =< fData(o) \/ fData(o) + fDataSz(o) =< fData(s)

StringsInv == Blocks /\ Whole

LEMMA Typed ==
  ASSUME Blocks, NEW s \in Names
  PROVE  fDataSz(s) \in Nat /\ fCur(s) \in Nat /\ fData(s) \in Nat
BY StringsAssumption DEF Blocks, fDataSz, fCur, fData

LEMMA HeldAreCharacters ==
  ASSUME Blocks, Whole, NEW s \in Names, NEW j \in Nat, HoldsTo(s, j), NEW i \in 0..(j - 1)
  PROVE  /\ Byte(mem, fData(s) + i) = said[s][i + 1] /\ said[s][i + 1] \in Chars \ {0}
         /\ fData(s) + i \in Addr /\ mem[fData(s) + i] = said[s][i + 1]
<1>1. Byte(mem, fData(s) + i) = said[s][i + 1] /\ j =< Len(said[s])
  BY DEF HoldsTo, Holds
<1>2. said[s] \in Seq(Chars \ {0})
  BY DEF Whole
<1>3. i + 1 \in 1..Len(said[s])
  BY <1>1, <1>2
<1>4. said[s][i + 1] \in Chars \ {0}
  BY <1>2, <1>3
<1> QED BY <1>1, <1>4 DEF Byte

LEMMA ReadsTo ==
  ASSUME Blocks, Whole, NEW s \in Names, NEW j \in 0..fDataSz(s), HoldsTo(s, j)
  PROVE  /\ Len(TextIn(s)) = j /\ DOMAIN TextIn(s) = 1..j
         /\ TextIn(s) = [i \in 1..j |-> said[s][i]]
<1> DEFINE n == rt_string_len(mem, fData(s))
           end == IF n > fDataSz(s) THEN fDataSz(s) ELSE n
<1>1. fDataSz(s) \in Nat /\ fData(s) \in Nat /\ j \in Nat
  BY Typed
<1>2. /\ n \in Nat /\ Byte(mem, fData(s) + n) = 0
      /\ \A k \in Nat : Byte(mem, fData(s) + k) = 0 => n =< k
  BY <1>1, LengthIs
<1> HIDE DEF n
<1>3. n >= j
  <2>1. n \notin 0..(j - 1)
    <3>1. \A i \in 0..(j - 1) : Byte(mem, fData(s) + i) # 0
      BY <1>1, HeldAreCharacters
    <3> QED BY <1>2, <3>1
  <2> QED BY <1>1, <1>2, <2>1
<1>4. end = j
  <2>1. CASE j < fDataSz(s)
    <3>1. n =< j
      BY <1>1, <1>2, <2>1 DEF HoldsTo, Holds
    <3> QED BY <1>1, <1>2, <1>3, <2>1, <3>1
  <2>2. CASE j = fDataSz(s)
    BY <1>1, <1>2, <1>3, <2>2
  <2> QED BY <1>1, <2>1, <2>2
<1>5. TextIn(s) = [i \in 1..end |-> Byte(mem, fData(s) + i - 1)]
  BY DEF TextIn, n
<1>6. \A i \in 1..j : Byte(mem, fData(s) + i - 1) = said[s][i]
  <2> TAKE i \in 1..j
  <2>1. i - 1 \in 0..(j - 1) /\ fData(s) + (i - 1) = fData(s) + i - 1 /\ (i - 1) + 1 = i
    BY <1>1
  <2>2. Byte(mem, fData(s) + (i - 1)) = said[s][(i - 1) + 1]
    BY <1>1, <2>1, HeldAreCharacters
  <2> QED BY <2>1, <2>2
<1>7. TextIn(s) = [i \in 1..j |-> said[s][i]]
  BY <1>4, <1>5, <1>6
<1> QED BY <1>1, <1>7

(* What a reader finds in a block, whatever is in it.                      *)
LEMMA ReadsIs ==
  ASSUME Blocks, Whole, NEW s \in Names
  PROVE  \E k \in 0..fDataSz(s) :
           /\ TextIn(s) = [i \in 1..k |-> Byte(mem, fData(s) + i - 1)]
           /\ k < fDataSz(s) => Byte(mem, fData(s) + k) = 0
           /\ \A i \in 0..(k - 1) : Byte(mem, fData(s) + i) \in Chars \ {0}
<1> DEFINE n == rt_string_len(mem, fData(s))
<1>1. fDataSz(s) \in Nat /\ fData(s) \in Nat
  BY Typed
<1>2. /\ n \in Nat /\ Byte(mem, fData(s) + n) = 0
      /\ \A k \in Nat : Byte(mem, fData(s) + k) = 0 => n =< k
  BY <1>1, LengthIs
<1>3. TextIn(s) = [i \in 1..(IF n > fDataSz(s) THEN fDataSz(s) ELSE n) |->
                     Byte(mem, fData(s) + i - 1)]
  BY DEF TextIn
<1> HIDE DEF n
<1>4. PICK k \in 0..fDataSz(s) : k = IF n > fDataSz(s) THEN fDataSz(s) ELSE n
  BY <1>1, <1>2
<1>5. \A i \in 0..(k - 1) : Byte(mem, fData(s) + i) \in Chars \ {0}
  <2> TAKE i \in 0..(k - 1)
  <2>1. i \in Nat /\ ~(n =< i)
    BY <1>1, <1>2, <1>4
  <2>2. mem \in [Addr -> Chars]
    BY DEF Whole
  <2> QED BY <1>2, <2>1, <2>2, PutIsTyped
<1>6. k < fDataSz(s) => Byte(mem, fData(s) + k) = 0
  BY <1>1, <1>2, <1>4
<1>7. TextIn(s) = [i \in 1..k |-> Byte(mem, fData(s) + i - 1)]
  BY <1>3, <1>4
<1> QED BY <1>5, <1>6, <1>7

LEMMA HeldText ==
  ASSUME StringsInv
  PROVE  StringsHoldTheirText
<1> DEFINE Reads(s) ==
      s \notin mixed =>
        /\ Prefix(TextIn(s), said[s])
        /\ s \notin touched /\ Len(said[s]) =< fDataSz(s) => TextIn(s) = said[s]
        /\ s \notin touched /\ Len(said[s]) > fDataSz(s) => Len(TextIn(s)) = fDataSz(s)
<1>1. Blocks /\ Whole
  BY DEF StringsInv
<1>2. ASSUME NEW s \in Names, fDataSz(s) > 0 PROVE Reads(s)
  <2> SUFFICES ASSUME s \notin mixed
               PROVE  /\ Prefix(TextIn(s), said[s])
                      /\ s \notin touched /\ Len(said[s]) =< fDataSz(s) => TextIn(s) = said[s]
                      /\ s \notin touched /\ Len(said[s]) > fDataSz(s) => Len(TextIn(s)) = fDataSz(s)
    OBVIOUS
  <2>1. PICK j \in 0..fDataSz(s) : HoldsTo(s, j)
    BY <1>1, <1>2 DEF Whole
  <2>2. fDataSz(s) \in Nat /\ fData(s) \in Nat /\ fCur(s) \in Nat /\ j \in Nat
    BY <1>1, Typed
  <2>3. said[s] \in Seq(Chars \ {0}) /\ j =< Len(said[s])
    BY <1>1, <2>1 DEF Whole, HoldsTo, Holds
  <2>4. TextIn(s) = [i \in 1..j |-> said[s][i]] /\ Len(TextIn(s)) = j
    BY <1>1, <2>1, ReadsTo
  <2>5. Prefix(TextIn(s), said[s])
    <3>1. SubSeq(said[s], 1, j) = [i \in 1..j |-> said[s][i]]
      BY <2>2
    <3> QED BY <2>3, <2>4, <3>1 DEF Prefix
  <2>6. s \notin touched => Len(said[s]) = fCur(s) /\ (j = fCur(s) \/ j = fDataSz(s))
    BY <2>1 DEF HoldsTo, Uncut
  <2>7. ASSUME s \notin touched, Len(said[s]) =< fDataSz(s) PROVE TextIn(s) = said[s]
    <3>1. j = Len(said[s])
      BY <2>2, <2>3, <2>6, <2>7
    <3> QED BY <2>3, <2>4, <3>1
  <2>8. ASSUME s \notin touched, Len(said[s]) > fDataSz(s) PROVE Len(TextIn(s)) = fDataSz(s)
    BY <2>1, <2>2, <2>4, <2>6, <2>8
  <2> QED BY <2>5, <2>7, <2>8
<1>3. ASSUME NEW s \in Names, fDataSz(s) > 0, NEW text \in Texts, EqualsText(s, text)
      PROVE  text = TextIn(s)
  <2>1. fDataSz(s) \in Nat /\ fData(s) \in Nat
    BY <1>1, Typed
  <2>2. text \in Seq(Chars \ {0})
    BY StringsAssumption
  <2>3. Len(text) = fDataSz(s) /\ \A i \in 1..Len(text) : text[i] = Byte(mem, fData(s) + i - 1)
    BY <1>3 DEF EqualsText
  <2>4. PICK k \in 0..fDataSz(s) :
          /\ TextIn(s) = [i \in 1..k |-> Byte(mem, fData(s) + i - 1)]
          /\ k < fDataSz(s) => Byte(mem, fData(s) + k) = 0
    BY <1>1, ReadsIs
  <2>5. k = fDataSz(s)
    <3> SUFFICES ASSUME k < fDataSz(s) PROVE FALSE
      BY <2>1
    <3>1. k + 1 \in 1..Len(text) /\ fData(s) + (k + 1) - 1 = fData(s) + k
      BY <2>1, <2>3
    <3>2. text[k + 1] = 0
      BY <2>3, <2>4, <3>1
    <3>3. text[k + 1] \in Chars \ {0}
      BY <2>2, <3>1
    <3> QED BY <3>2, <3>3
  <2>6. text = [i \in 1..fDataSz(s) |-> text[i]]
    BY <2>2, <2>3
  <2> QED BY <2>3, <2>4, <2>5, <2>6
<1>4. ASSUME NEW s \in Names, fDataSz(s) > 0, NEW r \in Names, StringsEqual(s, r)
      PROVE  TextIn(s) = TextIn(r) /\ ~StringsDiffer(s, r)
  <2>1. /\ fDataSz(r) = fDataSz(s)
        /\ \A i \in 0..(fDataSz(s) - 1) : Byte(mem, fData(r) + i) = Byte(mem, fData(s) + i)
    BY <1>4 DEF StringsEqual
  <2>2. fDataSz(s) \in Nat /\ fData(s) \in Nat /\ fData(r) \in Nat
    BY <1>1, Typed
  <2>3. PICK j \in 0..fDataSz(s) :
          /\ TextIn(s) = [i \in 1..j |-> Byte(mem, fData(s) + i - 1)]
          /\ j < fDataSz(s) => Byte(mem, fData(s) + j) = 0
          /\ \A i \in 0..(j - 1) : Byte(mem, fData(s) + i) # 0
    BY <1>1, ReadsIs
  <2>4. PICK k \in 0..fDataSz(s) :
          /\ TextIn(r) = [i \in 1..k |-> Byte(mem, fData(r) + i - 1)]
          /\ k < fDataSz(s) => Byte(mem, fData(r) + k) = 0
          /\ \A i \in 0..(k - 1) : Byte(mem, fData(r) + i) # 0
    BY <1>1, <2>1, ReadsIs
  <2>5. ~(j < k)
    <3> SUFFICES ASSUME j < k PROVE FALSE
      OBVIOUS
    <3>1. j < fDataSz(s) /\ j \in 0..(k - 1) /\ j \in 0..(fDataSz(s) - 1)
      BY <2>2
    <3> QED BY <2>1, <2>3, <2>4, <3>1
  <2>6. ~(k < j)
    <3> SUFFICES ASSUME k < j PROVE FALSE
      OBVIOUS
    <3>1. k < fDataSz(s) /\ k \in 0..(j - 1) /\ k \in 0..(fDataSz(s) - 1)
      BY <2>2
    <3> QED BY <2>1, <2>3, <2>4, <3>1
  <2>7. j = k
    BY <2>2, <2>5, <2>6
  <2>8. \A i \in 1..j : Byte(mem, fData(r) + i - 1) = Byte(mem, fData(s) + i - 1)
    <3> TAKE i \in 1..j
    <3>1. /\ i - 1 \in 0..(fDataSz(s) - 1)
          /\ fData(r) + (i - 1) = fData(r) + i - 1 /\ fData(s) + (i - 1) = fData(s) + i - 1
      BY <2>2
    <3>2. Byte(mem, fData(r) + (i - 1)) = Byte(mem, fData(s) + (i - 1))
      BY <2>1, <3>1
    <3> QED BY <3>1, <3>2
  <2>9. TextIn(s) = TextIn(r)
    BY <2>3, <2>4, <2>7, <2>8
  <2>10. ~StringsDiffer(s, r)
    <3>1. 0 \in 0..(fDataSz(s) - 1) /\ 0 \in 0..(fDataSz(r) - 1)
      BY <1>4, <2>1, <2>2
    <3> QED BY <2>1, <3>1 DEF StringsDiffer
  <2> QED BY <2>9, <2>10
<1> QED BY <1>2, <1>3, <1>4 DEF StringsHoldTheirText

(* Appending a text that stays inside the block.                           *)
LEMMA AppendedBytes ==
  ASSUME NEW m \in [Addr -> Chars], NEW lhs \in Nat, NEW cur \in Nat,
         NEW text \in Seq(Chars), lhs + cur + Len(text) =< MemSz
  PROVE  /\ AppendText(m, lhs, text, cur) \in [Addr -> Chars]
         /\ \A q \in Nat : Byte(AppendText(m, lhs, text, cur), q) =
              IF q \in (lhs + cur)..(lhs + cur + Len(text) - 1) THEN text[q - lhs - cur + 1]
              ELSE Byte(m, q)
<1> DEFINE M == AppendText(m, lhs, text, cur)
<1>1. \A q \in (lhs + cur)..(lhs + cur + Len(text) - 1) :
        q - lhs - cur + 1 \in 1..Len(text) /\ q \in Addr
  BY Widths
<1>2. M = [q \in Addr |-> IF q \in (lhs + cur)..(lhs + cur + Len(text) - 1)
                          THEN text[q - lhs - cur + 1] ELSE m[q]]
  BY DEF AppendText
<1> HIDE DEF M
<1>3. \A q \in (lhs + cur)..(lhs + cur + Len(text) - 1) : text[q - lhs - cur + 1] \in Chars
  BY <1>1
<1>4. M \in [Addr -> Chars]
  BY <1>2, <1>3
<1>5. \A q \in Nat : Byte(M, q) = IF q \in (lhs + cur)..(lhs + cur + Len(text) - 1)
                                  THEN text[q - lhs - cur + 1] ELSE Byte(m, q)
  BY <1>1, <1>2 DEF Byte
<1> QED BY <1>4, <1>5 DEF M

(* A block beside what was written holds what it did.                      *)
LEMMA HoldsApart ==
  ASSUME NEW m, NEW m2, NEW p \in Nat, NEW z \in Nat, NEW c \in Nat,
         NEW text \in Seq(Chars \ {0}), NEW j \in 0..z, Holds(m, p, z, c, text, j),
         \A i \in 0..(z - 1) : Byte(m2, p + i) = Byte(m, p + i)
  PROVE  Holds(m2, p, z, c, text, j)
<1>1. \A i \in 0..(j - 1) : i \in 0..(z - 1)
  OBVIOUS
<1>2. j < z => j \in 0..(z - 1)
  OBVIOUS
<1>3. \A i \in c..(z - 1) : i \in 0..(z - 1)
  OBVIOUS
<1> QED BY <1>1, <1>2, <1>3 DEF Holds

(* m2 is m with the text at p.                                             *)
WrittenAt(m2, m, p, text) ==
  \A q \in Nat : Byte(m2, q) = IF q \in p..(p + Len(text) - 1) THEN text[q - p + 1]
                               ELSE Byte(m, q)

(* What is appended at a cursor inside the block is held behind what was,  *)
(* as far as the block goes; or, where the text ended before the cursor,   *)
(* is not.                                                                 *)
LEMMA HoldsAppended ==
  ASSUME NEW m, NEW m2, NEW b \in Nat, NEW z \in Nat, NEW c \in Nat, NEW d \in Nat,
         NEW old \in Seq(Chars \ {0}), NEW text \in Seq(Chars \ {0}), NEW j \in 0..z,
         Holds(m, b, z, c, old, j), d >= Len(text), c < z,
         WrittenAt(m2, m, b + c, text)
  PROVE  \E k \in 0..z : /\ Holds(m2, b, z, c + d, old \o text, k)
                         /\ Uncut(old, c, z, j) /\ d = Len(text) => Uncut(old \o text, c + d, z, k)
<1> DEFINE both == old \o text
<1>1. PICK len \in Nat : len = Len(text)
  OBVIOUS
<1>2. PICK n \in Nat : n = Len(old)
  OBVIOUS
<1>3. /\ Len(both) = n + len
      /\ \A i \in 1..n : both[i] = old[i]
      /\ \A i \in 1..len : both[n + i] = text[i]
  BY <1>1, <1>2
<1>4. \A q \in Nat : Byte(m2, q) = IF q \in (b + c)..(b + c + len - 1)
                                   THEN text[q - b - c + 1] ELSE Byte(m, q)
  <2>1. \A q \in Nat : q - (b + c) + 1 = q - b - c + 1
    OBVIOUS
  <2> QED BY <1>1, <2>1 DEF WrittenAt
<1> HIDE DEF both
<1>5. /\ j =< n /\ n =< c
      /\ \A i \in 0..(j - 1) : Byte(m, b + i) = old[i + 1]
      /\ j < z => Byte(m, b + j) = 0
      /\ \A i \in c..(z - 1) : Byte(m, b + i) = 0
  BY <1>2 DEF Holds
<1>6. d >= len
  BY <1>1
<1>7. \A i \in 0..(j - 1) : Byte(m2, b + i) = both[i + 1]
  <2> TAKE i \in 0..(j - 1)
  <2>1. b + i \in Nat /\ b + i \notin (b + c)..(b + c + len - 1) /\ i + 1 \in 1..n
    BY <1>5
  <2>2. both[i + 1] = old[i + 1]
    BY <1>3, <2>1
  <2>3. Byte(m2, b + i) = Byte(m, b + i)
    BY <1>4, <2>1
  <2> QED BY <1>5, <2>2, <2>3
<1>8. \A i \in (c + d)..(z - 1) : Byte(m2, b + i) = 0
  <2> TAKE i \in (c + d)..(z - 1)
  <2>1. b + i \in Nat /\ b + i \notin (b + c)..(b + c + len - 1) /\ i \in c..(z - 1)
    BY <1>6
  <2>2. Byte(m2, b + i) = Byte(m, b + i)
    BY <1>4, <2>1
  <2> QED BY <1>5, <2>1, <2>2
<1>9. n + len =< c + d
  BY <1>5, <1>6
<1>10. CASE j < c
  <2>1. j < z => Byte(m2, b + j) = 0
    <3> HAVE j < z
    <3>1. b + j \in Nat /\ b + j \notin (b + c)..(b + c + len - 1)
      BY <1>10
    <3>2. Byte(m2, b + j) = Byte(m, b + j)
      BY <1>4, <3>1
    <3> QED BY <1>5, <3>2
  <2>2. j =< n + len
    BY <1>5
  <2>3. Holds(m2, b, z, c + d, both, j)
    BY <1>3, <1>7, <1>8, <1>9, <2>1, <2>2 DEF Holds
  <2>4. ~Uncut(old, c, z, j)
    BY <1>10 DEF Uncut
  <2> QED BY <2>3, <2>4 DEF both
<1>11. CASE j = c
  <2>1. n = c
    BY <1>5, <1>11
  <2>2. PICK k \in 0..z : k = IF c + len =< z THEN c + len ELSE z
    OBVIOUS
  <2>3. \A i \in 0..(k - 1) : Byte(m2, b + i) = both[i + 1]
    <3> TAKE i \in 0..(k - 1)
    <3>1. CASE i < c
      <4>1. i \in 0..(j - 1)
        BY <1>11, <3>1
      <4> QED BY <1>7, <4>1
    <3>2. CASE i >= c
      <4>1. /\ b + i \in Nat /\ b + i \in (b + c)..(b + c + len - 1)
            /\ b + i - b - c + 1 = i - c + 1 /\ i - c + 1 \in 1..len /\ n + (i - c + 1) = i + 1
        BY <2>1, <2>2, <3>2
      <4>2. Byte(m2, b + i) = text[b + i - b - c + 1]
        BY <1>4, <4>1
      <4>3. both[n + (i - c + 1)] = text[i - c + 1]
        BY <1>3, <4>1
      <4> QED BY <4>1, <4>2, <4>3
    <3> QED BY <3>1, <3>2
  <2>4. k < z => Byte(m2, b + k) = 0
    <3> HAVE k < z
    <3>1. b + k \in Nat /\ b + k \notin (b + c)..(b + c + len - 1) /\ k \in c..(z - 1)
      BY <2>2
    <3>2. Byte(m2, b + k) = Byte(m, b + k)
      BY <1>4, <3>1
    <3> QED BY <1>5, <3>1, <3>2
  <2>5. k =< n + len
    BY <2>1, <2>2
  <2>6. Holds(m2, b, z, c + d, both, k)
    BY <1>3, <1>8, <1>9, <2>3, <2>4, <2>5 DEF Holds
  <2>7. d = len => Uncut(both, c + d, z, k)
    BY <1>3, <2>1, <2>2 DEF Uncut
  <2> QED BY <1>1, <2>6, <2>7 DEF both
<1> QED BY <1>5, <1>10, <1>11

(* With the cursor behind the block, what was held stays.                  *)
LEMMA HoldsBeyond ==
  ASSUME NEW m, NEW m2, NEW b \in Nat, NEW z \in Nat, NEW c \in Nat, NEW d \in Nat,
         NEW old \in Seq(Chars \ {0}), NEW text \in Seq(Chars \ {0}), NEW j \in 0..z,
         Holds(m, b, z, c, old, j), z =< c,
         \A i \in 0..(z - 1) : Byte(m2, b + i) = Byte(m, b + i)
  PROVE  /\ Holds(m2, b, z, c + d, old \o text, j)
         /\ Uncut(old, c, z, j) /\ d = Len(text) => Uncut(old \o text, c + d, z, j)
<1>1. PICK len \in Nat : len = Len(text)
  OBVIOUS
<1>2. PICK n \in Nat : n = Len(old)
  OBVIOUS
<1>3. PICK both : both = old \o text
  OBVIOUS
<1>4. Len(both) = n + len /\ \A i \in 1..n : both[i] = old[i]
  BY <1>1, <1>2, <1>3
<1>5. /\ j =< n /\ \A i \in 0..(j - 1) : Byte(m, b + i) = old[i + 1]
      /\ j < z => Byte(m, b + j) = 0
  BY <1>2 DEF Holds
<1>6. \A i \in 0..(j - 1) : Byte(m2, b + i) = both[i + 1]
  <2> TAKE i \in 0..(j - 1)
  <2>1. i \in 0..(z - 1) /\ i + 1 \in 1..n
    BY <1>5
  <2> QED BY <1>4, <1>5, <2>1
<1>7. j < z => Byte(m2, b + j) = 0
  <2> HAVE j < z
  <2>1. j \in 0..(z - 1)
    OBVIOUS
  <2> QED BY <1>5, <2>1
<1>8. j =< n + len /\ z =< c + d /\ (\A i \in (c + d)..(z - 1) : FALSE)
  BY <1>5
<1>9. Holds(m2, b, z, c + d, both, j)
  BY <1>4, <1>6, <1>7, <1>8 DEF Holds
<1>10. Uncut(old, c, z, j) /\ d = len => Uncut(both, c + d, z, j)
  BY <1>2, <1>4 DEF Uncut
<1> QED BY <1>1, <1>3, <1>9, <1>10

(* What Whole says, in the blocks' own terms.                              *)
LEMMA WholeIs ==
  Whole <=>
    /\ mem \in [Addr -> Chars]
    /\ said \in [Names -> Seq(Chars \ {0})]
    /\ \A s \in Names : str[s].size = 0 => said[s] = <<>>
    /\ \A s \in Names : str[s].size > 0 /\ s \notin mixed =>
         \E j \in 0..str[s].size :
           /\ Holds(mem, Base[s], str[s].size, str[s].cur, said[s], j)
           /\ s \notin touched => Uncut(said[s], str[s].cur, str[s].size, j)
BY DEF Whole, HoldsTo, fData, fCur, fDataSz

(* Only len bytes at p are written.                                        *)
Beside(m2, m, p, len) == \A q \in Nat : q \notin p..(p + len - 1) => Byte(m2, q) = Byte(m, q)

(* An append of len characters, whose text is known when none of another's *)
(* characters is in it.                                                    *)
LEMMA AppendKeeps ==
  ASSUME Blocks, Whole, NEW s \in Names, str[s].size > 0,
         NEW text \in Seq(Chars \ {0}), NEW d \in Nat, NEW len \in Nat,
         mem' \in [Addr -> Chars], Beside(mem', mem, Base[s] + str[s].cur, len),
         str' = [str EXCEPT ![s].cur = @ + d], said' = [said EXCEPT ![s] = @ \o text],
         touched \subseteq touched', mixed \subseteq mixed', RunInto(s, len) \subseteq mixed',
         s \notin mixed' /\ s \notin touched' => d = Len(text),
         s \notin mixed' /\ str[s].cur < str[s].size =>
           WrittenAt(mem', mem, Base[s] + str[s].cur, text) /\ d >= Len(text)
  PROVE  Whole'
<1>1. /\ \A t \in Names : /\ Base[t] \in Nat /\ str[t].size \in Nat /\ str[t].cur \in Nat
                          /\ str'[t].size = str[t].size
                          /\ t # s => str'[t].cur = str[t].cur /\ said'[t] = said[t]
                          /\ said[t] \in Seq(Chars \ {0})
      /\ str'[s].cur = str[s].cur + d /\ said'[s] = said[s] \o text
  BY StringsAssumption DEF Blocks, Whole
<1>2. PICK b \in Nat : b = Base[s]
  BY <1>1
<1>3. PICK c \in Nat : c = str[s].cur
  BY <1>1
<1>4. PICK z \in Nat : z = str[s].size
  BY <1>1
<1>5. PICK m : m = mem
  OBVIOUS
<1>6. PICK m2 : m2 = mem'
  OBVIOUS
<1>7. \A q \in Nat : q \notin (b + c)..(b + c + len - 1) => Byte(m2, q) = Byte(m, q)
  BY <1>2, <1>3, <1>5, <1>6 DEF Beside
<1>8. said' \in [Names -> Seq(Chars \ {0})]
  <2>1. said' = [t \in Names |-> said'[t]]
    BY DEF Whole
  <2>2. said'[s] \in Seq(Chars \ {0})
    BY <1>1
  <2>3. \A t \in Names : said'[t] \in Seq(Chars \ {0})
    BY <1>1, <2>2
  <2> QED BY <2>1, <2>3
<1>9. \A t \in Names : str'[t].size = 0 => said'[t] = <<>>
  BY <1>1 DEF Whole, fDataSz
<1>10. ASSUME NEW o \in Names, str'[o].size > 0, o # s, o \notin mixed'
      PROVE  \E j \in 0..str'[o].size :
               /\ Holds(m2, Base[o], str'[o].size, str'[o].cur, said'[o], j)
               /\ o \notin touched' => Uncut(said'[o], str'[o].cur, str'[o].size, j)
  <2>1. PICK bo \in Nat : bo = Base[o]
    BY <1>1
  <2>2. PICK zo \in Nat : zo = str[o].size
    BY <1>1
  <2>3. PICK co \in Nat : co = str[o].cur
    BY <1>1
  <2>4. PICK to \in Seq(Chars \ {0}) : to = said[o]
    BY <1>1
  <2>5. str'[o].cur = co /\ str'[o].size = zo /\ said'[o] = to /\ zo > 0 /\ o \notin mixed
    BY <1>1, <1>10, <2>2, <2>3, <2>4
  <2>6. \A i \in 0..(zo - 1) : Byte(m2, bo + i) = Byte(m, bo + i)
    <3> TAKE i \in 0..(zo - 1)
    <3>1. BlockOf(o) = bo..(bo + zo - 1)
      BY <2>1, <2>2 DEF BlockOf, fDataSz
    <3>2. BlockOf(o) \intersect (b + c)..(b + c + len - 1) = {}
      BY <1>2, <1>3, <1>10 DEF RunInto, fData, fCur
    <3>3. bo + i \in Nat /\ bo + i \in BlockOf(o)
      BY <3>1
    <3> QED BY <1>7, <3>2, <3>3
  <2>7. PICK j \in 0..zo : /\ Holds(m, bo, zo, co, to, j)
                           /\ o \notin touched => Uncut(to, co, zo, j)
    BY <1>5, <2>1, <2>2, <2>3, <2>4, <2>5, WholeIs
  <2>8. Holds(m2, bo, zo, co, to, j)
    BY <2>6, <2>7, HoldsApart
  <2>9. o \notin touched' => Uncut(to, co, zo, j)
    BY <2>7
  <2> QED BY <2>1, <2>5, <2>8, <2>9
<1>11. ASSUME s \notin mixed'
      PROVE  \E j \in 0..str'[s].size :
               /\ Holds(m2, Base[s], str'[s].size, str'[s].cur, said'[s], j)
               /\ s \notin touched' => Uncut(said'[s], str'[s].cur, str'[s].size, j)
  <2>1. PICK old \in Seq(Chars \ {0}) : old = said[s]
    BY <1>1
  <2>2. PICK j \in 0..z : /\ Holds(m, b, z, c, old, j)
                          /\ s \notin touched => Uncut(old, c, z, j)
    BY <1>2, <1>3, <1>4, <1>5, <1>11, <2>1, WholeIs
  <2>3. \E k \in 0..z : /\ Holds(m2, b, z, c + d, old \o text, k)
                        /\ Uncut(old, c, z, j) /\ d = Len(text) => Uncut(old \o text, c + d, z, k)
    <3>1. CASE c < z
      <4>1. WrittenAt(m2, m, b + c, text) /\ d >= Len(text)
        BY <1>2, <1>3, <1>4, <1>5, <1>6, <1>11, <3>1
      <4> QED BY <2>2, <3>1, <4>1, HoldsAppended
    <3>2. CASE z =< c
      <4>1. \A i \in 0..(z - 1) : Byte(m2, b + i) = Byte(m, b + i)
        <5> TAKE i \in 0..(z - 1)
        <5>1. b + i \in Nat /\ b + i \notin (b + c)..(b + c + len - 1)
          BY <3>2
        <5> QED BY <1>7, <5>1
      <4>2. /\ Holds(m2, b, z, c + d, old \o text, j)
            /\ Uncut(old, c, z, j) /\ d = Len(text) => Uncut(old \o text, c + d, z, j)
        BY <2>2, <3>2, <4>1, HoldsBeyond
      <4> QED BY <4>2
    <3> QED BY <3>1, <3>2
  <2>4. PICK k \in 0..z : /\ Holds(m2, b, z, c + d, old \o text, k)
                          /\ Uncut(old, c, z, j) /\ d = Len(text) => Uncut(old \o text, c + d, z, k)
    BY <2>3
  <2>5. str'[s].cur = c + d /\ str'[s].size = z /\ said'[s] = old \o text
    BY <1>1, <1>3, <1>4, <2>1
  <2>6. s \notin touched' => Uncut(old \o text, c + d, z, k)
    BY <1>11, <2>2, <2>4
  <2> QED BY <1>2, <2>4, <2>5, <2>6
<1>12. \A o \in Names : str'[o].size > 0 /\ o \notin mixed' =>
         \E j \in 0..str'[o].size :
           /\ Holds(mem', Base[o], str'[o].size, str'[o].cur, said'[o], j)
           /\ o \notin touched' => Uncut(said'[o], str'[o].cur, str'[o].size, j)
  BY <1>6, <1>10, <1>11
<1> QED BY <1>8, <1>9, <1>12 DEF Whole, HoldsTo, fData, fCur, fDataSz

(* A block cleared from its first character on holds nothing.              *)
LEMMA HoldsCut ==
  ASSUME NEW m, NEW m2, NEW p \in Nat, NEW z \in Nat, NEW c \in Nat, z > 0,
         NEW text \in Seq(Chars \ {0}), NEW j \in 0..z, Holds(m, p, z, c, text, j),
         Byte(m2, p) = 0, \A i \in 0..(z - 1) : Byte(m2, p + i) \in {0, Byte(m, p + i)}
  PROVE  Holds(m2, p, z, c, text, 0)
<1>1. /\ Len(text) \in Nat /\ (Len(text) =< c \/ z =< c)
      /\ \A i \in c..(z - 1) : Byte(m, p + i) = 0
  BY DEF Holds
<1>2. \A i \in c..(z - 1) : Byte(m2, p + i) = 0
  <2> TAKE i \in c..(z - 1)
  <2>1. i \in 0..(z - 1)
    OBVIOUS
  <2>2. Byte(m, p + i) = 0
    BY <1>1
  <2>3. Byte(m2, p + i) \in {0, Byte(m, p + i)}
    BY <2>1
  <2> QED BY <2>2, <2>3
<1>3. Byte(m2, p + 0) = 0
  OBVIOUS
<1> QED BY <1>1, <1>2, <1>3 DEF Holds

(* A new block holds its text.                                             *)
NewBytes(m2, m, p, w, text) ==
  \A q \in Nat : Byte(m2, q) = IF q \in p..(p + Len(text) - 1) THEN text[q - p + 1]
                               ELSE IF q \in p..(p + w - 1) THEN 0 ELSE Byte(m, q)

LEMMA HoldsNew ==
  ASSUME NEW m, NEW m2, NEW p \in Nat, NEW w \in Nat, NEW z \in Nat, z =< w,
         NEW text \in Seq(Chars \ {0}), Len(text) =< z, NewBytes(m2, m, p, w, text)
  PROVE  Holds(m2, p, z, Len(text), text, Len(text))
<1>1. PICK len \in Nat : len = Len(text)
  OBVIOUS
<1>2. \A i \in 0..(len - 1) : Byte(m2, p + i) = text[i + 1]
  <2> TAKE i \in 0..(len - 1)
  <2>1. p + i \in Nat /\ p + i \in p..(p + len - 1) /\ p + i - p + 1 = i + 1
    BY <1>1
  <2>2. Byte(m2, p + i) = text[p + i - p + 1]
    BY <1>1, <2>1 DEF NewBytes
  <2> QED BY <2>1, <2>2
<1>3. \A i \in len..(z - 1) : Byte(m2, p + i) = 0
  <2> TAKE i \in len..(z - 1)
  <2>1. p + i \in Nat /\ p + i \notin p..(p + len - 1) /\ p + i \in p..(p + w - 1)
    BY <1>1
  <2> QED BY <1>1, <2>1 DEF NewBytes
<1>4. len < z => Byte(m2, p + len) = 0
  BY <1>3
<1> QED BY <1>1, <1>2, <1>3, <1>4 DEF Holds

LEMMA NewKeeps ==
  ASSUME Blocks, Whole, NEW s \in Names, str[s].size = 0, NEW z \in Nat, z > 0,
         HandedOut(s, z), NEW text \in Seq(Chars \ {0}), Len(text) =< z, NEW w \in Nat, z =< w,
         mem' \in [Addr -> Chars], NewBytes(mem', mem, Base[s], w, text),
         str' = [str EXCEPT ![s] = [size |-> z, cur |-> Len(text)]],
         said' = [said EXCEPT ![s] = text],
         touched' = touched \union {o \in Names \ {s} :
                                      BlockOf(o) \intersect Base[s]..(Base[s] + w - 1) # {}},
         mixed' = mixed
  PROVE  Whole'
<1>1. \A t \in Names : /\ Base[t] \in Nat /\ str[t].size \in Nat /\ str[t].cur \in Nat
                       /\ said[t] \in Seq(Chars \ {0})
                       /\ t # s => str'[t] = str[t] /\ said'[t] = said[t]
  BY StringsAssumption DEF Blocks, Whole
<1>2. str'[s].size = z /\ str'[s].cur = Len(text) /\ said'[s] = text
  BY DEF Blocks, Whole
<1>3. PICK b \in Nat : b = Base[s]
  BY <1>1
<1>4. said' \in [Names -> Seq(Chars \ {0})]
  BY DEF Whole
<1>5. \A t \in Names : str'[t].size = 0 => said'[t] = <<>>
  BY <1>1, <1>2 DEF Whole, fDataSz
<1>6. PICK m : m = mem
  OBVIOUS
<1>7. PICK m2 : m2 = mem'
  OBVIOUS
<1>8. NewBytes(m2, m, b, w, text)
  BY <1>3, <1>6, <1>7
<1>9. ASSUME NEW o \in Names, str'[o].size > 0, o # s, o \notin mixed'
      PROVE  \E j \in 0..str'[o].size :
               /\ Holds(m2, Base[o], str'[o].size, str'[o].cur, said'[o], j)
               /\ o \notin touched' => Uncut(said'[o], str'[o].cur, str'[o].size, j)
  <2>1. PICK p \in Nat : p = Base[o]
    BY <1>1
  <2>2. PICK zo \in Nat : zo = str[o].size
    BY <1>1
  <2>3. PICK co \in Nat : co = str[o].cur
    BY <1>1
  <2>4. PICK to \in Seq(Chars \ {0}) : to = said[o]
    BY <1>1
  <2>5. zo > 0 /\ str'[o].size = zo /\ str'[o].cur = co /\ said'[o] = to
    BY <1>1, <1>9, <2>2, <2>3, <2>4
  <2>6. b + z =< p \/ p + zo =< b
    BY <1>3, <2>1, <2>2, <2>5 DEF HandedOut, fDataSz
  <2>7. PICK j \in 0..zo : /\ Holds(m, p, zo, co, to, j)
                           /\ o \notin touched => Uncut(to, co, zo, j)
    BY <1>6, <1>9, <2>1, <2>2, <2>3, <2>4, <2>5, WholeIs
  <2>8. \A i \in 0..(zo - 1) : /\ p + i \in b..(b + w - 1) => Byte(m2, p + i) = 0
                               /\ p + i \notin b..(b + w - 1) => Byte(m2, p + i) = Byte(m, p + i)
    <3> TAKE i \in 0..(zo - 1)
    <3>1. PICK len \in Nat : len = Len(text)
      OBVIOUS
    <3>2. len =< z
      BY <3>1
    <3>3. p + i \in Nat /\ p + i \notin b..(b + len - 1)
      BY <2>6, <3>2
    <3> QED BY <1>8, <3>1, <3>3 DEF NewBytes
  <2>9. CASE \A i \in 0..(zo - 1) : p + i \notin b..(b + w - 1)
    <3>1. Holds(m2, p, zo, co, to, j)
      BY <2>7, <2>8, <2>9, HoldsApart
    <3>2. o \notin touched' => o \notin touched
      OBVIOUS
    <3> QED BY <2>1, <2>5, <2>7, <3>1, <3>2
  <2>10. CASE \E i \in 0..(zo - 1) : p + i \in b..(b + w - 1)
    <3>1. p \in b..(b + w - 1)
      BY <2>6, <2>10
    <3>2. p + 0 = p /\ 0 \in 0..(zo - 1)
      BY <2>5
    <3>3. Byte(m2, p) = 0
      BY <2>8, <3>1, <3>2
    <3>4. \A i \in 0..(zo - 1) : Byte(m2, p + i) \in {0, Byte(m, p + i)}
      BY <2>8
    <3>5. Holds(m2, p, zo, co, to, 0)
      <4>1. Holds(m, p, zo, co, to, j) /\ zo > 0
        BY <2>5, <2>7
      <4> QED BY <3>3, <3>4, <4>1, HoldsCut, Zenon
    <3>6. o \in touched'
      <4>1. BlockOf(o) = p..(p + zo - 1)
        BY <2>1, <2>2 DEF BlockOf, fDataSz
      <4>2. p \in BlockOf(o)
        BY <2>5, <4>1
      <4>3. p \in Base[s]..(Base[s] + w - 1)
        BY <1>3, <3>1
      <4> QED BY <1>9, <4>2, <4>3
    <3> QED BY <2>1, <2>5, <3>5, <3>6
  <2> QED BY <2>9, <2>10
<1>10. \E j \in 0..str'[s].size :
         /\ Holds(m2, Base[s], str'[s].size, str'[s].cur, said'[s], j)
         /\ s \notin touched' => Uncut(said'[s], str'[s].cur, str'[s].size, j)
  <2>1. Holds(m2, b, z, Len(text), text, Len(text))
    BY <1>8, HoldsNew
  <2>2. Len(text) \in 0..z
    OBVIOUS
  <2>3. Uncut(text, Len(text), z, Len(text))
    BY DEF Uncut
  <2> QED BY <1>2, <1>3, <2>1, <2>2, <2>3
<1>11. \A o \in Names : str'[o].size > 0 /\ o \notin mixed' =>
         \E j \in 0..str'[o].size :
           /\ Holds(mem', Base[o], str'[o].size, str'[o].cur, said'[o], j)
           /\ o \notin touched' => Uncut(said'[o], str'[o].cur, str'[o].size, j)
  BY <1>7, <1>9, <1>10
<1> QED BY <1>4, <1>5, <1>11 DEF Whole, HoldsTo, fData, fCur, fDataSz

(* What one string takes from another: into a clear place inside the block *)
(* the copy is exact, and the length the source has then is no less.       *)
LEMMA HeldIsText ==
  ASSUME NEW m \in [Addr -> Chars], NEW p \in Nat
  PROVE  /\ Held(m, p, rt_string_len(m, p)) \in Seq(Chars \ {0})
         /\ Len(Held(m, p, rt_string_len(m, p))) = rt_string_len(m, p)
<1>1. PICK n \in Nat : n = rt_string_len(m, p)
  BY LengthIs
<1>2. \A k \in Nat : Byte(m, p + k) = 0 => n =< k
  BY <1>1, LengthIs
<1>3. \A i \in 1..n : Byte(m, p + i - 1) \in Chars \ {0}
  <2> TAKE i \in 1..n
  <2>1. i - 1 \in Nat /\ p + (i - 1) = p + i - 1 /\ ~(n =< i - 1)
    OBVIOUS
  <2>2. Byte(m, p + i - 1) # 0
    BY <1>2, <2>1
  <2> QED BY <2>2, PutIsTyped
<1>4. Held(m, p, n) \in Seq(Chars \ {0}) /\ Len(Held(m, p, n)) = n
  BY <1>3 DEF Held
<1> QED BY <1>1, <1>4

LEMMA CopyLeaves ==
  ASSUME NEW m \in [Addr -> Chars], NEW src \in Nat, NEW p \in Nat, NEW n \in Nat,
         NEW after, after = Forward(m, src, p, n)
  PROVE  after \in [Addr -> Chars] /\ Beside(after, m, p, n)
<1>1. /\ after \in [Addr -> Chars]
      /\ \A q \in Addr : q < p \/ q >= p + n => after[q] = m[q]
  BY ForwardLeaves
<1>2. \A q \in Nat : q \notin p..(p + n - 1) => q < p \/ q >= p + n
  OBVIOUS
<1> QED BY <1>1, <1>2 DEF Beside, Byte

LEMMA CopyAppends ==
  ASSUME NEW m \in [Addr -> Chars], NEW src \in Nat, NEW b \in Nat, NEW c \in Nat,
         NEW n \in Nat, NEW after, after = Forward(m, src, b + c, n),
         b + c =< src \/ src + n =< b + c
  PROVE  after = AppendText(m, b, Held(m, src, n), c)
BY ForwardAppends

LEMMA CopyIsExact ==
  ASSUME NEW m \in [Addr -> Chars], NEW src \in Nat, NEW b \in Nat, NEW c \in Nat,
         NEW n \in Nat, NEW d \in Nat, NEW after, n = rt_string_len(m, src),
         b + c + n =< MemSz, after = Forward(m, src, b + c, n),
         d = rt_string_len(after, src), Byte(m, b + c) = 0
  PROVE  WrittenAt(after, m, b + c, Held(m, src, n)) /\ d >= n
<1>1. Byte(m, src + n) = 0 /\ \A k \in Nat : Byte(m, src + k) = 0 => n =< k
  BY LengthIs
<1>2. after \in [Addr -> Chars]
  <2>1. b + c \in Nat
    OBVIOUS
  <2> QED BY <2>1, CopyLeaves
<1>3. Byte(after, src + d) = 0
  BY <1>2, LengthIs
<1>4. b + c =< src \/ src + n =< b + c
  <2> SUFFICES ASSUME src < b + c PROVE src + n =< b + c
    OBVIOUS
  <2>1. PICK k \in Nat : src + k = b + c
    <3>1. b + c - src \in Nat /\ src + (b + c - src) = b + c
      OBVIOUS
    <3> QED BY <3>1
  <2>2. n =< k
    BY <1>1, <2>1
  <2> QED BY <2>1, <2>2
<1>5. PICK text \in Seq(Chars \ {0}) : text = Held(m, src, n) /\ Len(text) = n
  BY HeldIsText
<1>6. after = AppendText(m, b, text, c)
  <2>1. after = AppendText(m, b, Held(m, src, n), c)
    BY <1>4, CopyAppends
  <2> QED BY <1>5, <2>1
<1>7. \A q \in Nat : Byte(after, q) =
        IF q \in (b + c)..(b + c + n - 1) THEN text[q - b - c + 1] ELSE Byte(m, q)
  <2>1. text \in Seq(Chars) /\ b + c + Len(text) =< MemSz
    BY <1>5
  <2>2. \A q \in Nat : Byte(AppendText(m, b, text, c), q) =
          IF q \in (b + c)..(b + c + Len(text) - 1) THEN text[q - b - c + 1] ELSE Byte(m, q)
    BY <2>1, AppendedBytes
  <2> QED BY <1>5, <1>6, <2>2
<1>8. WrittenAt(after, m, b + c, text)
  <2>1. \A q \in Nat : q - (b + c) + 1 = q - b - c + 1
    OBVIOUS
  <2> QED BY <1>5, <1>7, <2>1 DEF WrittenAt
<1>9. \A k \in 0..(n - 1) : Byte(after, src + k) # 0
  <2> TAKE k \in 0..(n - 1)
  <2>1. CASE src + k \in (b + c)..(b + c + n - 1)
    <3>1. PICK i \in 1..n : i = src + k - b - c + 1
      BY <2>1
    <3>2. Byte(after, src + k) = text[i]
      BY <1>7, <2>1, <3>1
    <3>3. text[i] # 0
      BY <1>5, <3>1
    <3> QED BY <3>2, <3>3
  <2>2. CASE src + k \notin (b + c)..(b + c + n - 1)
    <3>1. ~(n =< k) /\ k \in Nat
      OBVIOUS
    <3>2. Byte(m, src + k) # 0
      BY <1>1, <3>1
    <3> QED BY <1>7, <2>2, <3>2
  <2> QED BY <2>1, <2>2
<1>10. d \notin 0..(n - 1)
  BY <1>3, <1>9
<1> QED BY <1>5, <1>8, <1>10

-----------------------------------------------------------------------------
(* The steps.                                                              *)

(* Clearing len words.                                                     *)
LEMMA ClearedBytes ==
  ASSUME NEW m \in [Addr -> Chars], NEW p \in Nat, NEW len \in Nat
  PROVE  /\ rt_set_memory(m, p, 0, len) \in [Addr -> Chars]
         /\ \A q \in Nat : Byte(rt_set_memory(m, p, 0, len), q) =
              IF q \in p..(p + Word * len - 1) THEN 0 ELSE Byte(m, q)
<1> DEFINE M == rt_set_memory(m, p, 0, len)
<1>1. M = [q \in Addr |-> IF q \in p..(p + Word * len - 1) THEN 0 ELSE m[q]]
  BY DEF rt_set_memory
<1> HIDE DEF M
<1>2. M \in [Addr -> Chars]
  BY <1>1, Widths
<1>3. \A q \in Nat : Byte(M, q) = IF q \in p..(p + Word * len - 1) THEN 0 ELSE Byte(m, q)
  BY <1>1 DEF Byte
<1> QED BY <1>2, <1>3 DEF M

LEMMA WordsCover ==
  ASSUME NEW len \in Nat
  PROVE  Word * len \in Nat /\ len =< Word * len
<1>1. PICK w \in Nat : Word = w + 1
  <2>1. Word - 1 \in Nat /\ Word = (Word - 1) + 1
    BY Widths
  <2> QED BY <2>1
<1>2. (w + 1) * len = w * len + len /\ w * len \in Nat
  OBVIOUS
<1> QED BY <1>1, <1>2

(* The blocks.                                                             *)
LEMMA NewBlock ==
  ASSUME Blocks, NEW s \in Names, str[s].size = 0, NEW z \in Nat, z > 0, HandedOut(s, z),
         NEW k \in Nat, str' = [str EXCEPT ![s] = [size |-> z, cur |-> k]]
  PROVE  Blocks'
<1>1. str \in [Names -> [size : Nat, cur : Nat]] /\ str' \in [Names -> [size : Nat, cur : Nat]]
  BY DEF Blocks
<1>2. str'[s].size = z /\ str'[s].cur = k /\ \A t \in Names : t # s => str'[t] = str[t]
  BY <1>1
<1>3. \A t \in Names : str'[t].size = 0 => str'[t].cur = 0
  BY <1>2 DEF Blocks, fDataSz, fCur
<1>4. \A t, o \in Names : t # o /\ str'[t].size > 0 /\ str'[o].size > 0 =>
        Base[t] + str'[t].size =< Base[o] \/ Base[o] + str'[o].size =< Base[t]
  BY <1>2 DEF Blocks, HandedOut, fDataSz, fData
<1>5. Blocks'
  BY <1>1, <1>3, <1>4 DEF Blocks, fDataSz, fCur, fData
<1> QED BY <1>5

LEMMA MovedCursor ==
  ASSUME Blocks, NEW s \in Names, str[s].size > 0, NEW d \in Nat,
         str' = [str EXCEPT ![s].cur = @ + d]
  PROVE  Blocks'
<1>1. str \in [Names -> [size : Nat, cur : Nat]] /\ str' \in [Names -> [size : Nat, cur : Nat]]
  BY DEF Blocks
<1>2. /\ \A t \in Names : str'[t].size = str[t].size /\ (t # s => str'[t].cur = str[t].cur)
      /\ str'[s].cur = str[s].cur + d
  BY <1>1
<1>3. \A t \in Names : str'[t].size = 0 => str'[t].cur = 0
  BY <1>2 DEF Blocks, fDataSz, fCur
<1>4. Blocks'
  BY <1>1, <1>2, <1>3 DEF Blocks, fDataSz, fCur, fData
<1> QED BY <1>4

LEMMA KStringKeeps ==
  ASSUME StringsInv, NEW s \in Names, NEW size \in Sizes, KString(s, size)
  PROVE  StringsInv'
<1>1. size \in Nat /\ size > 0 /\ str[s].size = 0 /\ HandedOut(s, size) /\ Base[s] \in Nat
  BY StringsAssumption DEF KString, fDataSz
<1>2. /\ mem' = rt_set_memory(mem, Base[s], 0, size)
      /\ str' = [str EXCEPT ![s] = [size |-> size, cur |-> 0]]
      /\ touched' = touched \union
           {o \in Names \ {s} : BlockOf(o) \intersect Base[s]..(Base[s] + Word * size - 1) # {}}
      /\ said' = said /\ mixed' = mixed
  BY DEF KString, Cleared
<1>3. Blocks /\ 0 \in Nat
  BY DEF StringsInv
<1>4. Blocks'
  BY <1>1, <1>2, <1>3, NewBlock
<1>5. Whole'
  <2>1. Whole
    BY DEF StringsInv
  <2>2. PICK w \in Nat : w = Word * size /\ size =< w
    BY <1>1, WordsCover
  <2>3. PICK text \in Seq(Chars \ {0}) : text = <<>> /\ Len(text) = 0
    <3>1. <<>> \in Seq(Chars \ {0}) /\ Len(<<>>) = 0
      OBVIOUS
    <3> QED BY <3>1, Zenon
  <2>4. mem' \in [Addr -> Chars] /\ NewBytes(mem', mem, Base[s], w, text)
    <3>1. /\ mem' \in [Addr -> Chars]
          /\ \A q \in Nat : Byte(mem', q) =
               IF q \in Base[s]..(Base[s] + Word * size - 1) THEN 0 ELSE Byte(mem, q)
      BY <1>1, <1>2, <2>1, ClearedBytes DEF Whole
    <3>2. \A q \in Nat : q \notin Base[s]..(Base[s] + Len(text) - 1)
      BY <1>1, <2>3
    <3> QED BY <2>2, <3>1, <3>2 DEF NewBytes
  <2>5. said' = [said EXCEPT ![s] = text]
    <3>1. said[s] = text /\ said \in [Names -> Seq(Chars \ {0})]
      BY <1>1, <2>1, <2>3 DEF Whole, fDataSz
    <3> QED BY <1>2, <3>1
  <2>6. /\ str' = [str EXCEPT ![s] = [size |-> size, cur |-> Len(text)]]
        /\ touched' = touched \union
             {o \in Names \ {s} : BlockOf(o) \intersect Base[s]..(Base[s] + w - 1) # {}}
    BY <1>2, <2>2, <2>3
  <2>7. Len(text) =< size
    BY <1>1, <2>3
  <2> QED BY <1>1, <1>2, <1>3, <2>1, <2>2, <2>4, <2>5, <2>6, <2>7, NewKeeps
<1> QED BY <1>4, <1>5 DEF StringsInv

LEMMA ConstructKeeps ==
  ASSUME StringsInv, NEW s \in Names, NEW text \in Texts, Construct(s, text)
  PROVE  StringsInv'
<1>1. text \in Seq(Chars \ {0}) /\ Base[s] \in Nat
  BY StringsAssumption
<1>2. PICK z \in Nat : z = Len(text) /\ z > 0
  <2>1. text # <<>>
    BY DEF Construct
  <2> QED BY <1>1, <2>1
<1>3. /\ mem' = AppendText(rt_set_memory(mem, Base[s], 0, z), Base[s], text, 0)
      /\ str' = [str EXCEPT ![s] = [size |-> z, cur |-> Len(text)]]
      /\ touched' = touched \union
           {o \in Names \ {s} : BlockOf(o) \intersect Base[s]..(Base[s] + Word * z - 1) # {}}
      /\ said' = [said EXCEPT ![s] = text] /\ mixed' = mixed
      /\ str[s].size = 0 /\ HandedOut(s, z)
  BY <1>2 DEF Construct, Cleared, fDataSz
<1>4. Blocks
  BY DEF StringsInv
<1>5. Blocks'
  BY <1>1, <1>2, <1>3, <1>4, NewBlock
<1>6. Whole'
  <2>1. Whole
    BY DEF StringsInv
  <2>2. PICK w \in Nat : w = Word * z /\ z =< w
    BY WordsCover
  <2>3. mem' \in [Addr -> Chars] /\ NewBytes(mem', mem, Base[s], w, text)
    <3>1. PICK clear \in [Addr -> Chars] :
            /\ clear = rt_set_memory(mem, Base[s], 0, z)
            /\ \A q \in Nat : Byte(clear, q) =
                 IF q \in Base[s]..(Base[s] + w - 1) THEN 0 ELSE Byte(mem, q)
      <4>1. mem \in [Addr -> Chars]
        BY <2>1 DEF Whole
      <4>2. /\ rt_set_memory(mem, Base[s], 0, z) \in [Addr -> Chars]
            /\ \A q \in Nat : Byte(rt_set_memory(mem, Base[s], 0, z), q) =
                 IF q \in Base[s]..(Base[s] + Word * z - 1) THEN 0 ELSE Byte(mem, q)
        BY <1>1, <4>1, ClearedBytes
      <4> QED BY <2>2, <4>2
    <3>2. PICK p \in Nat : p = Base[s]
      BY <1>1
    <3>3. text \in Seq(Chars) /\ p + 0 + Len(text) =< MemSz
      BY <1>1, <1>2, <1>3, <3>2 DEF HandedOut
    <3>4. /\ AppendText(clear, p, text, 0) \in [Addr -> Chars]
          /\ \A q \in Nat : Byte(AppendText(clear, p, text, 0), q) =
               IF q \in (p + 0)..(p + 0 + Len(text) - 1) THEN text[q - p - 0 + 1]
               ELSE Byte(clear, q)
      BY <3>3, AppendedBytes
    <3>5. \A q \in Nat : q - p - 0 + 1 = q - p + 1 /\ p + 0 = p /\ p + 0 + Len(text) - 1 = p + Len(text) - 1
      BY <1>1
    <3>6. mem' = AppendText(clear, p, text, 0)
      BY <1>3, <3>1, <3>2
    <3> QED BY <3>1, <3>2, <3>4, <3>5, <3>6 DEF NewBytes
  <2>4. touched' = touched \union
          {o \in Names \ {s} : BlockOf(o) \intersect Base[s]..(Base[s] + w - 1) # {}}
    BY <1>3, <2>2
  <2>5. Len(text) =< z
    BY <1>2
  <2> QED BY <1>1, <1>2, <1>3, <1>4, <2>1, <2>2, <2>3, <2>4, <2>5, NewKeeps
<1> QED BY <1>5, <1>6 DEF StringsInv

LEMMA AppendCharsKeeps ==
  ASSUME StringsInv, NEW s \in Names, NEW text \in Texts, AppendChars(s, text)
  PROVE  StringsInv'
<1>1. text \in Seq(Chars \ {0}) /\ Blocks /\ Whole
  BY StringsAssumption DEF StringsInv
<1>2. PICK d \in Nat : d = Len(text)
  BY <1>1
<1>3. /\ str[s].size > 0 /\ Base[s] + str[s].cur + Len(text) =< MemSz
      /\ mem' = AppendText(mem, Base[s], text, str[s].cur)
      /\ str' = [str EXCEPT ![s].cur = @ + d] /\ said' = [said EXCEPT ![s] = @ \o text]
      /\ touched' = touched /\ mixed' = mixed \union RunInto(s, d)
  BY <1>2 DEF AppendChars, fData, fCur, fDataSz
<1>4. Blocks'
  BY <1>1, <1>3, MovedCursor
<1>5. /\ mem' \in [Addr -> Chars] /\ WrittenAt(mem', mem, Base[s] + str[s].cur, text)
      /\ Beside(mem', mem, Base[s] + str[s].cur, d)
  <2>1. PICK b \in Nat : b = Base[s]
    BY StringsAssumption
  <2>2. PICK c \in Nat : c = str[s].cur
    BY <1>1 DEF Blocks
  <2>3. PICK m \in [Addr -> Chars] : m = mem
    BY <1>1 DEF Whole
  <2>4. text \in Seq(Chars) /\ b + c + Len(text) =< MemSz /\ mem' = AppendText(m, b, text, c)
    BY <1>1, <1>3, <2>1, <2>2, <2>3
  <2>5. PICK m2 : m2 = mem'
    OBVIOUS
  <2>6. /\ m2 \in [Addr -> Chars]
        /\ \A q \in Nat : Byte(m2, q) = IF q \in (b + c)..(b + c + Len(text) - 1)
                                        THEN text[q - b - c + 1] ELSE Byte(m, q)
    BY <2>4, <2>5, AppendedBytes
  <2>7. \A q \in Nat : q - (b + c) + 1 = q - b - c + 1
    OBVIOUS
  <2>8. WrittenAt(m2, m, b + c, text) /\ Beside(m2, m, b + c, d)
    BY <1>2, <2>6, <2>7 DEF WrittenAt, Beside
  <2> QED BY <2>1, <2>2, <2>3, <2>5, <2>6, <2>8
<1>6. d >= Len(text)
  BY <1>2
<1> QED BY <1>1, <1>2, <1>3, <1>4, <1>5, <1>6, AppendKeeps DEF StringsInv

(* What r's reader finds, in characters.                                   *)
LEMMA TextInIs ==
  ASSUME Blocks, Whole, NEW r \in Names, NEW n \in Nat, n = rt_string_len(mem, Base[r])
  PROVE  /\ TextIn(r) \in Seq(Chars \ {0})
         /\ n =< str[r].size => TextIn(r) = Held(mem, Base[r], n)
<1>1. /\ fDataSz(r) = str[r].size /\ str[r].size \in Nat /\ fData(r) = Base[r] /\ Base[r] \in Nat
  BY StringsAssumption DEF Blocks, fDataSz, fData
<1>2. PICK k \in 0..str[r].size :
        /\ TextIn(r) = [i \in 1..k |-> Byte(mem, Base[r] + i - 1)]
        /\ \A i \in 0..(k - 1) : Byte(mem, Base[r] + i) \in Chars \ {0}
  BY <1>1, ReadsIs
<1>3. \A i \in 1..k : Byte(mem, Base[r] + i - 1) \in Chars \ {0}
  <2> TAKE i \in 1..k
  <2>1. i - 1 \in 0..(k - 1) /\ Base[r] + (i - 1) = Base[r] + i - 1
    BY <1>1
  <2> QED BY <1>2, <2>1
<1>4. n =< str[r].size => TextIn(r) = [i \in 1..n |-> Byte(mem, Base[r] + i - 1)]
  <2> HAVE n =< str[r].size
  <2>1. TextIn(r) = [i \in 1..(IF n > str[r].size THEN str[r].size ELSE n) |->
                       Byte(mem, Base[r] + i - 1)]
    BY <1>1 DEF TextIn
  <2>2. (IF n > str[r].size THEN str[r].size ELSE n) = n
    BY <1>1
  <2> QED BY <2>1, <2>2
<1> QED BY <1>2, <1>3, <1>4 DEF Held

LEMMA AppendStringKeeps ==
  ASSUME StringsInv, NEW s \in Names, NEW r \in Names, AppendString(s, r)
  PROVE  StringsInv'
<1> DEFINE len == rt_string_len(mem, Base[r])
           copied == Forward(mem, Base[r], Base[s] + str[s].cur, len)
           moved == rt_string_len(copied, Base[r])
<1>1. Blocks /\ Whole /\ Base[r] \in Nat /\ Base[s] \in Nat /\ mem \in [Addr -> Chars]
  BY StringsAssumption DEF StringsInv, Whole
<1>2. str[s].size \in Nat /\ str[s].cur \in Nat /\ str[r].size \in Nat
  BY <1>1 DEF Blocks
<1>3. CASE UNCHANGED stringsVars
  BY <1>3 DEF stringsVars, StringsInv, Blocks, Whole, HoldsTo, fDataSz, fCur, fData
<1>4. CASE ~UNCHANGED stringsVars
  <2>1. /\ str[s].size > 0 /\ str[r].size > 0 /\ Base[s] + str[s].cur + len =< MemSz
        /\ mem' = copied /\ str' = [str EXCEPT ![s].cur = @ + moved]
        /\ said' = [said EXCEPT ![s] = @ \o TextIn(r)]
        /\ touched' = IF moved # len THEN touched \union {s} ELSE touched
        /\ mixed' = mixed \union RunInto(s, len) \union (IF len > str[r].size THEN {s} ELSE {})
    BY <1>4 DEF AppendString, rt_string_append, fData, fCur, fDataSz
  <2>2. PICK n \in Nat : n = len
    BY <1>1, LengthIs
  <2>3. PICK b \in Nat : b = Base[s]
    BY <1>1
  <2>4. PICK c \in Nat : c = str[s].cur
    BY <1>2
  <2>5. PICK z \in Nat : z = str[s].size
    BY <1>2
  <2>6. PICK src \in Nat : src = Base[r]
    BY <1>1
  <2>7. PICK m \in [Addr -> Chars] : m = mem
    BY <1>1
  <2>8. PICK after : after = mem'
    OBVIOUS
  <2>9. after = Forward(m, src, b + c, n) /\ b + c \in Nat
    BY <2>1, <2>2, <2>3, <2>4, <2>6, <2>7, <2>8
  <2>10. after \in [Addr -> Chars] /\ Beside(after, m, b + c, n)
    BY <2>9, CopyLeaves
  <2>11. PICK d \in Nat : d = rt_string_len(after, src)
    BY <2>10, LengthIs
  <2>12. moved = d
    BY <2>1, <2>6, <2>8, <2>11
  <2>13. /\ z > 0 /\ b + c + n =< MemSz /\ n = rt_string_len(m, src)
         /\ str' = [str EXCEPT ![s].cur = @ + d]
         /\ touched' = IF d # n THEN touched \union {s} ELSE touched
         /\ mixed' = mixed \union RunInto(s, n) \union (IF n > str[r].size THEN {s} ELSE {})
    BY <2>1, <2>2, <2>3, <2>4, <2>5, <2>6, <2>7, <2>12
  <2>14. n = rt_string_len(mem, Base[r])
    BY <2>2
  <2> HIDE DEF len, copied, moved
  <2>15. Blocks'
    BY <1>1, <2>1, <2>13, MovedCursor
  <2>16. PICK text \in Seq(Chars \ {0}) :
           text = TextIn(r) /\ (n =< str[r].size => text = Held(m, src, n))
    BY <1>1, <2>6, <2>7, <2>14, TextInIs
  <2>17. /\ mem' \in [Addr -> Chars] /\ Beside(mem', mem, Base[s] + str[s].cur, n)
         /\ said' = [said EXCEPT ![s] = @ \o text]
         /\ touched \subseteq touched' /\ mixed \subseteq mixed' /\ RunInto(s, n) \subseteq mixed'
    BY <2>1, <2>3, <2>4, <2>7, <2>8, <2>10, <2>13, <2>16
  <2>18. ASSUME s \notin mixed'
         PROVE  text = Held(m, src, n) /\ Len(text) = n
    <3>1. n =< str[r].size
      BY <1>2, <2>13, <2>18
    <3>2. text = Held(m, src, n)
      BY <2>16, <3>1
    <3>3. Len(Held(m, src, n)) = n
      BY <2>13, HeldIsText
    <3> QED BY <3>2, <3>3
  <2>19. ASSUME s \notin mixed', c < z
         PROVE  WrittenAt(after, m, b + c, text) /\ d >= Len(text)
    <3>1. Byte(m, b + c) = 0
      <4>1. s \notin mixed
        BY <2>13, <2>19
      <4>2. \A i \in str[s].cur..(str[s].size - 1) : Byte(mem, Base[s] + i) = 0
        BY <1>1, <2>1, <4>1, WholeIs DEF Holds
      <4>3. c \in c..(z - 1)
        BY <2>19
      <4> QED BY <2>3, <2>4, <2>5, <2>7, <4>2, <4>3
    <3>2. WrittenAt(after, m, b + c, Held(m, src, n)) /\ d >= n
      BY <2>9, <2>11, <2>13, <3>1, CopyIsExact
    <3> QED BY <2>18, <2>19, <3>2
  <2>20. s \notin mixed' /\ s \notin touched' => d = Len(text)
    BY <2>13, <2>18
  <2>21. s \notin mixed' /\ str[s].cur < str[s].size =>
           WrittenAt(mem', mem, Base[s] + str[s].cur, text) /\ d >= Len(text)
    BY <2>3, <2>4, <2>5, <2>7, <2>8, <2>19
  <2>22. Whole'
    BY <1>1, <2>1, <2>13, <2>17, <2>20, <2>21, AppendKeeps
  <2> QED BY <2>15, <2>22 DEF StringsInv
<1> QED BY <1>3, <1>4

LEMMA StringsAtStart == StringsInit => StringsInv
<1> SUFFICES ASSUME StringsInit PROVE StringsInv
  OBVIOUS
<1>1. \A s \in Names : str[s].size = 0 /\ str[s].cur = 0 /\ said[s] = <<>>
  BY DEF StringsInit
<1>2. str \in [Names -> [size : Nat, cur : Nat]]
  BY DEF StringsInit
<1>3. Blocks
  BY <1>1, <1>2 DEF Blocks, fDataSz, fCur
<1>4. said \in [Names -> Seq(Chars \ {0})]
  <2>1. <<>> \in Seq(Chars \ {0})
    OBVIOUS
  <2> QED BY <2>1 DEF StringsInit
<1>5. Whole
  BY <1>1, <1>4 DEF Whole, StringsInit, fDataSz
<1> QED BY <1>3, <1>5 DEF StringsInv

LEMMA StringsStep == StringsInv /\ [StringsNext]_stringsVars => StringsInv'
<1> SUFFICES ASSUME StringsInv, [StringsNext]_stringsVars PROVE StringsInv'
  OBVIOUS
<1>1. CASE UNCHANGED stringsVars
  BY <1>1 DEF stringsVars, StringsInv, Blocks, Whole, HoldsTo, fDataSz, fCur, fData
<1> QED BY <1>1, KStringKeeps, ConstructKeeps, AppendCharsKeeps, AppendStringKeeps DEF StringsNext

(* Whatever strings run past, every string that no character of another    *)
(* came into reads as a prefix of what was appended to it, and as all of   *)
(* it there is room for unless a neighbour's clearing or a wrong cursor    *)
(* touched it; and strings that compare equal read the same: wherever the  *)
(* blocks are, of whatever sizes and texts.                                *)
(* (KString.h:33, KString.cc:30, :44, :188, :213)                          *)
THEOREM StringsHold == StringsSpec => []StringsHoldTheirText
BY StringsAtStart, StringsStep, HeldText, PTL DEF StringsSpec

-----------------------------------------------------------------------------
(* The helpers on memory, for a memory of any size and contents.           *)

LEMMA RestOfLess ==
  ASSUME NEW d \in Nat \ {0}, NEW i \in 0..(d - 1)
  PROVE  i % d = i
OBVIOUS

LEMMA Divides ==
  ASSUME NEW d \in Nat \ {0}, NEW i \in Nat
  PROVE  i % d \in 0..(d - 1) /\ i \div d \in Int /\ i = (d * (i \div d)) + (i % d)
OBVIOUS

LEMMA OnceAtLeast ==
  ASSUME NEW d \in Nat \ {0}, NEW t \in Int
  PROVE  (t >= 1 => d * t >= d) /\ (t =< -1 => d * t =< -d)
OBVIOUS

LEMMA RestOfMore ==
  ASSUME NEW d \in Nat \ {0}, NEW i \in Nat, i >= d
  PROVE  (i - d) % d = i % d
<1>1. PICK q \in Int, r \in 0..(d - 1) : r = i % d /\ i = d * q + r
  BY Divides
<1>2. PICK j \in Nat : j = i - d
  OBVIOUS
<1>3. PICK p \in Int, s \in 0..(d - 1) : s = j % d /\ j = d * p + s
  BY Divides
<1>4. PICK t \in Int : t = q - p - 1
  OBVIOUS
<1>5. d * t = d * q - d * p - d
  BY <1>4
<1>6. d * t = s - r
  <2>1. d * q \in Int /\ d * p \in Int
    OBVIOUS
  <2> QED BY <1>1, <1>2, <1>3, <1>5, <2>1
<1>7. ~(t >= 1) /\ ~(t =< -1)
  BY <1>6, OnceAtLeast
<1>8. t = 0
  BY <1>7
<1>9. d * t = 0
  BY <1>8
<1>10. j % d = i % d
  BY <1>1, <1>3, <1>6, <1>9
<1> QED BY <1>2, <1>10, Zenon

(* A copy whose target lies behind the source's beginning repeats the      *)
(* source's first dst - src characters.                                    *)
Repeats(after, m, src, dst, n) ==
  /\ after \in [Addr -> Chars]
  /\ \A i \in 0..(n - 1) : after[dst + i] = Byte(m, src + (i % (dst - src)))
  /\ \A q \in Addr : q \notin dst..(dst + n - 1) => after[q] = m[q]

LEMMA OneRepeated ==
  ASSUME NEW m \in [Addr -> Chars], NEW src \in Nat, NEW dst \in Nat, src < dst,
         NEW n \in Nat, dst + n < MemSz, NEW c, Repeats(c, m, src, dst, n)
  PROVE  Repeats(Put(c, dst + n, Byte(c, src + n)), m, src, dst, n + 1)
<1>1. PICK d \in Nat \ {0} : d = dst - src
  OBVIOUS
<1>2. PICK x : x = Byte(c, src + n)
  OBVIOUS
<1>3. PICK after : after = Put(c, dst + n, x)
  OBVIOUS
<1>4. c \in [Addr -> Chars] /\ x \in Chars
  <2>1. c \in [Addr -> Chars]
    BY DEF Repeats
  <2>2. Byte(c, src + n) \in Chars
    BY <2>1, PutIsTyped
  <2> QED BY <1>2, <2>1, <2>2
<1>5. after \in [Addr -> Chars] /\ \A q \in Addr : after[q] = IF q = dst + n THEN x ELSE c[q]
  BY <1>3, <1>4 DEF Put
<1>6. x = Byte(m, src + (n % d))
  <2>1. CASE n < d
    <3>1. n \in 0..(d - 1)
      BY <2>1
    <3>2. n % d = n
      BY <3>1, RestOfLess
    <3>3. src + n \notin dst..(dst + n - 1)
      BY <1>1, <2>1
    <3>4. Byte(c, src + n) = Byte(m, src + n)
      BY <3>3 DEF Byte, Repeats
    <3> QED BY <1>2, <3>2, <3>4
  <2>2. CASE n >= d
    <3>1. PICK j \in 0..(n - 1) : j = n - d
      BY <2>2
    <3>2. j % d = n % d
      BY <2>2, <3>1, RestOfMore
    <3>3. src + n = dst + j /\ dst + j \in Addr
      BY <1>1, <3>1, Widths
    <3>4. Byte(c, src + n) = c[dst + j]
      BY <3>3 DEF Byte
    <3>5. c[dst + j] = Byte(m, src + (j % d))
      BY <1>1, <3>1 DEF Repeats
    <3> QED BY <1>2, <3>2, <3>4, <3>5
  <2> QED BY <2>1, <2>2
<1>7. \A i \in 0..n : after[dst + i] = Byte(m, src + (i % d))
  <2> TAKE i \in 0..n
  <2>1. dst + i \in Addr
    BY Widths
  <2>2. CASE i = n
    BY <1>5, <1>6, <2>1, <2>2
  <2>3. CASE i # n
    <3>1. i \in 0..(n - 1) /\ dst + i # dst + n
      BY <2>3
    <3>2. c[dst + i] = Byte(m, src + (i % d))
      BY <1>1, <3>1 DEF Repeats
    <3> QED BY <1>5, <2>1, <3>1, <3>2
  <2> QED BY <2>2, <2>3
<1>8. \A q \in Addr : q \notin dst..(dst + n) => after[q] = m[q]
  <2> TAKE q \in Addr
  <2> HAVE q \notin dst..(dst + n)
  <2>1. q # dst + n /\ q \notin dst..(dst + n - 1)
    BY Widths
  <2>2. c[q] = m[q]
    BY <2>1 DEF Repeats
  <2> QED BY <1>5, <2>1, <2>2
<1>9. n + 1 - 1 = n
  OBVIOUS
<1> QED BY <1>1, <1>2, <1>3, <1>5, <1>7, <1>8, <1>9 DEF Repeats

LEMMA ForwardRepeats ==
  ASSUME NEW m \in [Addr -> Chars], NEW src \in Nat, NEW dst \in Nat, src < dst,
         NEW len \in Nat, dst + len =< MemSz
  PROVE  Repeats(Forward(m, src, dst, len), m, src, dst, len)
<1>1. PICK c : Turns(c, m, src, dst, len)
  BY ForwardTurns
<1> DEFINE Bad == {i \in 0..len : ~Repeats(c[i], m, src, dst, i)}
<1>2. ASSUME Bad # {} PROVE FALSE
  <2>1. PICK n \in Bad : \A k \in Bad : n =< k
    <3>1. Bad \in SUBSET Nat
      OBVIOUS
    <3> HIDE DEF Bad
    <3> QED BY <1>2, <3>1, LeastOne
  <2>2. CASE n = 0
    <3>1. c[0] = m
      BY <1>1 DEF Turns
    <3>2. Repeats(m, m, src, dst, 0)
      BY DEF Repeats
    <3> QED BY <2>1, <2>2, <3>1, <3>2
  <2>3. CASE n # 0
    <3>1. PICK k \in Nat : k = n - 1 /\ k \in 0..len /\ k \notin Bad
      BY <2>1, <2>3
    <3>2. Repeats(c[k], m, src, dst, k)
      BY <3>1
    <3>3. n \in 1..len /\ dst + n - 1 = dst + k /\ src + n - 1 = src + k /\ k + 1 = n
      BY <2>1, <2>3, <3>1
    <3>4. c[n] = Put(c[k], dst + k, Byte(c[k], src + k))
      BY <1>1, <3>1, <3>3 DEF Turns
    <3>5. dst + k < MemSz
      BY <3>1, <3>3, Widths
    <3>6. Repeats(c[n], m, src, dst, k + 1)
      BY <3>2, <3>4, <3>5, OneRepeated
    <3> QED BY <2>1, <3>3, <3>6
  <2> QED BY <2>2, <2>3
<1>3. len \in 0..len /\ len \notin Bad
  <2>1. len \in 0..len
    OBVIOUS
  <2> HIDE DEF Bad
  <2> QED BY <1>2, <2>1
<1>4. Repeats(c[len], m, src, dst, len)
  BY <1>3
<1> QED BY <1>1, <1>4 DEF Turns

(* Apart, or onto what lies before it, a copy is exact.                    *)
LEMMA HeldAreAllCharacters ==
  ASSUME NEW m \in [Addr -> Chars], NEW src \in Nat, NEW len \in Nat
  PROVE  Held(m, src, len) \in Seq(Chars) /\ Len(Held(m, src, len)) = len
<1>1. \A i \in 1..len : Byte(m, src + i - 1) \in Chars
  BY PutIsTyped
<1> QED BY <1>1 DEF Held

Copied(after, m, src, dst, n) ==
  /\ after \in [Addr -> Chars]
  /\ \A i \in 0..(n - 1) : after[dst + i] = Byte(m, src + i)
  /\ \A q \in Addr : q \notin dst..(dst + n - 1) => after[q] = m[q]

LEMMA ForwardExact ==
  ASSUME NEW m \in [Addr -> Chars], NEW src \in Nat, NEW dst \in Nat,
         NEW len \in Nat, dst + len =< MemSz, dst =< src \/ src + len =< dst
  PROVE  Copied(Forward(m, src, dst, len), m, src, dst, len)
<1>1. dst + 0 = dst
  OBVIOUS
<1>2. Forward(m, src, dst + 0, len) = AppendText(m, dst, Held(m, src, len), 0)
  BY <1>1, ForwardAppends
<1>3. PICK after : after = Forward(m, src, dst, len)
  OBVIOUS
<1>4. PICK text \in Seq(Chars) : text = Held(m, src, len) /\ Len(text) = len
  BY HeldAreAllCharacters
<1>5. \A i \in 1..len : text[i] = Byte(m, src + i - 1)
  BY <1>4 DEF Held
<1>6. dst + 0 + Len(text) =< MemSz
  BY <1>4
<1>7. /\ AppendText(m, dst, text, 0) \in [Addr -> Chars]
      /\ \A q \in Nat : Byte(AppendText(m, dst, text, 0), q) =
           IF q \in (dst + 0)..(dst + 0 + Len(text) - 1) THEN text[q - dst - 0 + 1] ELSE Byte(m, q)
  BY <1>6, AppendedBytes
<1>8. after = AppendText(m, dst, text, 0) /\ after \in [Addr -> Chars]
  BY <1>1, <1>2, <1>3, <1>4, <1>7
<1>9. \A q \in Nat : Byte(after, q) =
        IF q \in dst..(dst + len - 1) THEN text[q - dst + 1] ELSE Byte(m, q)
  BY <1>4, <1>7, <1>8
<1>10. \A i \in 0..(len - 1) : after[dst + i] = Byte(m, src + i)
  <2> TAKE i \in 0..(len - 1)
  <2>1. PICK j \in 1..len : j = i + 1 /\ dst + i - dst + 1 = j /\ src + j - 1 = src + i
    OBVIOUS
  <2>2. dst + i \in Addr /\ dst + i \in Nat /\ dst + i \in dst..(dst + len - 1)
    BY Widths
  <2>3. Byte(after, dst + i) = text[j]
    BY <1>9, <2>1, <2>2
  <2>4. Byte(after, dst + i) = after[dst + i]
    BY <2>2 DEF Byte
  <2> QED BY <1>5, <2>1, <2>3, <2>4
<1>11. \A q \in Addr : q \notin dst..(dst + len - 1) => after[q] = m[q]
  <2> TAKE q \in Addr
  <2> HAVE q \notin dst..(dst + len - 1)
  <2>1. q \in Nat
    BY Widths
  <2>2. Byte(after, q) = Byte(m, q)
    BY <1>9, <2>1
  <2> QED BY <2>2 DEF Byte
<1> QED BY <1>3, <1>8, <1>10, <1>11 DEF Copied

(* Loops.  A value is stepped n times: the list of all its values exists.  *)
Iterates(c, init, step, n) ==
  c = [i \in 0..n |-> IF i = 0 THEN init ELSE step[i][c[i - 1]]]

IteratesTo(S, init, step, n) == \E c \in [0..n -> S] : Iterates(c, init, step, n)

LEMMA IterationsExist ==
  ASSUME NEW S, NEW init \in S, NEW len \in Nat, NEW step \in [1..len -> [S -> S]]
  PROVE  IteratesTo(S, init, step, len)
<1> DEFINE Bad == {n \in 0..len : ~IteratesTo(S, init, step, n)}
<1>1. SUFFICES ASSUME Bad # {} PROVE FALSE
  OBVIOUS
<1>2. PICK n \in Bad : \A k \in Bad : n =< k
  <2>1. Bad \in SUBSET Nat
    OBVIOUS
  <2> HIDE DEF Bad
  <2> QED BY <1>1, <2>1, LeastOne
<1>3. CASE n = 0
  <2>1. [i \in 0..0 |-> init] \in [0..0 -> S]
    OBVIOUS
  <2>2. Iterates([i \in 0..0 |-> init], init, step, 0)
    BY DEF Iterates
  <2> QED BY <1>2, <1>3, <2>1, <2>2 DEF IteratesTo
<1>4. CASE n # 0
  <2>1. n - 1 \in 0..len /\ n - 1 \notin Bad /\ n \in 1..len
    BY <1>2, <1>4
  <2>2. PICK c \in [0..(n - 1) -> S] : Iterates(c, init, step, n - 1)
    BY <2>1 DEF IteratesTo
  <2>3. PICK last \in S : last = step[n][c[n - 1]]
    <3>1. c[n - 1] \in S
      BY <2>1, <2>2
    <3> QED BY <2>1, <3>1
  <2> DEFINE d == [i \in 0..n |-> IF i = n THEN last ELSE c[i]]
  <2>4. d \in [0..n -> S]
    BY <2>1, <2>2, <2>3
  <2>5. \A i \in 0..n : d[i] = IF i = 0 THEN init ELSE step[i][d[i - 1]]
    <3> TAKE i \in 0..n
    <3>1. CASE i = n
      <4>1. d[n] = last /\ d[n - 1] = c[n - 1]
        BY <1>4, <2>1
      <4> HIDE DEF d
      <4> QED BY <1>4, <2>3, <3>1, <4>1
    <3>2. CASE i # n
      <4>1. i \in 0..(n - 1) /\ (i # 0 => i - 1 \in 0..(n - 1))
        BY <2>1, <3>2
      <4>2. c[i] = IF i = 0 THEN init ELSE step[i][c[i - 1]]
        BY <2>2, <4>1 DEF Iterates
      <4>3. d[i] = c[i] /\ (i # 0 => d[i - 1] = c[i - 1])
        BY <2>1, <3>2, <4>1
      <4> HIDE DEF d
      <4> QED BY <4>2, <4>3
    <3> QED BY <3>1, <3>2
  <2>6. Iterates(d, init, step, n)
    <3>1. d = [i \in 0..n |-> d[i]]
      OBVIOUS
    <3> HIDE DEF d
    <3> QED BY <2>5, <3>1 DEF Iterates
  <2> HIDE DEF d
  <2> QED BY <1>2, <2>4, <2>6 DEF IteratesTo
<1> QED BY <1>3, <1>4

(* The moving loop, turn by turn.                                          *)
MovedOne(m, src, dst) == Put(Put(m, dst, Byte(m, src)), src, 0)

MovesIn(c, m, src, dst, n) ==
  c = [i \in 0..n |-> IF i = 0 THEN m ELSE MovedOne(c[i - 1], src + i - 1, dst + i - 1)]

MoveTurns(c, m, src, dst, len) ==
  /\ rt_move_memory(m, src, dst, len) = c[len] /\ c[0] = m
  /\ \A i \in 1..len : c[i] = MovedOne(c[i - 1], src + i - 1, dst + i - 1)

LEMMA MovedIsTyped ==
  ASSUME NEW m \in [Addr -> Chars], NEW src, NEW dst
  PROVE  MovedOne(m, src, dst) \in [Addr -> Chars]
<1>1. Put(m, dst, Byte(m, src)) \in [Addr -> Chars]
  BY PutIsTyped
<1> QED BY <1>1, Widths DEF MovedOne, Put

LEMMA MoveTurnsExist ==
  ASSUME NEW m \in [Addr -> Chars], NEW src \in Nat, NEW dst \in Nat, NEW len \in Nat
  PROVE  \E c : MoveTurns(c, m, src, dst, len)
<1> DEFINE S == [Addr -> Chars]
           step == [i \in 1..len |-> [x \in S |-> MovedOne(x, src + i - 1, dst + i - 1)]]
           c == CHOOSE g : MovesIn(g, m, src, dst, len)
<1>1. step \in [1..len -> [S -> S]]
  BY MovedIsTyped
<1>2. \E g : MovesIn(g, m, src, dst, len)
  <2>1. PICK g \in [0..len -> S] : Iterates(g, m, step, len)
    <3>1. IteratesTo(S, m, step, len)
      <4>1. m \in S
        OBVIOUS
      <4> HIDE DEF S, step
      <4> QED BY <1>1, <4>1, IterationsExist
    <3> QED BY <3>1 DEF IteratesTo
  <2>2. \A i \in 0..len : g[i] = IF i = 0 THEN m ELSE MovedOne(g[i - 1], src + i - 1, dst + i - 1)
    <3> TAKE i \in 0..len
    <3>1. g[i] = IF i = 0 THEN m ELSE step[i][g[i - 1]]
      <4> HIDE DEF step
      <4> QED BY <2>1 DEF Iterates
    <3>2. CASE i = 0
      BY <3>1, <3>2
    <3>3. CASE i # 0
      <4> HIDE DEF S
      <4>1. i \in 1..len /\ g[i - 1] \in S
        BY <2>1, <3>3
      <4>2. step[i][g[i - 1]] = MovedOne(g[i - 1], src + i - 1, dst + i - 1)
        BY <4>1
      <4> QED BY <3>1, <3>3, <4>2
    <3> QED BY <3>2, <3>3
  <2>3. g = [i \in 0..len |-> g[i]]
    BY <2>1
  <2> HIDE DEF step, c, S
  <2>4. g = [i \in 0..len |->
              IF i = 0 THEN m ELSE MovedOne(g[i - 1], src + i - 1, dst + i - 1)]
    BY <2>2, <2>3
  <2> QED BY <2>4 DEF MovesIn
<1>3. MovesIn(c, m, src, dst, len)
  BY <1>2
<1>4. rt_move_memory(m, src, dst, len) = c[len]
  BY DEF rt_move_memory, MovesIn, MovedOne
<1> HIDE DEF c
<1>5. c[0] = m /\ \A i \in 1..len : c[i] = MovedOne(c[i - 1], src + i - 1, dst + i - 1)
  BY <1>3 DEF MovesIn
<1> QED BY <1>4, <1>5 DEF MoveTurns

(* What was moved stands at dst, and zeros where it was taken from.        *)
Moved(after, m, src, dst, n) ==
  /\ after \in [Addr -> Chars]
  /\ \A q \in Addr : after[q] = IF q \in dst..(dst + n - 1) THEN Byte(m, src + q - dst)
                               ELSE IF q \in src..(src + n - 1) THEN 0 ELSE m[q]

LEMMA OneMoved ==
  ASSUME NEW m \in [Addr -> Chars], NEW src \in Nat, NEW dst \in Nat, NEW n \in Nat,
         dst + n < MemSz, dst < src \/ src + n < dst, NEW c, Moved(c, m, src, dst, n)
  PROVE  Moved(MovedOne(c, src + n, dst + n), m, src, dst, n + 1)
<1>1. PICK x : x = Byte(c, src + n)
  OBVIOUS
<1>2. PICK before : before = Put(c, dst + n, x)
  OBVIOUS
<1>3. PICK after : after = Put(before, src + n, 0)
  OBVIOUS
<1>4. c \in [Addr -> Chars] /\ x \in Chars
  <2>1. c \in [Addr -> Chars]
    BY DEF Moved
  <2>2. Byte(c, src + n) \in Chars
    BY <2>1, PutIsTyped
  <2> QED BY <1>1, <2>1, <2>2
<1>5. x = Byte(m, src + n)
  <2>1. src + n \notin dst..(dst + n - 1) /\ src + n \notin src..(src + n - 1)
    OBVIOUS
  <2> QED BY <1>1, <2>1 DEF Moved, Byte
<1>6. before \in [Addr -> Chars] /\ \A q \in Addr : before[q] = IF q = dst + n THEN x ELSE c[q]
  BY <1>2, <1>4 DEF Put
<1>7. after \in [Addr -> Chars] /\ \A q \in Addr : after[q] = IF q = src + n THEN 0 ELSE before[q]
  BY <1>3, <1>6, Widths DEF Put
<1>8. \A q \in Addr : after[q] = IF q \in dst..(dst + n) THEN Byte(m, src + q - dst)
                               ELSE IF q \in src..(src + n) THEN 0 ELSE m[q]
  <2> TAKE q \in Addr
  <2>1. q \in Nat
    BY Widths
  <2>2. c[q] = IF q \in dst..(dst + n - 1) THEN Byte(m, src + q - dst)
               ELSE IF q \in src..(src + n - 1) THEN 0 ELSE m[q]
    BY DEF Moved
  <2>3. CASE q = dst + n
    <3>1. q # src + n /\ src + q - dst = src + n /\ q \in dst..(dst + n)
      BY <2>3
    <3> QED BY <1>5, <1>6, <1>7, <2>3, <3>1
  <2>4. CASE q = src + n
    <3>1. q \notin dst..(dst + n) /\ q \in src..(src + n)
      BY <2>4
    <3> QED BY <1>7, <2>4, <3>1
  <2>5. CASE q # dst + n /\ q # src + n
    <3>1. after[q] = c[q]
      BY <1>6, <1>7, <2>5
    <3>2. /\ q \in dst..(dst + n) <=> q \in dst..(dst + n - 1)
          /\ q \in src..(src + n) <=> q \in src..(src + n - 1)
      BY <2>1, <2>5
    <3> QED BY <2>2, <3>1, <3>2
  <2> QED BY <2>3, <2>4, <2>5
<1>9. dst + (n + 1) - 1 = dst + n /\ src + (n + 1) - 1 = src + n
  OBVIOUS
<1>10. MovedOne(c, src + n, dst + n) = after
  BY <1>1, <1>2, <1>3 DEF MovedOne
<1> QED BY <1>7, <1>8, <1>9, <1>10 DEF Moved

LEMMA MoveMoves ==
  ASSUME NEW m \in [Addr -> Chars], NEW src \in Nat, NEW dst \in Nat, NEW len \in Nat,
         dst + len =< MemSz, dst < src \/ src + len =< dst
  PROVE  Moved(rt_move_memory(m, src, dst, len), m, src, dst, len)
<1>1. PICK c : MoveTurns(c, m, src, dst, len)
  BY MoveTurnsExist
<1> DEFINE Bad == {i \in 0..len : ~Moved(c[i], m, src, dst, i)}
<1>2. ASSUME Bad # {} PROVE FALSE
  <2>1. PICK n \in Bad : \A k \in Bad : n =< k
    <3>1. Bad \in SUBSET Nat
      OBVIOUS
    <3> HIDE DEF Bad
    <3> QED BY <1>2, <3>1, LeastOne
  <2>2. CASE n = 0
    <3>1. c[0] = m
      BY <1>1 DEF MoveTurns
    <3>2. Moved(m, m, src, dst, 0)
      BY DEF Moved
    <3> QED BY <2>1, <2>2, <3>1, <3>2
  <2>3. CASE n # 0
    <3>1. PICK k \in Nat : k = n - 1 /\ k \in 0..len /\ k \notin Bad
      BY <2>1, <2>3
    <3>2. Moved(c[k], m, src, dst, k)
      BY <3>1
    <3>3. n \in 1..len /\ dst + n - 1 = dst + k /\ src + n - 1 = src + k /\ k + 1 = n
      BY <2>1, <2>3, <3>1
    <3>4. c[n] = MovedOne(c[k], src + k, dst + k)
      BY <1>1, <3>1, <3>3 DEF MoveTurns
    <3>5. dst + k < MemSz /\ (dst < src \/ src + k < dst)
      BY <3>1, <3>3, Widths
    <3>6. Moved(c[n], m, src, dst, k + 1)
      BY <3>2, <3>4, <3>5, OneMoved
    <3> QED BY <2>1, <3>3, <3>6
  <2> QED BY <2>2, <2>3
<1>3. len \in 0..len /\ len \notin Bad
  <2>1. len \in 0..len
    OBVIOUS
  <2> HIDE DEF Bad
  <2> QED BY <1>2, <2>1
<1>4. Moved(c[len], m, src, dst, len)
  BY <1>3
<1> QED BY <1>1, <1>4 DEF MoveTurns

LEMMA CopiesStand ==
  ASSUME NEW m \in [Addr -> Chars]
  PROVE  CopiesAgree(m)
<1> SUFFICES ASSUME NEW src \in Addr, NEW dst \in Addr, NEW n \in 0..(MemSz - dst)
             PROVE  LET copy == rt_copy_memory(m, src, dst, n)
                        move == rt_move_memory(m, src, dst, n)
                    IN  /\ \A i \in 0..(n - 1) : copy[dst + i] =
                             Byte(m, src + IF Apart(src, dst, n) THEN i ELSE i % (dst - src))
                        /\ \A q \in Addr \ (dst..(dst + n)) : copy[q] = m[q]
                        /\ dst < src \/ src + n =< dst =>
                             /\ \A i \in 0..(n - 1) : move[dst + i] = Byte(m, src + i)
                             /\ \A q \in (src..(src + n - 1)) \ (dst..(dst + n - 1)) :
                                  Byte(move, q) = 0
  BY DEF CopiesAgree
<1>1. src \in Nat /\ dst \in Nat /\ n \in Nat /\ dst + n =< MemSz
  BY Widths
<1>2. PICK f : f = Forward(m, src, dst, n)
  OBVIOUS
<1>3. /\ f \in [Addr -> Chars]
      /\ \A i \in 0..(n - 1) : f[dst + i] =
           Byte(m, src + IF Apart(src, dst, n) THEN i ELSE i % (dst - src))
      /\ \A q \in Addr : q \notin dst..(dst + n - 1) => f[q] = m[q]
  <2>1. CASE Apart(src, dst, n)
    <3>1. dst =< src \/ src + n =< dst
      BY <2>1 DEF Apart
    <3>2. Copied(f, m, src, dst, n)
      BY <1>1, <1>2, <3>1, ForwardExact
    <3> QED BY <2>1, <3>2 DEF Copied
  <2>2. CASE ~Apart(src, dst, n)
    <3>1. src < dst
      BY <1>1, <2>2 DEF Apart
    <3>2. Repeats(f, m, src, dst, n)
      BY <1>1, <1>2, <3>1, ForwardRepeats
    <3> QED BY <2>2, <3>2 DEF Repeats
  <2> QED BY <2>1, <2>2
<1>4. PICK copy : copy = Put(f, dst + n, 0) /\ copy = rt_copy_memory(m, src, dst, n)
  BY <1>2 DEF rt_copy_memory
<1>5. \A q \in Addr : q # dst + n => copy[q] = f[q]
  BY <1>3, <1>4 DEF Put
<1>6. \A i \in 0..(n - 1) : copy[dst + i] =
        Byte(m, src + IF Apart(src, dst, n) THEN i ELSE i % (dst - src))
  <2> TAKE i \in 0..(n - 1)
  <2>1. dst + i \in Addr /\ dst + i # dst + n
    BY <1>1, Widths
  <2> QED BY <1>3, <1>5, <2>1
<1>7. \A q \in Addr \ (dst..(dst + n)) : copy[q] = m[q]
  <2> TAKE q \in Addr \ (dst..(dst + n))
  <2>1. q \in Addr /\ q # dst + n /\ q \notin dst..(dst + n - 1)
    BY <1>1, Widths
  <2> QED BY <1>3, <1>5, <2>1
<1>8. ASSUME dst < src \/ src + n =< dst
      PROVE  /\ \A i \in 0..(n - 1) : rt_move_memory(m, src, dst, n)[dst + i] = Byte(m, src + i)
             /\ \A q \in (src..(src + n - 1)) \ (dst..(dst + n - 1)) :
                  Byte(rt_move_memory(m, src, dst, n), q) = 0
  <2>1. PICK move : move = rt_move_memory(m, src, dst, n)
    OBVIOUS
  <2>2. Moved(move, m, src, dst, n)
    BY <1>1, <1>8, <2>1, MoveMoves
  <2>3. \A i \in 0..(n - 1) : move[dst + i] = Byte(m, src + i)
    <3> TAKE i \in 0..(n - 1)
    <3>1. dst + i \in Addr /\ dst + i \in dst..(dst + n - 1) /\ src + (dst + i) - dst = src + i
      BY <1>1, Widths
    <3> QED BY <2>2, <3>1 DEF Moved
  <2>4. \A q \in (src..(src + n - 1)) \ (dst..(dst + n - 1)) : Byte(move, q) = 0
    BY <2>2 DEF Moved, Byte
  <2> QED BY <2>1, <2>3, <2>4
<1> QED BY <1>4, <1>6, <1>7, <1>8

(* Lengths.                                                                *)
LEMMA LengthIsFirstZero ==
  ASSUME NEW m, NEW p \in Nat, NEW n \in Nat, Byte(m, p + n) = 0,
         \A k \in 0..(n - 1) : Byte(m, p + k) # 0
  PROVE  rt_string_len(m, p) = n
<1>1. PICK l \in Nat : /\ l = rt_string_len(m, p) /\ Byte(m, p + l) = 0
                       /\ \A k \in Nat : Byte(m, p + k) = 0 => l =< k
  BY LengthIs
<1>2. l =< n
  BY <1>1
<1>3. l \notin 0..(n - 1)
  BY <1>1
<1> QED BY <1>1, <1>2, <1>3

LEMMA BoundedLength ==
  ASSUME NEW m \in [Addr -> Chars], NEW p \in Addr, NEW max \in Nat, m[p] # 0
  PROVE  rt_string_len_max(m, p, max) =
           IF rt_string_len(m, p) =< max + 1 THEN rt_string_len(m, p) ELSE max
<1>1. p \in Nat /\ Byte(m, p) = m[p]
  BY Widths DEF Byte
<1>2. PICK l \in Nat : /\ l = rt_string_len(m, p) /\ Byte(m, p + l) = 0
                       /\ \A k \in Nat : Byte(m, p + k) = 0 => l =< k
  BY <1>1, LengthIs
<1> DEFINE Z == {k \in 1..(MemSz + 1) : Byte(m, p + k) = 0}
<1>3. PICK n : n = Least(Z) /\ rt_string_len_max(m, p, max) = IF n > max + 1 THEN max ELSE n
  BY DEF rt_string_len_max
<1>4. l # 0
  <2>1. l = 0 => p + l = p
    BY <1>1
  <2> QED BY <1>1, <1>2, <2>1
<1>5. l =< MemSz
  <2>1. p + MemSz \notin Addr /\ MemSz \in Nat
    BY <1>1, Widths
  <2>2. Byte(m, p + MemSz) = 0
    BY <2>1 DEF Byte
  <2> QED BY <1>2, <2>1, <2>2
<1>6. l \in Z
  BY <1>2, <1>4, <1>5, Widths
<1>7. Z \in SUBSET Nat
  OBVIOUS
<1>8. n \in Z /\ \A y \in Z : n =< y
  <2> HIDE DEF Z
  <2> QED BY <1>3, <1>6, <1>7, LeastIsLeast
<1>9. n = l
  <2>1. n \in Nat /\ n =< l /\ l =< n
    BY <1>2, <1>6, <1>8
  <2> QED BY <2>1
<1>10. l > max + 1 <=> ~(l =< max + 1)
  OBVIOUS
<1> QED BY <1>2, <1>3, <1>9, <1>10

LEMMA OverwritingKeepsLength ==
  ASSUME NEW m \in [Addr -> Chars], NEW p \in Addr, NEW c \in Chars \ {0}, NEW max \in Nat
  PROVE  BStrLen(BSetMem(m, p, c, max), p) = BStrLen(m, p)
<1>1. p \in Nat /\ p # Null
  BY Widths DEF Null
<1>2. PICK l \in Nat : /\ l = rt_string_len(m, p) /\ Byte(m, p + l) = 0
                       /\ \A k \in Nat : Byte(m, p + k) = 0 => l =< k
  BY <1>1, LengthIs
<1>3. PICK n \in Nat : n = BSetMemCount(m, p, max) /\ n =< l
  BY <1>2 DEF BSetMemCount
<1>4. PICK after : after = BSetMem(m, p, c, max)
  OBVIOUS
<1>5. \A q \in Addr : after[q] = IF q \in p..(p + n - 1) THEN c ELSE m[q]
  BY <1>3, <1>4 DEF BSetMem
<1>6. Byte(after, p + l) = 0
  <2>1. p + l \notin p..(p + n - 1)
    BY <1>1, <1>3
  <2>2. p + l \in Addr => after[p + l] = m[p + l]
    BY <1>5, <2>1
  <2> QED BY <1>2, <2>2 DEF Byte
<1>7. \A k \in 0..(l - 1) : Byte(after, p + k) # 0
  <2> TAKE k \in 0..(l - 1)
  <2>1. Byte(m, p + k) # 0
    <3>1. k \in Nat /\ ~(l =< k)
      OBVIOUS
    <3> QED BY <1>2, <3>1
  <2>2. p + k \in Addr /\ m[p + k] # 0
    BY <2>1 DEF Byte
  <2>3. after[p + k] # 0
    BY <1>5, <2>2
  <2> QED BY <2>2, <2>3 DEF Byte
<1>8. rt_string_len(after, p) = l
  BY <1>1, <1>6, <1>7, LengthIsFirstZero
<1> QED BY <1>1, <1>2, <1>4, <1>8 DEF BStrLen

LEMMA LengthsStand ==
  ASSUME NEW m \in [Addr -> Chars]
  PROVE  LengthsAgree(m)
<1>1. \A max \in Addr : max \in Nat
  BY Widths
<1> QED BY <1>1, BoundedLength, OverwritingKeepsLength DEF LengthsAgree

(* Searches.  A text is a sequence of bytes that are not zero.             *)
LEMMA TextOf ==
  ASSUME NEW m \in [Addr -> Chars], NEW p \in Addr, NEW t, t = TextAt(m, p)
  PROVE  /\ t \in Seq(Chars) /\ Len(t) = rt_string_len(m, p) /\ Len(t) \in Nat
         /\ \A i \in 1..Len(t) : t[i] = Byte(m, p + i - 1) /\ t[i] # 0
         /\ Byte(m, p + Len(t)) = 0
<1>1. p \in Nat
  BY Widths
<1>2. PICK l \in Nat : /\ l = rt_string_len(m, p) /\ Byte(m, p + l) = 0
                       /\ \A k \in Nat : Byte(m, p + k) = 0 => l =< k
  BY <1>1, LengthIs
<1>3. t = [i \in 1..l |-> m[p + i - 1]]
  BY <1>2 DEF TextAt
<1>4. \A i \in 1..l : p + i - 1 \in Addr /\ Byte(m, p + i - 1) = m[p + i - 1] /\ m[p + i - 1] # 0
  <2> TAKE i \in 1..l
  <2>1. PICK k \in Nat : k = i - 1 /\ p + k = p + i - 1 /\ ~(l =< k)
    BY <1>1
  <2>2. Byte(m, p + i - 1) # 0
    BY <1>2, <2>1
  <2> QED BY <2>2 DEF Byte
<1>5. \A i \in 1..l : m[p + i - 1] \in Chars
  BY <1>4
<1>6. t \in Seq(Chars) /\ Len(t) = l
  BY <1>3, <1>5
<1> QED BY <1>2, <1>3, <1>4, <1>6

LEMMA SameBytes ==
  ASSUME NEW m, NEW a, NEW b, NEW n \in Nat
  PROVE  rt_string_cmp(m, a, b, n) = 0 <=> \A i \in 0..(n - 1) : Byte(m, a + i) = Byte(m, b + i)
<1> DEFINE D == {i \in 0..(n - 1) : Byte(m, a + i) # Byte(m, b + i)}
<1>1. IsFiniteSet(0..(n - 1))
  BY FS_Interval
<1>2. IsFiniteSet(D)
  BY <1>1, FS_Subset
<1>3. Cardinality(D) = 0 <=> D = {}
  BY <1>2, FS_EmptySet
<1> QED BY <1>3 DEF rt_string_cmp

FoundAt(s, t, i) == SubSeq(s, i + 1, i + Len(t)) = t
StandsAt(s, t, i) == \A k \in 1..Len(t) : s[i + k] = t[k]

LEMMA PartEquals ==
  ASSUME NEW S, NEW s \in Seq(S), NEW t \in Seq(S), NEW i \in Nat, i + Len(t) =< Len(s)
  PROVE  SubSeq(s, i + 1, i + Len(t)) = t <=> StandsAt(s, t, i)
<1>1. PICK n \in Nat : n = Len(t)
  OBVIOUS
<1>2. \A k \in (i + 1)..(i + n) : s[k] \in S
  BY <1>1
<1>3. PICK part : part = SubSeq(s, i + 1, i + n)
  OBVIOUS
<1>4. i + 1 \in Int /\ i + n \in Int
  BY <1>1
<1>5. /\ part \in Seq(S)
      /\ Len(part) = IF i + 1 =< i + n THEN i + n - (i + 1) + 1 ELSE 0
      /\ \A k \in 1..(i + n - (i + 1) + 1) : part[k] = s[i + 1 + k - 1]
  BY <1>2, <1>3, <1>4, SubSeqProperties
<1>6. Len(part) = n
  BY <1>5
<1>7. \A k \in 1..n : part[k] = s[i + k]
  <2> TAKE k \in 1..n
  <2>1. k \in 1..(i + n - (i + 1) + 1) /\ i + 1 + k - 1 = i + k
    OBVIOUS
  <2> QED BY <1>5, <2>1
<1>8. ASSUME \A k \in 1..n : s[i + k] = t[k] PROVE part = t
  <2>1. \A k \in 1..Len(part) : part[k] = t[k]
    BY <1>6, <1>7, <1>8
  <2> QED BY <1>1, <1>5, <1>6, <2>1, SeqEqual
<1> QED BY <1>1, <1>3, <1>7, <1>8 DEF StandsAt

(* A place where the needle's bytes stand is one where its text does.      *)
LEMMA HitIsPlace ==
  ASSUME NEW m \in [Addr -> Chars], NEW p \in Addr, NEW q \in Addr, NEW s, NEW t,
         s = TextAt(m, p), t = TextAt(m, q), NEW i \in Nat
  PROVE  /\ i + Len(t) =< Len(s) =>
              (rt_string_cmp(m, p + i, q, Len(t)) = 0 <=> FoundAt(s, t, i))
         /\ i < Len(s) /\ rt_string_cmp(m, p + i, q, Len(t)) = 0 => i + Len(t) =< Len(s)
<1>1. /\ s \in Seq(Chars) /\ Len(s) \in Nat /\ t \in Seq(Chars) /\ Len(t) \in Nat
      /\ \A k \in 1..Len(s) : s[k] = Byte(m, p + k - 1)
      /\ \A k \in 1..Len(t) : t[k] = Byte(m, q + k - 1) /\ t[k] # 0
      /\ Byte(m, p + Len(s)) = 0
  BY TextOf
<1>2. p \in Nat /\ q \in Nat
  BY Widths
<1>3. PICK n \in Nat : n = Len(t)
  BY <1>1
<1>4. \A k \in 0..(n - 1) : t[k + 1] = Byte(m, q + k) /\ t[k + 1] # 0
  <2> TAKE k \in 0..(n - 1)
  <2>1. k + 1 \in 1..n /\ q + (k + 1) - 1 = q + k
    BY <1>2
  <2> QED BY <1>1, <1>3, <2>1
<1>5. rt_string_cmp(m, p + i, q, n) = 0 <=> \A k \in 0..(n - 1) : Byte(m, p + i + k) = t[k + 1]
  BY <1>4, SameBytes
<1>6. ASSUME i + n =< Len(s)
      PROVE  (\A k \in 0..(n - 1) : Byte(m, p + i + k) = t[k + 1])
             <=> (\A k \in 1..n : s[i + k] = t[k])
  <2>1. \A k \in 0..(n - 1) : s[i + (k + 1)] = Byte(m, p + i + k)
    <3> TAKE k \in 0..(n - 1)
    <3>1. i + (k + 1) \in 1..Len(s) /\ p + (i + (k + 1)) - 1 = p + i + k
      BY <1>1, <1>2, <1>6
    <3> QED BY <1>1, <3>1
  <2>2. \A k \in 1..n : k - 1 \in 0..(n - 1) /\ (k - 1) + 1 = k
    OBVIOUS
  <2>3. \A k \in 0..(n - 1) : k + 1 \in 1..n
    OBVIOUS
  <2>4. ASSUME \A k \in 0..(n - 1) : Byte(m, p + i + k) = t[k + 1]
        PROVE  \A k \in 1..n : s[i + k] = t[k]
    <3> TAKE k \in 1..n
    <3>1. PICK j \in 0..(n - 1) : j + 1 = k
      BY <2>2
    <3>2. s[i + (j + 1)] = t[j + 1]
      BY <2>1, <2>4
    <3> QED BY <3>1, <3>2
  <2>5. ASSUME \A k \in 1..n : s[i + k] = t[k]
        PROVE  \A k \in 0..(n - 1) : Byte(m, p + i + k) = t[k + 1]
    BY <2>1, <2>3, <2>5
  <2> QED BY <2>4, <2>5
<1>7. ASSUME i + n =< Len(s)
      PROVE  SubSeq(s, i + 1, i + n) = t <=> \A k \in 1..n : s[i + k] = t[k]
  <2>1. i + Len(t) =< Len(s)
    BY <1>3, <1>7
  <2>2. SubSeq(s, i + 1, i + Len(t)) = t <=> StandsAt(s, t, i)
    <3>1. s \in Seq(Chars) /\ t \in Seq(Chars)
      BY <1>1
    <3> QED BY <2>1, <3>1, PartEquals, Zenon
  <2> QED BY <1>3, <2>2 DEF StandsAt
<1>8. ASSUME i < Len(s), \A k \in 0..(n - 1) : Byte(m, p + i + k) = t[k + 1], ~(i + n =< Len(s))
      PROVE  FALSE
  <2>1. PICK l \in Nat : l = Len(s)
    BY <1>1
  <2>2. i < l /\ ~(i + n =< l)
    BY <1>8, <2>1
  <2>3. l - i \in 0..(n - 1) /\ p + i + (l - i) = p + l
    BY <1>2, <2>2
  <2>4. PICK k \in 0..(n - 1) : p + i + k = p + Len(s)
    BY <2>1, <2>3
  <2>5. Byte(m, p + i + k) = 0
    BY <1>1, <2>4
  <2> QED BY <1>4, <1>8, <2>5
<1> QED BY <1>3, <1>5, <1>6, <1>7, <1>8 DEF FoundAt

LEMMA LeastFound ==
  ASSUME NEW S \in SUBSET Nat, NEW x \in S, \A y \in S : x =< y
  PROVE  Least(S) = x
<1>1. Least(S) \in S /\ \A y \in S : Least(S) =< y
  BY LeastIsLeast
<1>2. PICK l \in S : l = Least(S) /\ l =< x /\ x =< l
  BY <1>1
<1>3. l \in Nat /\ x \in Nat
  OBVIOUS
<1> QED BY <1>2, <1>3

FindsText(m, p, q, s, t) ==
  LET places == {i \in 0..(Len(s) - Len(t)) : SubSeq(s, i + 1, i + Len(t)) = t}
  IN  s # <<>> => rt_string_in_string(m, p, q) =
                    IF places = {} THEN Null ELSE p + Least(places)

FindsCharacters(m, p, s) ==
  \A c \in Chars \ {0} : s # <<>> =>
    rt_string_has_char(m, p, c) =
      IF \E i \in 1..Len(s) : s[i] = c
      THEN p + Least({i \in 1..Len(s) : s[i] = c}) - 1 ELSE Null

ComparesTexts(m, p, q, s, t) ==
  /\ StringBuilderEquals(m, p, q) <=> s = t
  /\ StringBuilderEqualsWide(m, p, q) => SubSeq(s, 1, Len(t)) = t

LEMMA TextFound ==
  ASSUME NEW m \in [Addr -> Chars], NEW p \in Addr, NEW q \in Addr, NEW s, NEW t,
         s = TextAt(m, p), t = TextAt(m, q)
  PROVE  FindsText(m, p, q, s, t)
<1> SUFFICES ASSUME NEW places, Len(s) # 0,
                    places = {i \in 0..(Len(s) - Len(t)) : SubSeq(s, i + 1, i + Len(t)) = t}
             PROVE  rt_string_in_string(m, p, q) =
                      IF places = {} THEN Null ELSE p + Least(places)
  <2>1. s # <<>> => Len(s) # 0
    BY TextOf
  <2> QED BY <2>1 DEF FindsText
<1>1. /\ Len(s) \in Nat /\ Len(t) \in Nat
      /\ Len(s) = rt_string_len(m, p) /\ Len(t) = rt_string_len(m, q)
  BY TextOf
<1>2. PICK ls \in Nat, lt \in Nat : ls = Len(s) /\ lt = Len(t)
  BY <1>1
<1> DEFINE hits == {i \in 0..(ls - 1) : rt_string_cmp(m, p + i, q, lt) = 0}
<1>3. rt_string_in_string(m, p, q) = IF hits = {} THEN Null ELSE p + Least(hits)
  BY <1>1, <1>2 DEF rt_string_in_string
<1>4. \A i \in Nat :
        /\ i + lt =< ls =>
             (rt_string_cmp(m, p + i, q, lt) = 0 <=> SubSeq(s, i + 1, i + lt) = t)
        /\ i < ls /\ rt_string_cmp(m, p + i, q, lt) = 0 => i + lt =< ls
  <2> TAKE i \in Nat
  <2>1. i + Len(t) =< Len(s) =>
          (rt_string_cmp(m, p + i, q, Len(t)) = 0 <=> FoundAt(s, t, i))
    BY HitIsPlace
  <2>2. i < Len(s) /\ rt_string_cmp(m, p + i, q, Len(t)) = 0 => i + Len(t) =< Len(s)
    BY HitIsPlace
  <2> QED BY <1>2, <2>1, <2>2 DEF FoundAt
<1>5. places = {i \in 0..(ls - lt) : SubSeq(s, i + 1, i + lt) = t}
  BY <1>2
<1>6. CASE lt # 0
  <2>1. \A i \in hits : i \in places
    <3> TAKE i \in hits
    <3>1. i \in Nat /\ i < ls /\ rt_string_cmp(m, p + i, q, lt) = 0
      OBVIOUS
    <3>2. i + lt =< ls /\ SubSeq(s, i + 1, i + lt) = t
      BY <1>4, <3>1
    <3>3. i \in 0..(ls - lt)
      BY <3>1, <3>2
    <3> QED BY <1>5, <3>2, <3>3
  <2>2. \A i \in places : i \in hits
    <3> TAKE i \in places
    <3>1. i \in 0..(ls - lt) /\ SubSeq(s, i + 1, i + lt) = t
      BY <1>5
    <3>2. i \in Nat /\ i + lt =< ls /\ i \in 0..(ls - 1)
      BY <1>6, <3>1
    <3>3. rt_string_cmp(m, p + i, q, lt) = 0
      BY <1>4, <3>1, <3>2
    <3> QED BY <3>2, <3>3
  <2>3. hits = places
    BY <2>1, <2>2, <1>5
  <2> QED BY <1>3, <2>3
<1>7. CASE lt = 0
  <2>1. 0 \in Nat /\ 0 + lt =< ls /\ 0 \in 0..(ls - 1) /\ 0 \in 0..(ls - lt)
    BY <1>2, <1>7
  <2>2. rt_string_cmp(m, p + 0, q, lt) = 0
    BY <1>7, SameBytes
  <2>3. SubSeq(s, 0 + 1, 0 + lt) = t
    BY <1>4, <2>1, <2>2
  <2>4. 0 \in hits
    BY <2>1, <2>2
  <2>5. 0 \in places
    BY <1>5, <2>1, <2>3
  <2>6. hits \in SUBSET Nat /\ \A y \in hits : 0 =< y
    OBVIOUS
  <2>7. places \in SUBSET Nat /\ \A y \in places : 0 =< y
    BY <1>5, <1>7
  <2>8. Least(hits) = 0
    <3> HIDE DEF hits
    <3> QED BY <2>4, <2>6, LeastFound
  <2>9. Least(places) = 0
    BY <2>5, <2>7, LeastFound
  <2> QED BY <1>3, <2>4, <2>5, <2>8, <2>9
<1> QED BY <1>6, <1>7

LEMMA CharacterFound ==
  ASSUME NEW m \in [Addr -> Chars], NEW p \in Addr, NEW c \in Chars \ {0}, NEW s,
         s = TextAt(m, p), Len(s) # 0
  PROVE  rt_string_has_char(m, p, c) =
           IF \E i \in 1..Len(s) : s[i] = c
           THEN p + Least({i \in 1..Len(s) : s[i] = c}) - 1 ELSE Null
<1>1. /\ Len(s) \in Nat /\ Byte(m, p + Len(s)) = 0
      /\ \A i \in 1..Len(s) : s[i] = Byte(m, p + i - 1) /\ s[i] # 0
  BY TextOf
<1>2. PICK l \in Nat : l = Len(s) /\ l # 0
  BY <1>1
<1>3. p \in Nat /\ c # 0
  BY Widths
<1> DEFINE Stops == {k \in 1..(MemSz + 1) : Byte(m, p + k) \in {0, c}}
           Found == {i \in 1..l : s[i] = c}
<1>4. PICK stop : stop = Least(Stops)
  OBVIOUS
<1>5. rt_string_has_char(m, p, c) =
        IF Byte(m, p) = c THEN p ELSE IF Byte(m, p + stop) = 0 THEN Null ELSE p + stop
  BY <1>4 DEF rt_string_has_char
<1>6. \A k \in 0..(l - 1) : Byte(m, p + k) = s[k + 1] /\ s[k + 1] # 0
  <2> TAKE k \in 0..(l - 1)
  <2>1. k + 1 \in 1..l /\ p + (k + 1) - 1 = p + k
    BY <1>3
  <2> QED BY <1>1, <1>2, <2>1
<1>7. l \in Stops
  <2>1. l =< MemSz
    <3>1. p + (l - 1) \in Addr
      <4>1. Byte(m, p + (l - 1)) # 0
        <5>1. l - 1 \in 0..(l - 1)
          BY <1>2
        <5> QED BY <1>6, <5>1
      <4> QED BY <4>1 DEF Byte
    <3> QED BY <1>2, <1>3, <3>1, Widths
  <2>2. l \in 1..(MemSz + 1)
    BY <1>2, <2>1, Widths
  <2> QED BY <1>1, <1>2, <2>2
<1>8. Stops \in SUBSET Nat
  BY Widths
<1>9. stop \in Stops /\ \A y \in Stops : stop =< y
  <2> HIDE DEF Stops
  <2> QED BY <1>4, <1>7, <1>8, LeastIsLeast
<1>10. stop \in 1..l /\ Byte(m, p + stop) \in {0, c}
  BY <1>7, <1>9
<1>11. \A k \in 1..(stop - 1) : s[k + 1] # c
  <2> TAKE k \in 1..(stop - 1)
  <2>1. k \notin Stops
    BY <1>9, <1>10
  <2>2. k \in 0..(l - 1)
    BY <1>10
  <2>3. k \in 1..(MemSz + 1)
    <3>1. stop \in 1..(MemSz + 1)
      BY <1>9
    <3> QED BY <3>1, Widths
  <2>4. Byte(m, p + k) # c
    BY <2>1, <2>3
  <2> QED BY <1>6, <2>2, <2>4
<1>12. Found \in SUBSET Nat
  OBVIOUS
<1>13. p + 0 = p /\ 0 \in 0..(l - 1)
  BY <1>2, <1>3
<1>14. Byte(m, p) = s[1] /\ s[1] # 0
  BY <1>6, <1>13
<1>15. CASE Byte(m, p) = c
  <2>1. 1 \in Found /\ \A y \in Found : 1 =< y
    <3>1. 1 \in 1..l /\ s[1] = c
      BY <1>2, <1>14, <1>15
    <3> QED BY <3>1
  <2>2. Least(Found) = 1
    <3> HIDE DEF Found
    <3> QED BY <1>12, <2>1, LeastFound
  <2>3. p + 1 - 1 = p
    BY <1>3
  <2> QED BY <1>2, <1>5, <1>15, <2>1, <2>2, <2>3
<1>16. CASE Byte(m, p) # c /\ Byte(m, p + stop) = 0
  <2>1. stop = l
    <3>1. stop \notin 0..(l - 1)
      BY <1>6, <1>16
    <3> QED BY <1>10, <3>1
  <2>2. \A i \in 1..l : s[i] # c
    <3> TAKE i \in 1..l
    <3>1. CASE i = 1
      BY <1>14, <1>16, <3>1
    <3>2. CASE i # 1
      <4>1. PICK k \in 1..(stop - 1) : k + 1 = i
        <5>1. i - 1 \in 1..(stop - 1) /\ (i - 1) + 1 = i
          BY <2>1, <3>2
        <5> QED BY <5>1
      <4> QED BY <1>11, <4>1
    <3> QED BY <3>1, <3>2
  <2> QED BY <1>2, <1>5, <1>16, <2>2
<1>17. CASE Byte(m, p) # c /\ Byte(m, p + stop) # 0
  <2>1. Byte(m, p + stop) = c
    BY <1>10, <1>17
  <2>2. stop # l
    BY <1>1, <1>2, <1>17
  <2>3. stop \in 0..(l - 1) /\ stop + 1 \in 1..l
    BY <1>10, <2>2
  <2>4. stop + 1 \in Found
    BY <1>6, <2>1, <2>3
  <2>5. \A y \in Found : stop + 1 =< y
    <3> TAKE y \in Found
    <3>1. y \in 1..l /\ s[y] = c
      OBVIOUS
    <3>2. y # 1
      BY <1>14, <1>17, <3>1
    <3>3. y - 1 \notin 1..(stop - 1)
      <4>1. y - 1 \in 1..(stop - 1) => s[(y - 1) + 1] # c
        BY <1>11
      <4>2. (y - 1) + 1 = y
        BY <3>1
      <4> QED BY <3>1, <4>1, <4>2
    <3> QED BY <1>10, <3>1, <3>2, <3>3
  <2>6. Least(Found) = stop + 1
    <3> HIDE DEF Found
    <3> QED BY <1>12, <2>4, <2>5, LeastFound
  <2>7. p + (stop + 1) - 1 = p + stop
    BY <1>3, <1>10
  <2> QED BY <1>2, <1>5, <1>17, <2>4, <2>6, <2>7
<1> QED BY <1>15, <1>16, <1>17

LEMMA SameTexts ==
  ASSUME NEW m \in [Addr -> Chars], NEW p \in Addr, NEW q \in Addr, NEW s, NEW t,
         s = TextAt(m, p), t = TextAt(m, q)
  PROVE  ComparesTexts(m, p, q, s, t)
<1>1. /\ s \in Seq(Chars) /\ t \in Seq(Chars)
      /\ rt_string_len(m, p) = Len(s) /\ rt_string_len(m, q) = Len(t)
      /\ \A k \in 1..Len(s) : s[k] = Byte(m, p + k - 1)
      /\ \A k \in 1..Len(t) : t[k] = Byte(m, q + k - 1) /\ t[k] # 0
      /\ Byte(m, p + Len(s)) = 0
  BY TextOf
<1>2. PICK ls \in Nat, lt \in Nat : ls = Len(s) /\ lt = Len(t)
  BY <1>1
<1>3. p \in Nat /\ q \in Nat
  BY Widths
<1>4. \A k \in 0..(ls - 1) : Byte(m, p + k) = s[k + 1]
  <2> TAKE k \in 0..(ls - 1)
  <2>1. k + 1 \in 1..ls /\ p + (k + 1) - 1 = p + k
    BY <1>3
  <2> QED BY <1>1, <1>2, <2>1
<1>5. \A k \in 0..(lt - 1) : Byte(m, q + k) = t[k + 1] /\ t[k + 1] # 0
  <2> TAKE k \in 0..(lt - 1)
  <2>1. k + 1 \in 1..lt /\ q + (k + 1) - 1 = q + k
    BY <1>3
  <2> QED BY <1>1, <1>2, <2>1
<1>6. ASSUME \A k \in 0..(lt - 1) : Byte(m, q + k) = Byte(m, p + k)
      PROVE  lt =< ls /\ \A k \in 1..lt : s[k] = t[k]
  <2>1. ls \notin 0..(lt - 1)
    <3>1. ASSUME ls \in 0..(lt - 1) PROVE FALSE
      <4>1. Byte(m, q + ls) = Byte(m, p + ls) /\ Byte(m, p + ls) = 0
        BY <1>1, <1>2, <1>6, <3>1
      <4> QED BY <1>5, <3>1, <4>1
    <3> QED BY <3>1
  <2>2. lt =< ls
    BY <2>1
  <2>3. ASSUME NEW k \in 1..lt PROVE s[k] = t[k]
    <3>1. PICK j \in 0..(lt - 1) : j + 1 = k
      <4>1. k - 1 \in 0..(lt - 1) /\ (k - 1) + 1 = k
        OBVIOUS
      <4> QED BY <4>1
    <3>2. j \in 0..(ls - 1)
      BY <2>2
    <3>3. s[j + 1] = t[j + 1]
      BY <1>4, <1>5, <1>6, <3>2
    <3> QED BY <3>1, <3>3
  <2> QED BY <2>2, <2>3
<1>7. StringBuilderEquals(m, p, q) => s = t
  <2> HAVE StringBuilderEquals(m, p, q)
  <2>1. lt = ls /\ \A k \in 0..(lt - 1) : Byte(m, q + k) = Byte(m, p + k)
    BY <1>1, <1>2 DEF StringBuilderEquals
  <2>2. \A k \in 1..Len(s) : s[k] = t[k]
    BY <1>2, <1>6, <2>1
  <2> QED BY <1>1, <1>2, <2>1, <2>2, SeqEqual
<1>8. s = t => StringBuilderEquals(m, p, q)
  <2> HAVE s = t
  <2>1. ls = lt
    BY <1>2
  <2>2. \A k \in 0..(lt - 1) : Byte(m, q + k) = Byte(m, p + k)
    BY <1>4, <1>5, <2>1
  <2> QED BY <1>1, <1>2, <2>1, <2>2 DEF StringBuilderEquals
<1>9. StringBuilderEqualsWide(m, p, q) => SubSeq(s, 1, Len(t)) = t
  <2> HAVE StringBuilderEqualsWide(m, p, q)
  <2>1. \A k \in 0..(lt - 1) : Byte(m, q + k) = Byte(m, p + k)
    BY <1>1, <1>2 DEF StringBuilderEqualsWide
  <2>2. lt =< ls /\ \A k \in 1..lt : s[k] = t[k]
    BY <1>6, <2>1
  <2>3. \A k \in 1..lt : s[0 + k] = t[k]
    <3> TAKE k \in 1..lt
    <3>1. 0 + k = k
      OBVIOUS
    <3> QED BY <2>2, <3>1
  <2>4. StandsAt(s, t, 0) /\ 0 + Len(t) =< Len(s)
    BY <1>2, <2>2, <2>3 DEF StandsAt
  <2>5. s \in Seq(Chars) /\ t \in Seq(Chars) /\ 0 \in Nat
    BY <1>1
  <2>6. SubSeq(s, 0 + 1, 0 + Len(t)) = t
    BY <2>4, <2>5, PartEquals, Zenon
  <2>7. 0 + 1 = 1 /\ 0 + Len(t) = Len(t)
    BY <1>2
  <2> QED BY <2>6, <2>7
<1> QED BY <1>7, <1>8, <1>9 DEF ComparesTexts

LEMMA SearchesStand ==
  ASSUME NEW m \in [Addr -> Chars]
  PROVE  SearchesAgree(m)
<1>1. ASSUME NEW p \in Addr, NEW q \in Addr
      PROVE  /\ FindsText(m, p, q, TextAt(m, p), TextAt(m, q))
             /\ FindsCharacters(m, p, TextAt(m, p))
             /\ ComparesTexts(m, p, q, TextAt(m, p), TextAt(m, q))
  <2>1. PICK s, t : s = TextAt(m, p) /\ t = TextAt(m, q)
    OBVIOUS
  <2>2. s # <<>> => Len(s) # 0
    BY <2>1, TextOf
  <2>4. FindsText(m, p, q, s, t)
    BY <2>1, TextFound
  <2>5. FindsCharacters(m, p, s)
    <3>1. ASSUME s # <<>>, NEW c \in Chars \ {0}
          PROVE  rt_string_has_char(m, p, c) =
                   IF \E i \in 1..Len(s) : s[i] = c
                   THEN p + Least({i \in 1..Len(s) : s[i] = c}) - 1 ELSE Null
      BY <2>1, <2>2, <3>1, CharacterFound
    <3> QED BY <3>1 DEF FindsCharacters
  <2>6. ComparesTexts(m, p, q, s, t)
    BY <2>1, SameTexts
  <2> QED BY <2>1, <2>4, <2>5, <2>6
<1> QED BY <1>1 DEF SearchesAgree, FindsText, FindsCharacters, ComparesTexts

\* For every memory, what the helpers on it are for: a copy delivers its source
\* when the two are apart or it goes back, and repeats its first bytes when it
\* goes forward; a move leaves zeros; lengths are the first zero's, and filling a
\* text keeps its length; a search finds the first place in the text, and two
\* texts are equal exactly when their characters are. (Utils.cc:29, :70, :87, :145)
THEOREM MemoryHelpers ==
  \A m \in [Addr -> Chars] : CopiesAgree(m) /\ LengthsAgree(m) /\ SearchesAgree(m)
BY CopiesStand, LengthsStand, SearchesStand

-----------------------------------------------------------------------------
(* Addresses.  The characters since the last dot are counted up to four.   *)
Counted(v, c) == IF v > 3 THEN 4 ELSE IF c = Dot THEN 0 ELSE v + 1

CountsIn(c, ip) == c = [i \in 0..Len(ip) |-> IF i = 0 THEN 0 ELSE Counted(c[i - 1], ip[i])]

FourWithoutDot(ip, n) == \E i \in 1..(n - 3) : \A k \in i..(i + 3) : ip[k] # Dot

\* The last v characters of the first n are no dots, and no more of them.
LastCounted(ip, n, v) ==
  /\ v =< n /\ \A k \in (n - v + 1)..n : ip[k] # Dot
  /\ v < n => ip[n - v] = Dot

CountIsOf(ip, n, v) ==
  /\ v \in 0..4
  /\ v = 4 <=> FourWithoutDot(ip, n)
  /\ v # 4 => LastCounted(ip, n, v)

LEMMA OneCounted ==
  ASSUME NEW ip, NEW n \in Nat, NEW v, CountIsOf(ip, n, v)
  PROVE  CountIsOf(ip, n + 1, Counted(v, ip[n + 1]))
<1>1. v \in 0..4 /\ (v = 4 <=> FourWithoutDot(ip, n)) /\ (v # 4 => LastCounted(ip, n, v))
  BY DEF CountIsOf
<1>2. FourWithoutDot(ip, n) => FourWithoutDot(ip, n + 1)
  <2>1. \A i \in 1..(n - 3) : i \in 1..(n + 1 - 3)
    OBVIOUS
  <2> QED BY <2>1 DEF FourWithoutDot
<1>3. CASE v = 4
  <2>1. Counted(v, ip[n + 1]) = 4
    BY <1>3 DEF Counted
  <2> QED BY <1>1, <1>2, <1>3, <2>1 DEF CountIsOf
<1>4. CASE v # 4
  <2>1. v \in 0..3 /\ v =< n /\ (\A k \in (n - v + 1)..n : ip[k] # Dot) /\ (v < n => ip[n - v] = Dot)
    BY <1>1, <1>4 DEF LastCounted
  <2>2. ~FourWithoutDot(ip, n)
    BY <1>1, <1>4
  <2>3. CASE ip[n + 1] = Dot
    <3>1. Counted(v, ip[n + 1]) = 0
      BY <2>1, <2>3 DEF Counted
    <3>2. ~FourWithoutDot(ip, n + 1)
      <4>1. ASSUME FourWithoutDot(ip, n + 1) PROVE FALSE
        <5>1. PICK i \in 1..(n + 1 - 3) : \A k \in i..(i + 3) : ip[k] # Dot
          BY <4>1 DEF FourWithoutDot
        <5>2. n + 1 \notin i..(i + 3)
          BY <2>3, <5>1
        <5>3. i \in 1..(n - 3)
          BY <5>2
        <5> QED BY <2>2, <5>1, <5>3 DEF FourWithoutDot
      <4> QED BY <4>1
    <3>3. LastCounted(ip, n + 1, 0)
      <4>1. n + 1 - 0 = n + 1 /\ (n + 1 - 0 + 1)..(n + 1) = {}
        OBVIOUS
      <4> QED BY <2>3, <4>1 DEF LastCounted
    <3> QED BY <3>1, <3>2, <3>3 DEF CountIsOf
  <2>4. CASE ip[n + 1] # Dot
    <3>1. Counted(v, ip[n + 1]) = v + 1 /\ v + 1 \in 0..4
      BY <2>1, <2>4 DEF Counted
    <3>2. \A k \in (n + 1 - (v + 1) + 1)..(n + 1) : ip[k] # Dot
      <4> TAKE k \in (n + 1 - (v + 1) + 1)..(n + 1)
      <4>1. k = n + 1 \/ k \in (n - v + 1)..n
        BY <2>1
      <4> QED BY <2>1, <2>4, <4>1
    <3>3. v + 1 < n + 1 => ip[n + 1 - (v + 1)] = Dot
      <4>1. n + 1 - (v + 1) = n - v
        BY <2>1
      <4>2. v + 1 < n + 1 => v < n
        BY <2>1
      <4> QED BY <2>1, <4>1, <4>2
    <3>4. LastCounted(ip, n + 1, v + 1)
      BY <2>1, <3>2, <3>3 DEF LastCounted
    <3>5. v + 1 = 4 => FourWithoutDot(ip, n + 1)
      <4> HAVE v + 1 = 4
      <4>1. v = 3 /\ n >= 3
        BY <2>1
      <4>2. n - 2 \in 1..(n + 1 - 3)
        BY <4>1
      <4>3. \A k \in (n - 2)..(n - 2 + 3) : ip[k] # Dot
        <5> TAKE k \in (n - 2)..(n - 2 + 3)
        <5>1. k \in (n + 1 - (v + 1) + 1)..(n + 1)
          BY <4>1
        <5> QED BY <3>2, <5>1
      <4> QED BY <4>2, <4>3 DEF FourWithoutDot
    <3>6. FourWithoutDot(ip, n + 1) => v + 1 = 4
      <4> HAVE FourWithoutDot(ip, n + 1)
      <4>1. PICK i \in 1..(n + 1 - 3) : \A k \in i..(i + 3) : ip[k] # Dot
        BY DEF FourWithoutDot
      <4>2. i \notin 1..(n - 3)
        BY <2>2, <4>1 DEF FourWithoutDot
      <4>3. i = n - 2
        BY <4>2
      <4>4. v < n => n - v \notin i..(i + 3)
        BY <2>1, <4>1
      <4>5. v = n \/ v = 3
        BY <2>1, <4>3, <4>4
      <4> QED BY <2>1, <4>3, <4>5
    <3> QED BY <3>1, <3>4, <3>5, <3>6 DEF CountIsOf
  <2> QED BY <2>3, <2>4
<1> QED BY <1>3, <1>4

LEMMA CountsExist ==
  ASSUME NEW ip, Len(ip) \in Nat
  PROVE  \E c : CountsIn(c, ip)
<1> DEFINE S == 0..4
           step == [i \in 1..Len(ip) |-> [v \in S |-> Counted(v, ip[i])]]
<1>1. step \in [1..Len(ip) -> [S -> S]]
  BY DEF Counted
<1>2. PICK g \in [0..Len(ip) -> S] : Iterates(g, 0, step, Len(ip))
  <2>1. IteratesTo(S, 0, step, Len(ip))
    <3>1. 0 \in S
      OBVIOUS
    <3> HIDE DEF S, step
    <3> QED BY <1>1, <3>1, IterationsExist
  <2> QED BY <2>1 DEF IteratesTo
<1>3. \A i \in 0..Len(ip) : g[i] = IF i = 0 THEN 0 ELSE Counted(g[i - 1], ip[i])
  <2> TAKE i \in 0..Len(ip)
  <2>1. g[i] = IF i = 0 THEN 0 ELSE step[i][g[i - 1]]
    <3> HIDE DEF step
    <3> QED BY <1>2 DEF Iterates
  <2>2. CASE i = 0
    BY <2>1, <2>2
  <2>3. CASE i # 0
    <3> HIDE DEF S
    <3>1. i \in 1..Len(ip) /\ g[i - 1] \in S
      BY <1>2, <2>3
    <3>2. step[i][g[i - 1]] = Counted(g[i - 1], ip[i])
      BY <3>1
    <3> QED BY <2>1, <2>3, <3>2
  <2> QED BY <2>2, <2>3
<1>4. g = [i \in 0..Len(ip) |-> g[i]]
  BY <1>2
<1> HIDE DEF S, step
<1>5. g = [i \in 0..Len(ip) |-> IF i = 0 THEN 0 ELSE Counted(g[i - 1], ip[i])]
  BY <1>3, <1>4
<1> QED BY <1>5 DEF CountsIn

LEMMA Version4Refused ==
  ASSUME NEW ip, Len(ip) \in Nat
  PROVE  IpCheckVersion4(ip) <=> ~FourWithoutDot(ip, Len(ip))
<1> DEFINE c == CHOOSE g : CountsIn(g, ip)
<1>1. CountsIn(c, ip)
  BY CountsExist
<1>2. IpCheckVersion4(ip) <=> c[Len(ip)] =< 3
  BY DEF IpCheckVersion4, CountsIn, Counted
<1> HIDE DEF c
<1>3. c[0] = 0 /\ \A i \in 1..Len(ip) : c[i] = Counted(c[i - 1], ip[i])
  BY <1>1 DEF CountsIn
<1> DEFINE Bad == {n \in 0..Len(ip) : ~CountIsOf(ip, n, c[n])}
<1>4. ASSUME Bad # {} PROVE FALSE
  <2>1. PICK n \in Bad : \A k \in Bad : n =< k
    <3>1. Bad \in SUBSET Nat
      OBVIOUS
    <3> HIDE DEF Bad
    <3> QED BY <1>4, <3>1, LeastOne
  <2>2. CASE n = 0
    <3>1. ~FourWithoutDot(ip, 0)
      BY DEF FourWithoutDot
    <3>2. LastCounted(ip, 0, 0)
      BY DEF LastCounted
    <3>3. CountIsOf(ip, 0, 0)
      BY <3>1, <3>2 DEF CountIsOf
    <3> QED BY <1>3, <2>1, <2>2, <3>3
  <2>3. CASE n # 0
    <3>1. PICK k \in Nat : k = n - 1 /\ k + 1 = n /\ k \in 0..Len(ip) /\ k \notin Bad
      BY <2>1, <2>3
    <3>2. CountIsOf(ip, k, c[k])
      BY <3>1
    <3>3. CountIsOf(ip, k + 1, Counted(c[k], ip[k + 1]))
      BY <3>2, OneCounted
    <3>4. n \in 1..Len(ip) /\ c[n] = Counted(c[k], ip[k + 1])
      BY <1>3, <2>1, <2>3, <3>1
    <3> QED BY <2>1, <3>1, <3>3, <3>4
  <2> QED BY <2>2, <2>3
<1>5. CountIsOf(ip, Len(ip), c[Len(ip)])
  <2>1. Len(ip) \in 0..Len(ip) /\ Len(ip) \notin Bad
    BY <1>4
  <2> QED BY <2>1
<1>6. c[Len(ip)] \in 0..4 /\ (c[Len(ip)] = 4 <=> FourWithoutDot(ip, Len(ip)))
  BY <1>5 DEF CountIsOf
<1> QED BY <1>2, <1>6

\* Addresses of one length are equal when all their bytes are, and a text of any
\* length is refused as one of version 4 exactly when four characters in a row
\* hold no dot. (IPAddr.cc:33, :105)
THEOREM AddressHelpers ==
  ASSUME NEW Ips \in SUBSET Seq(Nat), NEW n \in Nat \ {0}, NEW Quads \in SUBSET [1..n -> 0..255]
  PROVE  AddressesAgree(Ips, Quads)
<1>1. \A p \in Quads : Len(p) = n /\ p \in [1..n -> 0..255]
  OBVIOUS
<1>2. ASSUME NEW p \in Quads, NEW q \in Quads
      PROVE  /\ AddressEquals(p, q) <=> p = q
             /\ ~(AddressEquals(p, q) /\ AddressDiffers(p, q))
  <2>1. (\A i \in 1..n : q[i] = p[i]) <=> p = q
    BY <1>1
  <2>2. 1 \in 1..n
    OBVIOUS
  <2> QED BY <1>1, <2>1, <2>2 DEF AddressEquals, AddressDiffers
<1>3. ASSUME NEW p \in Quads, NEW i \in 0..(Len(p) - 1) PROVE AddressIndexAllowed(p, i)
  BY <1>1, <1>3 DEF AddressIndexAllowed
<1>4. ASSUME NEW ip \in Ips
      PROVE  IpCheckVersion4(ip) <=>
               ~\E i \in 1..(Len(ip) - 3) : \A k \in i..(i + 3) : ip[k] # Dot
  <2>1. ip \in Seq(Nat) /\ Len(ip) \in Nat
    OBVIOUS
  <2> QED BY <2>1, Version4Refused DEF FourWithoutDot
<1> QED BY <1>2, <1>3, <1>4 DEF AddressesAgree
=============================================================================
