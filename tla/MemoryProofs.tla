---------------------------- MODULE MemoryProofs ----------------------------
(***************************************************************************)
(* Proofs about Memory, for targets, page sizes and caches of any size:    *)
(* whatever the game does meanwhile, what a read or a string comes back    *)
(* with was there since the cache was last emptied, and what is missing    *)
(* could not be read.                                                      *)
(***************************************************************************)
EXTENDS Memory, TLAPS, WellFoundedInduction, FiniteSetTheorems

(***************************************************************************)
(* Numbers: the first of some, and pages.                                  *)
(***************************************************************************)
LEMMA MinNat ==
  ASSUME NEW S \in SUBSET Nat, S # {}
  PROVE  Min(S) \in S /\ \A n \in S : Min(S) <= n
<1> DEFINE before == OpToRel(<, Nat)
<1>1. IsWellFoundedOn(before, Nat)
  BY NatLessThanWellFounded
<1>2. \A j, k \in Nat : j < k => <<j, k>> \in before
  BY DEF OpToRel
<1> HIDE DEF before
<1>3. PICK x \in S : \A y \in S : <<y, x>> \notin before
  BY <1>1, WFMin
<1>4. ASSUME NEW y \in S PROVE x <= y
  <2>1. y \in Nat /\ x \in Nat /\ ~(y < x)
    BY <1>2, <1>3
  <2> QED BY <2>1
<1> QED
  BY <1>4 DEF Min

LEMMA MinOfTwo ==
  ASSUME NEW a \in Int, NEW b \in Int
  PROVE  Min({a, b}) = IF a <= b THEN a ELSE b
BY DEF Min

LEMMA PageParts ==
  ASSUME NEW x \in Nat
  PROVE  /\ PageOf(x) \in Nat /\ x % PageSize \in 0 .. PageSize - 1
         /\ x = PageOf(x) * PageSize + (x % PageSize)
<1>1. PageSize \in Nat /\ PageSize > 0
  BY MemoryAssumption DEF MemoryAssumption
<1>2. x \div PageSize \in Nat /\ x % PageSize \in 0 .. PageSize - 1
  BY <1>1
<1>3. x = PageSize * (x \div PageSize) + (x % PageSize)
  BY <1>1
<1> QED
  BY <1>1, <1>2, <1>3 DEF PageOf

LEMMA PageIs ==
  ASSUME NEW x \in Nat, NEW p \in Nat, p * PageSize <= x, x < p * PageSize + PageSize
  PROVE  PageOf(x) = p
<1> DEFINE q == PageOf(x)
<1> DEFINE s == PageSize
<1>a. s \in Nat /\ s > 0
  BY MemoryAssumption DEF MemoryAssumption
<1>b. q \in Nat /\ x % PageSize \in 0 .. s - 1 /\ x = q * s + (x % PageSize)
  BY PageParts
<1>c. q * s \in Nat
  BY <1>a, <1>b
<1>1. q \in Nat /\ s \in Nat \ {0} /\ q * s <= x /\ x < q * s + s
  <2> HIDE DEF q, s
  <2> QED BY <1>a, <1>b, <1>c
<1> HIDE DEF q, s
<1>2. p * s <= x /\ x < p * s + s
  BY DEF s
<1>3. q >= p
  <2>1. SUFFICES ASSUME q + 1 <= p PROVE FALSE
    BY <1>1
  <2>2. PICK d \in Nat : p = q + 1 + d
    BY <2>1, <1>1
  <2>3. p * s = q * s + s + d * s /\ d * s >= 0
    BY <2>2, <1>1
  <2> QED
    BY <2>3, <1>1, <1>2
<1>4. q <= p
  <2>1. SUFFICES ASSUME p + 1 <= q PROVE FALSE
    BY <1>1
  <2>2. PICK d \in Nat : q = p + 1 + d
    BY <2>1, <1>1
  <2>3. q * s = p * s + s + d * s /\ d * s >= 0
    BY <2>2, <1>1
  <2> QED
    BY <2>3, <1>1, <1>2
<1> QED
  BY <1>1, <1>3, <1>4 DEF q
LEMMA PageMono ==
  ASSUME NEW x \in Nat, NEW y \in Nat, x <= y
  PROVE  PageOf(x) <= PageOf(y)
<1> DEFINE q == PageOf(x)
<1> DEFINE r == PageOf(y)
<1> DEFINE s == PageSize
<1>1. s \in Nat /\ s > 0
  BY MemoryAssumption DEF MemoryAssumption
<1>2. q \in Nat /\ x % PageSize \in 0 .. s - 1 /\ x = q * s + (x % PageSize)
  BY PageParts
<1>3. r \in Nat /\ y % PageSize \in 0 .. s - 1 /\ y = r * s + (y % PageSize)
  BY PageParts
<1> HIDE DEF q, r, s
<1>4. q * s \in Nat /\ r * s \in Nat
  BY <1>1, <1>2, <1>3
<1>5. q * s < r * s + s
  BY <1>1, <1>2, <1>3, <1>4
<1>6. SUFFICES ASSUME r + 1 <= q PROVE FALSE
  BY <1>2, <1>3 DEF q, r
<1>7. PICK d \in Nat : q = r + 1 + d
  BY <1>2, <1>3, <1>6
<1>8. q * s = r * s + s + d * s /\ d * s >= 0
  BY <1>1, <1>3, <1>7
<1> QED
  BY <1>1, <1>4, <1>5, <1>8

\* What is in page p, in numbers.
LEMMA InPage ==
  ASSUME NEW p \in Nat
  PROVE  /\ p * PageSize \in Nat
         /\ (p + 1) * PageSize = p * PageSize + PageSize
         /\ \A k \in 0 .. PageSize - 1 : PageOf(p * PageSize + k) = p
<1> DEFINE s == PageSize
<1>1. s \in Nat /\ s > 0
  BY MemoryAssumption DEF MemoryAssumption
<1>2. p * s \in Nat /\ (p + 1) * s = p * s + s
  <2> HIDE DEF s
  <2> QED BY <1>1
<1>3. ASSUME NEW k \in 0 .. s - 1 PROVE PageOf(p * s + k) = p
  <2>1. p * s + k \in Nat /\ p * s <= p * s + k /\ p * s + k < p * s + s
    <3> HIDE DEF s
    <3> QED BY <1>1, <1>2
  <2> QED BY <2>1, PageIs
<1> QED BY <1>2, <1>3

LEMMA AddrPages ==
  /\ Addrs \subseteq Nat /\ Pages \subseteq Nat /\ 0 \in Addrs /\ 0 \in Pages
  /\ \A a \in Addrs : PageOf(a) \in Pages
<1>1. Top \in Nat
  BY MemoryAssumption DEF MemoryAssumption
<1>2. Top \div PageSize \in Nat
  BY <1>1, PageParts DEF PageOf
<1>3. ASSUME NEW a \in Addrs PROVE PageOf(a) \in Pages
  <2>1. a \in Nat /\ a <= Top
    BY <1>1 DEF Addrs
  <2>2. PageOf(a) \in Nat /\ PageOf(a) <= PageOf(Top)
    BY <1>1, <2>1, PageParts, PageMono
  <2> QED BY <1>2, <2>2 DEF PageOf, Pages
<1> QED BY <1>1, <1>2, <1>3 DEF Addrs, Pages

(***************************************************************************)
(* The inductive invariant.                                                *)
(***************************************************************************)
Values == {Gone} \cup Bytes
Protections == {Free} \cup SUBSET Flags

\* The target: a live one changes, a file stays what it stands for.
TargetOK ==
  /\ source \in Sources /\ Opens(source)
  /\ mem \in [Addrs -> Values] /\ protect \in [Pages -> Protections]
  /\ Live => mem \in [Addrs -> Bytes]
  /\ ~Live => mem = source.bytes
  /\ source.kind = "dump" => ranges = Ranges(source.file)
  /\ source.kind = "internal" => protect[0] = Free
  /\ regions = RegionsOf(source) /\ modules \in {<<>>, <<source.module>>}
  /\ writable \in BOOLEAN /\ (writable => Live)

\* What there is now is remembered.
HeldOK ==
  /\ held \in [Addrs -> SUBSET Values]
  /\ \A a \in Addrs : Byte(a) \in held[a]

\* A page of the cache was so: its bytes were there, and where they end too early
\* something in that page could not be read.
Hole(p) == \E x \in p * PageSize .. p * PageSize + PageSize - 1 : Gone \in Was(x)
PageTrue(p, data) ==
  /\ data \in Seq(Bytes) /\ Len(data) <= PageSize
  /\ \A k \in 1 .. Len(data) : data[k] \in Was(p * PageSize + k - 1)
  /\ Len(data) < PageSize => Hole(p)

CacheOK ==
  /\ cache \in [0 .. Slots - 1 -> [tag : Nat \cup {NoPage}, data : Seq(Bytes)]]
  /\ \A slot \in 0 .. Slots - 1 :
       cache[slot].tag # NoPage => PageTrue(cache[slot].tag, cache[slot].data)

\* What has been read is so, and where nothing more comes something could not be read.
BytesTrue(address, bytes) ==
  \A k \in 1 .. Len(bytes) : bytes[k] \in Was(address + k - 1)
FetchTrue(f) ==
  /\ f \in [address : Nat, size : Nat, bytes : Seq(Bytes), over : BOOLEAN]
  /\ Len(f.bytes) <= f.size
  /\ BytesTrue(f.address, f.bytes)
  /\ f.over /\ Len(f.bytes) < f.size =>
       Cut(f.address + Len(f.bytes), f.address + f.size - 1)
FetchOK == fetch # Nothing => FetchTrue(fetch)

\* What is fetched is what the caller waits for.
CallOK ==
  call # Nothing =>
    /\ scan = Nothing
    /\ call \in [op : {"read", "string"}, address : Nat, size : Nat, bytes : Seq(Bytes)]
    /\ call.op = "read" /\ fetch # Nothing =>
         fetch.address = call.address /\ fetch.size = call.size
    /\ call.op = "string" =>
         /\ Len(call.bytes) <= call.size
         /\ BytesTrue(call.address, call.bytes)
         /\ \A k \in 1 .. Len(call.bytes) : call.bytes[k] # 0
         /\ fetch # Nothing =>
              /\ fetch.address = call.address + Len(call.bytes)
              /\ fetch.size = Min({StringChunk, call.size - Len(call.bytes)})

Rows == Seq([base : Nat, size : Nat \ {0}])
ScanOK ==
  scan # Nothing =>
    /\ DOMAIN scan = {"pattern", "options", "known", "ranges", "offset", "hits"}
    /\ scan.pattern \in Seq({AnyByte} \cup Bytes) /\ Len(scan.pattern) > 0
    /\ scan.ranges \in Rows /\ scan.offset \in Nat
    /\ scan.ranges # <<>> => scan.offset < Head(scan.ranges).size

AnswerOK ==
  /\ answer # Nothing /\ answer.op \in {"read", "string"} =>
       answer \in [op : {"read", "string"}, address : Nat, size : Nat, bytes : Seq(Bytes)]
  /\ ReadsAreOfTheirTime

Inv == TargetOK /\ HeldOK /\ CacheOK /\ FetchOK /\ CallOK /\ ScanOK /\ AnswerOK

(***************************************************************************)
(* What the providers read.                                                *)
(***************************************************************************)

\* Every file that can be opened stands for its bytes, wherever it is read.
FilesTrue ==
  \A s \in Sources : s.kind \in {"dump", "image"} /\ Opens(s) => StandsFor(s, Nat, Nat)

LEMMA Constants ==
  /\ PageSize \in Nat /\ PageSize > 0 /\ Slots \in Nat /\ Slots > 0
  /\ ChunkSize \in Nat /\ ChunkSize > 0 /\ StringChunk \in Nat /\ StringChunk > 0
  /\ Bytes \subseteq Nat /\ 0 \in Bytes /\ Gone \notin Bytes /\ NoPage \notin Nat
  /\ Free \notin SUBSET Flags /\ Top \in Nat
<1>1. Free \notin SUBSET Flags
  BY TargetAssumption DEF TargetAssumption
<1>2. Gone \notin Bytes /\ NoPage \notin Nat
  BY TargetAssumption DEF TargetAssumption
<1>3. /\ PageSize \in Nat \ {0} /\ Slots \in Nat \ {0} /\ ChunkSize \in Nat \ {0}
      /\ StringChunk \in Nat \ {0} /\ Top \in Nat
  BY MemoryAssumption DEF MemoryAssumption
<1>4. Bytes \subseteq Nat /\ 0 \in Bytes
  BY DEF Bytes
<1> QED
  BY <1>1, <1>2, <1>3, <1>4

LEMMA Kinds ==
  ASSUME TargetOK
  PROVE  /\ source.kind \in {"external", "internal", "dump", "image"}
         /\ Live <=> source.kind \notin {"dump", "image"}
BY TargetAssumption DEF TargetAssumption, TargetOK, Live

LEMMA WasTyped ==
  ASSUME HeldOK, NEW x
  PROVE  Was(x) \subseteq Values
BY DEF HeldOK, Was, Values

LEMMA LiveReadTrue ==
  ASSUME TargetOK, HeldOK, Live, NEW address \in Nat, NEW size \in Nat
  PROVE  LET bytes == ReadLive(address, size) IN
         /\ bytes \in Seq(Bytes) /\ Len(bytes) <= size
         /\ BytesTrue(address, bytes)
         /\ Len(bytes) < size =>
              \E x \in address + Len(bytes) .. address + size - 1 : Gone \in Was(x)
<1> DEFINE places == Missing(address, size) \cup {size}
<1> DEFINE got == Min(places)
<1>1. places \subseteq Nat /\ size \in places
  BY DEF Missing
<1>2. got \in places /\ \A n \in places : got <= n
  BY <1>1, MinNat
<1>3. got \in Nat /\ got <= size
  BY <1>1, <1>2
<1> HIDE DEF got
<1>4. ASSUME NEW k \in 1 .. got
      PROVE  /\ address + k - 1 \in Addrs
             /\ Byte(address + k - 1) # Gone
  <2>1. k - 1 \in 0 .. size - 1 /\ k - 1 < got
    BY <1>3
  <2>2. k - 1 \notin Missing(address, size)
    <3>1. k - 1 \in places => got <= k - 1
      BY <1>2
    <3> QED BY <1>3, <2>1, <3>1
  <2>3. address + (k - 1) \in Addrs /\ Byte(address + (k - 1)) # Gone
    BY <2>1, <2>2 DEF Missing
  <2>4. address + (k - 1) = address + k - 1
    BY <2>1
  <2> QED BY <2>3, <2>4
<1>5. CASE address = 0 /\ source.kind = "internal"
  <2>1. ReadLive(address, size) = <<>>
    BY <1>5 DEF ReadLive
  <2>2. protect[0] = Free /\ PageOf(0) = 0
    BY <1>5, PageIs, Constants DEF TargetOK
  <2>3. Byte(0) = Gone
    BY <2>2, Kinds DEF Byte, Seen, Allows
  <2>4. Gone \in Was(0)
    BY <2>3, AddrPages DEF HeldOK, Was
  <2>5. 0 < size => 0 \in address + 0 .. address + size - 1
    BY <1>5
  <2> QED BY <2>1, <2>4, <2>5, <1>3 DEF BytesTrue
<1>6. CASE ~(address = 0 /\ source.kind = "internal")
  <2> DEFINE bytes == [k \in 1 .. got |-> mem[address + k - 1]]
  <2>1. ReadLive(address, size) = bytes
    BY <1>6 DEF ReadLive, got
  <2>0. \A k \in 1 .. got : mem[address + k - 1] \in Bytes
    <3>1. mem \in [Addrs -> Bytes]
      BY DEF TargetOK
    <3> QED BY <1>4, <3>1
  <2>2. bytes \in Seq(Bytes) /\ Len(bytes) = got
    BY <1>3, <2>0
  <2>3. ASSUME NEW k \in 1 .. got PROVE bytes[k] \in Was(address + k - 1)
    <3>1. address + k - 1 \in Addrs /\ Byte(address + k - 1) = mem[address + k - 1]
      BY <1>4 DEF Byte, Seen
    <3> QED BY <3>1 DEF HeldOK, Was
  <2>4. ASSUME got < size
        PROVE  address + got \in address + got .. address + size - 1 /\ Gone \in Was(address + got)
    <3>1. got \in Missing(address, size)
      BY <1>2, <2>4
    <3>2. CASE address + got \notin Addrs
      BY <3>2, <2>4, <1>3 DEF Was
    <3>3. CASE address + got \in Addrs
      BY <3>1, <3>3, <2>4, <1>3 DEF Missing, Was, HeldOK
    <3> QED BY <3>2, <3>3
  <2> HIDE DEF bytes
  <2> QED BY <2>1, <2>2, <2>3, <2>4, <1>3 DEF BytesTrue
<1> QED BY <1>5, <1>6

LEMMA FileReadTrue ==
  ASSUME FilesTrue, TargetOK, HeldOK, ~Live, NEW address \in Nat, NEW size \in Nat
  PROVE  LET bytes == ProviderRead(address, size) IN
         /\ bytes \in Seq(Bytes) /\ Len(bytes) <= size
         /\ BytesTrue(address, bytes)
         /\ Len(bytes) < size =>
              \E x \in address + Len(bytes) .. address + size - 1 : Gone \in Was(x)
<1> DEFINE bytes == ProviderRead(address, size)
<1>1. source.kind \in {"dump", "image"} /\ source \in Sources /\ Opens(source)
  BY Kinds DEF TargetOK
<1>2. bytes = FileRead(source, address, size)
  BY <1>1 DEF ProviderRead, FileRead, TargetOK
<1>3. /\ bytes \in Seq(Bytes) /\ Len(bytes) <= size
      /\ \A k \in 1 .. Len(bytes) :
           address + k - 1 \in Addrs /\ bytes[k] = source.bytes[address + k - 1]
      /\ Len(bytes) < size =>
           \E x \in address + Len(bytes) .. address + size - 1 :
             x \notin Addrs \/ source.bytes[x] = Gone
  BY <1>1, <1>2 DEF FilesTrue, StandsFor
<1>4. \A a \in Addrs : Byte(a) = source.bytes[a] /\ source.bytes[a] \in Was(a)
  BY DEF TargetOK, Byte, Seen, HeldOK, Was
<1>5. \A x : x \notin Addrs => Gone \in Was(x)
  BY DEF Was
<1> HIDE DEF bytes
<1>6. BytesTrue(address, bytes)
  BY <1>3, <1>4 DEF BytesTrue
<1>7. ASSUME Len(bytes) < size
      PROVE  \E x \in address + Len(bytes) .. address + size - 1 : Gone \in Was(x)
  <2>1. PICK x \in address + Len(bytes) .. address + size - 1 :
               x \notin Addrs \/ source.bytes[x] = Gone
    BY <1>3, <1>7
  <2>2. Gone \in Was(x)
    BY <2>1, <1>4, <1>5
  <2> QED BY <2>2
<1> QED BY <1>3, <1>6, <1>7 DEF bytes

\* What a provider reads is so, and where it stops short something could not be read.
LEMMA ProviderTrue ==
  ASSUME FilesTrue, TargetOK, HeldOK, NEW address \in Nat, NEW size \in Nat
  PROVE  LET bytes == ProviderRead(address, size) IN
         /\ bytes \in Seq(Bytes) /\ Len(bytes) <= size
         /\ BytesTrue(address, bytes)
         /\ Len(bytes) < size =>
              \E x \in address + Len(bytes) .. address + size - 1 : Gone \in Was(x)
<1>1. CASE Live
  <2>1. ProviderRead(address, size) = ReadLive(address, size)
    BY <1>1, Kinds DEF ProviderRead
  <2> QED BY <1>1, <2>1, LiveReadTrue
<1>2. CASE ~Live
  BY <1>2, FileReadTrue
<1> QED BY <1>1, <1>2

(***************************************************************************)
(* The cache, and a page of a read.                                        *)
(***************************************************************************)
LEMMA PageFetched ==
  ASSUME FilesTrue, TargetOK, HeldOK, NEW page \in Nat
  PROVE  PageTrue(page, ProviderRead(page * PageSize, PageSize))
<1> DEFINE data == ProviderRead(page * PageSize, PageSize)
<1>1. page * PageSize \in Nat /\ PageSize \in Nat
  BY InPage, Constants
<1>2. /\ data \in Seq(Bytes) /\ Len(data) <= PageSize
      /\ BytesTrue(page * PageSize, data)
      /\ Len(data) < PageSize =>
           \E x \in page * PageSize + Len(data) .. page * PageSize + PageSize - 1 : Gone \in Was(x)
  BY <1>1, ProviderTrue
<1> HIDE DEF data
<1>3. Len(data) < PageSize => Hole(page)
  <2>1. SUFFICES ASSUME Len(data) < PageSize PROVE Hole(page)
    OBVIOUS
  <2>2. PICK x \in page * PageSize + Len(data) .. page * PageSize + PageSize - 1 : Gone \in Was(x)
    BY <1>2, <2>1
  <2>3. Len(data) \in Nat
    BY <1>2
  <2>4. x \in page * PageSize .. page * PageSize + PageSize - 1
    BY <1>1, <2>2, <2>3
  <2> QED BY <2>2, <2>4 DEF Hole
<1> QED BY <1>2, <1>3 DEF PageTrue, BytesTrue, data

LEMMA SlotIsOne ==
  ASSUME NEW page \in Nat
  PROVE  SlotOf(page) \in 0 .. Slots - 1
BY Constants DEF SlotOf

\* Fetching a page leaves a cache in which all is so, with that page in its slot.
LEMMA CacheFetched ==
  ASSUME FilesTrue, TargetOK, HeldOK, CacheOK, NEW page \in Nat
  PROVE  LET slots == FetchPage(cache, page) IN
         /\ slots \in [0 .. Slots - 1 -> [tag : Nat \cup {NoPage}, data : Seq(Bytes)]]
         /\ \A slot \in 0 .. Slots - 1 :
              slots[slot].tag # NoPage => PageTrue(slots[slot].tag, slots[slot].data)
         /\ PageTrue(page, slots[SlotOf(page)].data)
<1> DEFINE at == SlotOf(page)
<1> DEFINE new == [tag |-> page, data |-> ProviderRead(page * PageSize, PageSize)]
<1>1. at \in 0 .. Slots - 1 /\ page # NoPage
  BY SlotIsOne, Constants
<1>2. CASE cache[at].tag = page
  <2>1. FetchPage(cache, page) = cache
    BY <1>2 DEF FetchPage
  <2> QED BY <1>1, <1>2, <2>1 DEF CacheOK
<1>3. CASE cache[at].tag # page
  <2>1. FetchPage(cache, page) = [cache EXCEPT ![at] = new]
    BY <1>3 DEF FetchPage
  <2>2. PageTrue(page, new.data)
    BY PageFetched
  <2>3. new \in [tag : Nat \cup {NoPage}, data : Seq(Bytes)] /\ new.tag = page
    BY <2>2 DEF PageTrue
  <2> HIDE DEF new, at
  <2>4. /\ [cache EXCEPT ![at] = new][at] = new
        /\ \A slot \in 0 .. Slots - 1 : slot # at => [cache EXCEPT ![at] = new][slot] = cache[slot]
    BY <1>1 DEF CacheOK
  <2>5. [cache EXCEPT ![at] = new] \in [0 .. Slots - 1 -> [tag : Nat \cup {NoPage}, data : Seq(Bytes)]]
    BY <1>1, <2>3 DEF CacheOK
  <2>6. ASSUME NEW slot \in 0 .. Slots - 1,
               [cache EXCEPT ![at] = new][slot].tag # NoPage
        PROVE  PageTrue([cache EXCEPT ![at] = new][slot].tag, [cache EXCEPT ![at] = new][slot].data)
    <3>1. CASE slot = at
      BY <2>2, <2>3, <2>4, <3>1
    <3>2. CASE slot # at
      BY <2>4, <2>6, <3>2 DEF CacheOK
    <3> QED BY <3>1, <3>2
  <2> QED BY <2>1, <2>2, <2>4, <2>5, <2>6 DEF at
<1> QED BY <1>2, <1>3

\* Somewhere between two places, page for page.
LEMMA CutBetween ==
  ASSUME NEW a \in Nat, NEW b \in Nat, a <= b, NEW x \in Nat, Gone \in Was(x),
         PageOf(a) * PageSize <= x, x < PageOf(b) * PageSize + PageSize
  PROVE  Cut(a, b)
<1>1. /\ PageOf(a) \in Nat /\ PageOf(b) \in Nat
      /\ PageOf(a) * PageSize \in Nat /\ PageOf(b) * PageSize \in Nat
      /\ (PageOf(b) + 1) * PageSize = PageOf(b) * PageSize + PageSize
  BY PageParts, InPage
<1>2. x \in PageOf(a) * PageSize .. (PageOf(b) + 1) * PageSize - 1
  BY <1>1, Constants
<1> QED BY <1>2 DEF Cut

LEMMA PageOrder ==
  ASSUME NEW p \in Nat, NEW q \in Nat, p <= q
  PROVE  p * PageSize <= q * PageSize
<1>1. PICK d \in Nat : q = p + d
  <2>1. q - p \in Nat /\ q = p + (q - p)
    OBVIOUS
  <2> QED BY <2>1
<1> DEFINE s == PageSize
<1>2. s \in Nat
  BY Constants
<1> HIDE DEF s
<1>3. q * s = p * s + d * s /\ d * s \in Nat /\ p * s \in Nat
  BY <1>1, <1>2
<1>4. p * s <= q * s
  BY <1>3
<1> QED BY <1>4 DEF s

\* The longer what is wanted, the more can be missing of it.
LEMMA CutFurther ==
  ASSUME NEW a \in Nat, NEW b \in Nat, NEW c \in Nat, a <= b, b <= c, Cut(a, b)
  PROVE  Cut(a, c)
<1>1. /\ PageOf(a) \in Nat /\ PageOf(b) \in Nat /\ PageOf(c) \in Nat /\ PageOf(b) <= PageOf(c)
  BY PageParts, PageMono
<1>2. PICK x \in PageOf(a) * PageSize .. (PageOf(b) + 1) * PageSize - 1 : Gone \in Was(x)
  BY DEF Cut
<1>3. /\ PageOf(a) * PageSize \in Nat /\ PageOf(b) * PageSize \in Nat /\ PageOf(c) * PageSize \in Nat
      /\ (PageOf(b) + 1) * PageSize = PageOf(b) * PageSize + PageSize
      /\ PageOf(b) * PageSize <= PageOf(c) * PageSize
  BY <1>1, InPage, PageOrder
<1>4. x \in Nat /\ PageOf(a) * PageSize <= x /\ x < PageOf(c) * PageSize + PageSize
  BY <1>2, <1>3, Constants
<1>5. a <= c
  OBVIOUS
<1> QED BY <1>2, <1>4, <1>5, CutBetween

\* What one page adds to a read.
LEMMA FromPageTrue ==
  ASSUME NEW f, FetchTrue(f), ~Done(f), NEW data,
         PageTrue(PageOf(f.address + Len(f.bytes)), data)
  PROVE  /\ FetchTrue(FromPage(f, data))
         /\ FromPage(f, data).address = f.address /\ FromPage(f, data).size = f.size
<1> DEFINE done == Len(f.bytes)
           pos == f.address + done
           page == PageOf(pos)
           in_page == pos % PageSize
           end == Min({in_page + f.size - done, PageSize})
           m == Min({end, Len(data)})
           part == SubSeq(data, in_page + 1, m)
           all == f.bytes \o part
           start == page * PageSize
<1>1. /\ f \in [address : Nat, size : Nat, bytes : Seq(Bytes), over : BOOLEAN]
      /\ done \in Nat /\ done < f.size /\ f.address \in Nat /\ f.size \in Nat /\ ~f.over
      /\ BytesTrue(f.address, f.bytes) /\ f.bytes \in Seq(Bytes)
  BY DEF FetchTrue, Done
<1>2. pos \in Nat
  BY <1>1
<1>3. /\ page \in Nat /\ in_page \in 0 .. PageSize - 1 /\ start \in Nat /\ pos = start + in_page
  BY <1>2, PageParts, InPage
<1>4. PageSize \in Nat /\ PageSize > 0
  BY Constants
<1>5. /\ data \in Seq(Bytes) /\ Len(data) \in Nat /\ Len(data) <= PageSize
      /\ \A k \in 1 .. Len(data) : data[k] \in Was(start + k - 1)
      /\ Len(data) < PageSize => Hole(page)
  BY DEF PageTrue
<1>6. FromPage(f, data) = [f EXCEPT !.bytes = all, !.over = Len(data) < end]
  BY DEF FromPage
<1> HIDE DEF page, in_page, start
<1>7. /\ end = IF in_page + f.size - done <= PageSize THEN in_page + f.size - done ELSE PageSize
      /\ end \in Nat /\ in_page < end /\ end <= PageSize /\ end <= in_page + f.size - done
  <2>1. in_page + f.size - done \in Int
    BY <1>1, <1>3, <1>4
  <2>2. end = IF in_page + f.size - done <= PageSize THEN in_page + f.size - done ELSE PageSize
    BY <2>1, <1>4, MinOfTwo
  <2> HIDE DEF end, done
  <2> QED BY <2>2, <1>1, <1>3, <1>4
<1> HIDE DEF end, done, pos
<1>8. m \in Nat /\ m = IF end <= Len(data) THEN end ELSE Len(data)
  BY <1>5, <1>7, MinOfTwo
<1> HIDE DEF m
<1>9. /\ part \in Seq(Bytes) /\ Len(part) = IF in_page < m THEN m - in_page ELSE 0
      /\ \A k \in 1 .. Len(part) : part[k] = data[in_page + k]
  <2>1. m <= Len(data)
    BY <1>5, <1>7, <1>8
  <2>2. Len(part) = IF in_page + 1 <= m THEN m - (in_page + 1) + 1 ELSE 0
    BY <1>3, <1>4, <1>5, <1>8
  <2>3. \A k \in 1 .. Len(part) : part[k] = data[in_page + 1 + k - 1]
    BY <1>3, <1>4, <1>5, <1>8, <2>1
  <2>4. \A k \in 1 .. Len(part) : part[k] = data[in_page + k]
    BY <2>3, <2>2, <1>3, <1>4, <1>8
  <2>5. \A k \in 1 .. Len(part) : data[in_page + k] \in Bytes
    BY <2>1, <2>2, <1>3, <1>4, <1>5, <1>8
  <2>6. part \in Seq(Bytes)
    BY <2>1, <1>3, <1>4, <1>5, <1>8
  <2> QED BY <2>2, <2>4, <2>6, <1>3, <1>4, <1>8
<1> HIDE DEF part
<1>10. /\ all \in Seq(Bytes) /\ Len(all) = done + Len(part)
       /\ \A k \in 1 .. done : all[k] = f.bytes[k]
       /\ \A k \in 1 .. Len(part) : all[done + k] = part[k]
  BY <1>1, <1>9 DEF done
<1> HIDE DEF all
<1>11. Len(part) \in Nat /\ Len(all) <= f.size /\ m <= Len(data) /\ m <= end
  <2>1. m <= Len(data) /\ m <= end
    BY <1>5, <1>7, <1>8
  <2>2. Len(part) \in Nat /\ (Len(part) = 0 \/ in_page + Len(part) <= end)
    BY <2>1, <1>3, <1>4, <1>7, <1>8, <1>9
  <2>3. Len(all) = done + Len(part)
    BY <1>10
  <2> QED BY <2>1, <2>2, <2>3, <1>1, <1>3, <1>4, <1>7
<1>12. BytesTrue(f.address, all)
  <2>1. SUFFICES ASSUME NEW k \in 1 .. Len(all) PROVE all[k] \in Was(f.address + k - 1)
    BY DEF BytesTrue
  <2>2. CASE k <= done
    <3>1. k \in 1 .. done
      BY <2>2, <1>1, <1>10, <1>11
    <3> QED BY <3>1, <1>1, <1>10 DEF BytesTrue, done
  <2>3. CASE k > done
    <3>1. k - done \in 1 .. Len(part) /\ k = done + (k - done)
      BY <2>3, <1>1, <1>10, <1>11
    <3>2. all[k] = data[in_page + (k - done)]
      BY <3>1, <1>9, <1>10
    <3>3. in_page + (k - done) \in 1 .. Len(data)
      BY <3>1, <1>1, <1>3, <1>4, <1>5, <1>8, <1>9, <1>11
    <3>4. start + (in_page + (k - done)) - 1 = f.address + k - 1
      BY <3>1, <1>1, <1>3, <1>4 DEF pos
    <3>5. data[in_page + (k - done)] \in Was(start + (in_page + (k - done)) - 1)
      BY <3>3, <1>5
    <3> QED BY <3>2, <3>4, <3>5
  <2> QED BY <2>2, <2>3, <1>1, <1>10, <1>11
<1>13. ASSUME Len(data) < end, Len(all) < f.size
       PROVE  Cut(f.address + Len(all), f.address + f.size - 1)
  <2>0. all \in Seq(Bytes) /\ Len(all) \in Nat
    BY <1>10
  <2> DEFINE a == f.address + Len(all)
             b == f.address + f.size - 1
  <2>1. m = Len(data)
    BY <1>13, <1>5, <1>7, <1>8
  <2>2. a \in Nat /\ start <= a /\ a < start + PageSize /\ pos <= a
    <3>1. Len(all) = done + Len(part) /\ pos = f.address + done
      BY <1>10 DEF pos
    <3>2. a = pos + Len(part) /\ Len(part) \in Nat
      BY <3>1, <2>0, <1>1, <1>9, <1>11
    <3>3. in_page + Len(part) < PageSize
      BY <2>1, <1>3, <1>4, <1>5, <1>7, <1>9, <1>13
    <3> HIDE DEF a
    <3> QED BY <3>2, <3>3, <1>2, <1>3, <1>4
  <2>3. PageOf(a) = page
    <3> HIDE DEF a
    <3> QED BY <2>2, <1>3, PageIs DEF start
  <2>4. b \in Nat /\ a <= b
    BY <1>13, <1>1, <1>10, <1>11
  <2> HIDE DEF a, b
  <2>5. PageOf(b) \in Nat /\ page <= PageOf(b)
    BY <2>2, <2>3, <2>4, PageMono, PageParts
  <2>6. start <= PageOf(b) * PageSize /\ PageOf(b) * PageSize \in Nat
    BY <2>5, <1>3, PageOrder, InPage DEF start
  <2>7. PICK x \in start .. start + PageSize - 1 : Gone \in Was(x)
    <3>0. Len(data) < PageSize
      BY <1>13, <1>4, <1>5, <1>7
    <3>1. Hole(page)
      BY <3>0, <1>5
    <3> QED BY <3>1 DEF Hole, start
  <2>8. x \in Nat /\ start <= x /\ x < PageOf(b) * PageSize + PageSize
    BY <2>6, <2>7, <1>3, <1>4
  <2>9. PageOf(a) * PageSize <= x
    BY <2>3, <2>8 DEF start
  <2>10. Cut(a, b)
    BY <2>2, <2>4, <2>7, <2>8, <2>9, CutBetween
  <2> QED BY <2>10 DEF a, b
<1> DEFINE r == FromPage(f, data)
<1>14. /\ r.address = f.address /\ r.size = f.size /\ r.bytes = all
       /\ r.over = (Len(data) < end)
       /\ r \in [address : Nat, size : Nat, bytes : Seq(Bytes), over : BOOLEAN]
  <2> DEFINE o == Len(data) < end
  <2>1. o \in BOOLEAN /\ r = [f EXCEPT !.bytes = all, !.over = o]
    BY <1>6
  <2> HIDE DEF o, r
  <2>2. f \in [address : Nat, size : Nat, bytes : Seq(Bytes), over : BOOLEAN] /\ all \in Seq(Bytes)
    BY <1>1, <1>10
  <2>3. /\ r.address = f.address /\ r.size = f.size /\ r.bytes = all /\ r.over = o
        /\ r \in [address : Nat, size : Nat, bytes : Seq(Bytes), over : BOOLEAN]
    BY <2>1, <2>2
  <2> QED BY <2>3 DEF o
<1> QED
  BY <1>11, <1>12, <1>13, <1>14 DEF FetchTrue

\* All of what is wanted, of a source that is not cached.
LEMMA UncachedTrue ==
  ASSUME FilesTrue, TargetOK, HeldOK, NEW f, FetchTrue(f), ~Done(f)
  PROVE  FetchTrue([f EXCEPT !.bytes = ProviderRead(f.address, f.size), !.over = TRUE])
<1> DEFINE bytes == ProviderRead(f.address, f.size)
           r == [f EXCEPT !.bytes = bytes, !.over = TRUE]
<1>1. /\ f \in [address : Nat, size : Nat, bytes : Seq(Bytes), over : BOOLEAN]
      /\ f.address \in Nat /\ f.size \in Nat
  BY DEF FetchTrue
<1>2. /\ bytes \in Seq(Bytes) /\ Len(bytes) <= f.size
      /\ BytesTrue(f.address, bytes)
      /\ Len(bytes) < f.size =>
           \E x \in f.address + Len(bytes) .. f.address + f.size - 1 : Gone \in Was(x)
  BY <1>1, ProviderTrue
<1> HIDE DEF bytes
<1>3. ASSUME Len(bytes) < f.size
      PROVE  Cut(f.address + Len(bytes), f.address + f.size - 1)
  <2> DEFINE a == f.address + Len(bytes)
             b == f.address + f.size - 1
  <2>1. PICK x \in a .. b : Gone \in Was(x)
    BY <1>2, <1>3
  <2>2. Len(bytes) \in Nat
    BY <1>2
  <2>3. a \in Nat /\ b \in Nat /\ a <= x /\ x <= b /\ x \in Nat
    BY <1>1, <1>3, <2>1, <2>2
  <2> HIDE DEF a, b
  <2>4. /\ PageOf(a) \in Nat /\ PageOf(a) * PageSize \in Nat
        /\ a % PageSize \in 0 .. PageSize - 1 /\ a = PageOf(a) * PageSize + (a % PageSize)
    BY <2>3, PageParts, InPage
  <2>5. /\ PageOf(b) \in Nat /\ PageOf(b) * PageSize \in Nat
        /\ b % PageSize \in 0 .. PageSize - 1 /\ b = PageOf(b) * PageSize + (b % PageSize)
    BY <2>3, PageParts, InPage
  <2>6. PageOf(a) * PageSize <= x
    BY <2>3, <2>4, Constants
  <2>7. x < PageOf(b) * PageSize + PageSize
    BY <2>3, <2>5, Constants
  <2>8. a <= b
    BY <2>3
  <2>9. Cut(a, b)
    BY <2>1, <2>3, <2>6, <2>7, <2>8, CutBetween
  <2> QED BY <2>9 DEF a, b
<1>4. /\ r \in [address : Nat, size : Nat, bytes : Seq(Bytes), over : BOOLEAN]
      /\ r.address = f.address /\ r.size = f.size /\ r.bytes = bytes
  BY <1>1, <1>2
<1> HIDE DEF r
<1>5. FetchTrue(r)
  BY <1>2, <1>3, <1>4 DEF FetchTrue
<1> QED
  BY <1>5 DEF r, bytes

(***************************************************************************)
(* What was so stays so: what is remembered only grows until the cache is  *)
(* emptied.                                                                *)
(***************************************************************************)
Grows == \A a \in Addrs : held[a] \subseteq held'[a]

LEMMA GrowsWas ==
  ASSUME Grows
  PROVE  /\ \A x : Was(x) \subseteq Was(x)'
         /\ \A a, b : Cut(a, b) => Cut(a, b)'
         /\ \A p : Hole(p) => Hole(p)'
         /\ \A address, bytes : BytesTrue(address, bytes) => BytesTrue(address, bytes)'
<1>1. \A x : Was(x) \subseteq Was(x)'
  BY DEF Grows, Was
<1>2. \A a, b : Cut(a, b) => Cut(a, b)'
  BY <1>1 DEF Cut
<1>3. \A p : Hole(p) => Hole(p)'
  BY <1>1 DEF Hole
<1>4. \A address, bytes : BytesTrue(address, bytes) => BytesTrue(address, bytes)'
  BY <1>1 DEF BytesTrue
<1> QED BY <1>1, <1>2, <1>3, <1>4

LEMMA GrowsPage ==
  ASSUME Grows, NEW p, NEW data, PageTrue(p, data)
  PROVE  PageTrue(p, data)'
<1>1. \A x : Was(x) \subseteq Was(x)'
  BY GrowsWas
<1>2. Hole(p) => Hole(p)'
  BY GrowsWas
<1> QED BY <1>1, <1>2 DEF PageTrue

LEMMA GrowsFetch ==
  ASSUME Grows, NEW f, FetchTrue(f)
  PROVE  FetchTrue(f)'
<1>1. BytesTrue(f.address, f.bytes) => BytesTrue(f.address, f.bytes)'
  BY GrowsWas
<1>2. Cut(f.address + Len(f.bytes), f.address + f.size - 1)
        => Cut(f.address + Len(f.bytes), f.address + f.size - 1)'
  BY GrowsWas
<1> QED BY <1>1, <1>2 DEF FetchTrue

LEMMA KeepCache ==
  ASSUME Grows, CacheOK, cache' = cache
  PROVE  CacheOK'
<1>1. ASSUME NEW slot \in 0 .. Slots - 1, cache[slot].tag # NoPage
      PROVE  PageTrue(cache[slot].tag, cache[slot].data)'
  <2>1. PICK p, data : p = cache[slot].tag /\ data = cache[slot].data
    OBVIOUS
  <2>2. PageTrue(p, data)
    BY <1>1, <2>1 DEF CacheOK
  <2>3. PageTrue(p, data)'
    BY <2>2, GrowsPage
  <2>4. p = cache'[slot].tag /\ data = cache'[slot].data
    BY <2>1
  <2> QED BY <2>3, <2>4 DEF PageTrue, Hole, Was
<1> QED BY <1>1 DEF CacheOK

LEMMA KeepFetch ==
  ASSUME Grows, FetchOK, fetch' = fetch
  PROVE  FetchOK'
<1>1. SUFFICES ASSUME fetch # Nothing PROVE FetchTrue(fetch)'
  BY DEF FetchOK
<1>2. PICK f : f = fetch
  OBVIOUS
<1>3. FetchTrue(f)
  BY <1>1, <1>2 DEF FetchOK
<1>4. FetchTrue(f)' /\ f = fetch'
  BY <1>2, <1>3, GrowsFetch
<1> QED BY <1>4 DEF FetchTrue, BytesTrue, Cut, Was

LEMMA KeepCall ==
  ASSUME Grows, CallOK, call' = call, fetch' \in {fetch, Nothing}, scan' = scan
  PROVE  CallOK'
<1>1. PICK address, bytes : address = call.address /\ bytes = call.bytes
  OBVIOUS
<1>2. BytesTrue(address, bytes) => BytesTrue(address, bytes)'
  BY GrowsWas
<1>3. BytesTrue(call.address, call.bytes) => BytesTrue(call.address, call.bytes)'
  BY <1>1, <1>2 DEF BytesTrue, Was
<1> QED BY <1>3 DEF CallOK

LEMMA KeepAnswer ==
  ASSUME Grows, AnswerOK, answer' = answer
  PROVE  AnswerOK'
<1>1. PICK ans : ans = answer
  OBVIOUS
<1> DEFINE at == ans.address
           got == Len(ans.bytes)
<1>2. \A x : Was(x) \subseteq Was(x)'
  BY GrowsWas
<1>3. Cut(at + got, at + ans.size - 1) => Cut(at + got, at + ans.size - 1)'
  BY GrowsWas
<1>4. SUFFICES ASSUME ans # Nothing, ans.op \in {"read", "string"}
               PROVE  /\ \A k \in 1 .. got : ans.bytes[k] \in Was(at + k - 1)' \ {Gone}
                      /\ got < ans.size => \/ Cut(at + got, at + ans.size - 1)'
                                           \/ ans.op = "string" /\ 0 \in Was(at + got)'
                      /\ ans.op = "string" => \A k \in 1 .. got : ans.bytes[k] # 0
  BY <1>1 DEF AnswerOK, ReadsAreOfTheirTime, Cut, Was
<1>5. /\ \A k \in 1 .. got : ans.bytes[k] \in Was(at + k - 1) \ {Gone}
      /\ got < ans.size => \/ Cut(at + got, at + ans.size - 1)
                           \/ ans.op = "string" /\ 0 \in Was(at + got)
      /\ ans.op = "string" => \A k \in 1 .. got : ans.bytes[k] # 0
  BY <1>1, <1>4 DEF AnswerOK, ReadsAreOfTheirTime
<1> QED BY <1>2, <1>3, <1>5

LEMMA KeepScan ==
  ASSUME ScanOK, scan' = scan
  PROVE  ScanOK'
BY DEF ScanOK

LEMMA NoAnswer ==
  ASSUME answer' = Nothing
  PROVE  AnswerOK'
BY DEF AnswerOK, ReadsAreOfTheirTime

(***************************************************************************)
(* What the game does.                                                     *)
(***************************************************************************)
LEMMA Watched ==
  ASSUME HeldOK, Watch, source' = source, mem' \in [Addrs -> Values], Free \notin SUBSET Flags
  PROVE  HeldOK' /\ Grows
<1>1. \A a \in Addrs : Seen(mem', protect', a) \in Values
  BY DEF Seen, Values
<1>2. Grows
  BY DEF Watch, Grows, HeldOK
<1>3. held' \in [Addrs -> SUBSET Values]
  BY <1>1 DEF Watch, HeldOK
<1>4. \A a \in Addrs : Byte(a)' \in held'[a]
  BY DEF Watch, Byte, Seen, Live
<1> QED BY <1>2, <1>3, <1>4 DEF HeldOK

LEMMA GameMoves ==
  ASSUME Inv,
         \/ \E a \in Addrs, byte \in Pokes : GameWrites(a, byte)
         \/ \E p \in Pages : GameFrees(p) \/ GameMaps(p)
  PROVE  Inv'
<1>a. TargetOK /\ HeldOK /\ CacheOK /\ FetchOK /\ CallOK /\ ScanOK /\ AnswerOK
  BY DEF Inv
<1>1. Watch /\ UNCHANGED <<opened, modules, writable, cache, asking, answer>> /\ Live
  BY DEF GameWrites, GameFrees, GameMaps
<1>2. mem' \in [Addrs -> Bytes]
  <2>1. mem \in [Addrs -> Bytes]
    BY <1>a, <1>1 DEF TargetOK
  <2>2. CASE \E a \in Addrs, byte \in Pokes : GameWrites(a, byte)
    BY <2>1, <2>2, CallsAssumption DEF GameWrites, CallsAssumption
  <2>3. CASE \E p \in Pages : GameFrees(p) \/ GameMaps(p)
    BY <2>1, <2>3, Constants DEF GameFrees, GameMaps
  <2> QED BY <2>2, <2>3
<1>3. protect' \in [Pages -> Protections] /\ (source.kind = "internal" => protect'[0] = Free)
  <2>1. CASE \E a \in Addrs, byte \in Pokes : GameWrites(a, byte)
    BY <1>a, <2>1 DEF GameWrites, TargetOK
  <2>2. ASSUME NEW p \in Pages, GameFrees(p)
        PROVE  protect' \in [Pages -> Protections] /\ (source.kind = "internal" => protect'[0] = Free)
    BY <1>a, <2>2, AddrPages DEF GameFrees, TargetOK, Protections
  <2>3. ASSUME NEW p \in Pages, GameMaps(p)
        PROVE  protect' \in [Pages -> Protections] /\ (source.kind = "internal" => protect'[0] = Free)
    <3>1. {"read", "write"} \in SUBSET Flags
      BY DEF Flags
    <3> QED BY <1>a, <2>3, <3>1, AddrPages DEF GameMaps, TargetOK, Protections
  <2> QED BY <2>1, <2>2, <2>3
<1>4. TargetOK'
  <2>1. mem' \in [Addrs -> Values]
    BY <1>2 DEF Values
  <2> QED BY <1>a, <1>1, <1>2, <1>3, <2>1 DEF TargetOK, Live, opened
<1>5. HeldOK' /\ Grows
  BY <1>a, <1>1, <1>4, Watched, Constants DEF TargetOK, opened
<1>6. CacheOK' /\ FetchOK' /\ CallOK' /\ ScanOK' /\ AnswerOK'
  BY <1>a, <1>1, <1>5, KeepCache, KeepFetch, KeepCall, KeepScan, KeepAnswer DEF asking
<1> QED BY <1>4, <1>5, <1>6 DEF Inv

(***************************************************************************)
(* Reads and strings.                                                      *)
(***************************************************************************)
LEMMA StillTarget ==
  ASSUME TargetOK, HeldOK, UNCHANGED <<opened, target, modules, writable, held>>
  PROVE  TargetOK' /\ HeldOK' /\ Grows
<1>1. TargetOK'
  BY DEF TargetOK, Live, opened, target
<1>2. HeldOK'
  BY DEF HeldOK, Byte, Seen, Live, opened, target
<1>3. Grows
  BY DEF Grows
<1> QED BY <1>1, <1>2, <1>3

\* Nothing that is wanted has come yet.
LEMMA WantingTrue ==
  ASSUME NEW address \in Nat, NEW size \in Nat
  PROVE  FetchTrue(Wanting(address, size))
BY DEF FetchTrue, Wanting, BytesTrue

LEMMA ReadBegins ==
  ASSUME Inv, NEW r \in Reads, Read(r[1], r[2])
  PROVE  Inv'
<1>1. r[1] \in Nat /\ r[2] \in Nat
  BY CallsAssumption DEF CallsAssumption
<1>2. TargetOK' /\ HeldOK' /\ Grows
  BY StillTarget DEF Inv, Read
<1>3. CacheOK' /\ ScanOK' /\ AnswerOK'
  BY <1>2, KeepCache, KeepScan, NoAnswer DEF Inv, Read
<1>4. FetchOK'
  <2>1. FetchTrue(Wanting(r[1], r[2]))
    BY <1>1, WantingTrue
  <2>2. PICK f : f = Wanting(r[1], r[2])
    OBVIOUS
  <2>3. FetchTrue(f)' /\ fetch' = f
    BY <2>1, <2>2, <1>2, GrowsFetch DEF Read
  <2> QED BY <2>3 DEF FetchOK, FetchTrue, BytesTrue, Cut, Was
<1>5. CallOK'
  BY <1>1 DEF CallOK, Read, Asked, Wanting, Idle
<1> QED BY <1>2, <1>3, <1>4, <1>5 DEF Inv

LEMMA ReadGoesOn ==
  ASSUME FilesTrue, Inv, ReadPage
  PROVE  Inv'
<1>a. TargetOK /\ HeldOK /\ CacheOK /\ FetchTrue(fetch) /\ ~Done(fetch) /\ fetch # Nothing
  BY DEF Inv, FetchOK, ReadPage
<1>1. TargetOK' /\ HeldOK' /\ Grows
  BY StillTarget DEF Inv, ReadPage
<1>2. ScanOK' /\ AnswerOK'
  BY <1>1, KeepScan, KeepAnswer DEF Inv, ReadPage
<1>3. /\ CacheOK' /\ FetchTrue(fetch')
      /\ fetch'.address = fetch.address /\ fetch'.size = fetch.size
  <2>1. CASE Cached
    <3> DEFINE page == PageOf(fetch.address + Len(fetch.bytes))
               slots == FetchPage(cache, page)
    <3>1. cache' = slots /\ fetch' = FromPage(fetch, slots[SlotOf(page)].data)
      BY <2>1 DEF ReadPage
    <3>2. page \in Nat
      <4>1. fetch.address + Len(fetch.bytes) \in Nat
        BY <1>a DEF FetchTrue
      <4> QED BY <4>1, PageParts
    <3> HIDE DEF slots
    <3>3. /\ slots \in [0 .. Slots - 1 -> [tag : Nat \cup {NoPage}, data : Seq(Bytes)]]
          /\ \A slot \in 0 .. Slots - 1 :
               slots[slot].tag # NoPage => PageTrue(slots[slot].tag, slots[slot].data)
          /\ PageTrue(page, slots[SlotOf(page)].data)
      BY <1>a, <3>2, CacheFetched DEF slots
    <3>4. CacheOK'
      <4>1. ASSUME NEW slot \in 0 .. Slots - 1, cache'[slot].tag # NoPage
            PROVE  PageTrue(cache[slot].tag, cache[slot].data)'
        <5>1. PICK p, data : p = slots[slot].tag /\ data = slots[slot].data
          OBVIOUS
        <5>2. PageTrue(p, data)
          BY <3>1, <3>3, <4>1, <5>1
        <5>3. PageTrue(p, data)'
          BY <1>1, <5>2, GrowsPage
        <5>4. p = cache'[slot].tag /\ data = cache'[slot].data
          BY <3>1, <5>1
        <5> QED BY <5>3, <5>4 DEF PageTrue, Hole, Was
      <4> QED BY <3>1, <3>3, <4>1 DEF CacheOK
    <3>5. /\ FetchTrue(FromPage(fetch, slots[SlotOf(page)].data))
          /\ FromPage(fetch, slots[SlotOf(page)].data).address = fetch.address
          /\ FromPage(fetch, slots[SlotOf(page)].data).size = fetch.size
      BY <1>a, <3>3, FromPageTrue
    <3> QED BY <3>1, <3>4, <3>5
  <2>2. CASE ~Cached
    <3>1. /\ cache' = cache
          /\ fetch' = [fetch EXCEPT !.bytes = ProviderRead(fetch.address, fetch.size), !.over = TRUE]
      BY <2>2 DEF ReadPage
    <3>2. CacheOK'
      BY <1>a, <1>1, <3>1, KeepCache
    <3>3. FetchTrue(fetch')
      BY <1>a, <3>1, UncachedTrue
    <3>4. fetch'.address = fetch.address /\ fetch'.size = fetch.size
      BY <1>a, <3>1 DEF FetchTrue
    <3> QED BY <3>2, <3>3, <3>4
  <2> QED BY <2>1, <2>2
<1>4. FetchOK'
  <2>1. PICK f : f = fetch'
    OBVIOUS
  <2>2. FetchTrue(f)'
    BY <1>1, <1>3, <2>1, GrowsFetch
  <2> QED BY <2>1, <2>2 DEF FetchOK, FetchTrue, BytesTrue, Cut, Was
<1>5. CallOK'
  <2>1. call' = call /\ scan' = scan /\ held' = held
    BY DEF ReadPage
  <2>2. CallOK
    BY DEF Inv
  <2> QED BY <1>a, <1>3, <2>1, <2>2 DEF CallOK, BytesTrue, Was
<1> QED BY <1>1, <1>2, <1>3, <1>4, <1>5 DEF Inv

LEMMA ReadEnds ==
  ASSUME Inv, ReadReturns
  PROVE  Inv'
<1>1. TargetOK' /\ HeldOK' /\ Grows
  BY StillTarget DEF Inv, ReadReturns
<1>2. CacheOK' /\ ScanOK'
  BY <1>1, KeepCache, KeepScan DEF Inv, ReadReturns
<1>3. FetchOK' /\ CallOK'
  BY DEF ReadReturns, Answered, FetchOK, CallOK
<1>4. AnswerOK'
  <2>1. /\ call \in [op : {"read", "string"}, address : Nat, size : Nat, bytes : Seq(Bytes)]
        /\ call.op = "read" /\ fetch.address = call.address /\ fetch.size = call.size
        /\ FetchTrue(fetch) /\ Done(fetch) /\ answer' = [call EXCEPT !.bytes = fetch.bytes]
        /\ held' = held
    BY DEF Inv, CallOK, FetchOK, ReadReturns, Fetched, Answered
  <2>2. /\ fetch.bytes \in Seq(Bytes) /\ Len(fetch.bytes) <= fetch.size
        /\ Len(fetch.bytes) < fetch.size =>
             Cut(fetch.address + Len(fetch.bytes), fetch.address + fetch.size - 1)
        /\ \A k \in 1 .. Len(fetch.bytes) : fetch.bytes[k] \in Was(fetch.address + k - 1)
    BY <2>1 DEF FetchTrue, Done, BytesTrue
  <2>3. /\ answer'.op = "read" /\ answer'.address = fetch.address /\ answer'.size = fetch.size
        /\ answer'.bytes = fetch.bytes
        /\ answer' \in [op : {"read", "string"}, address : Nat, size : Nat, bytes : Seq(Bytes)]
    BY <2>1, <2>2
  <2>4. \A k \in 1 .. Len(fetch.bytes) : fetch.bytes[k] # Gone
    BY <2>2, Constants
  <2> QED BY <2>1, <2>2, <2>3, <2>4 DEF AnswerOK, ReadsAreOfTheirTime, Cut, Was
<1> QED BY <1>1, <1>2, <1>3, <1>4 DEF Inv

LEMMA UpToZeroIs ==
  ASSUME NEW bytes \in Seq(Bytes)
  PROVE  LET text == UpToZero(bytes) IN
         /\ text \in Seq(Bytes) /\ Len(text) <= Len(bytes)
         /\ \A k \in 1 .. Len(text) : text[k] = bytes[k] /\ text[k] # 0
         /\ Len(text) < Len(bytes) => bytes[Len(text) + 1] = 0
<1> DEFINE ends == {k \in DOMAIN bytes : bytes[k] = 0} \cup {Len(bytes) + 1}
           end == Min(ends)
           text == SubSeq(bytes, 1, end - 1)
<1>1. ends \subseteq Nat /\ Len(bytes) + 1 \in ends
  OBVIOUS
<1>2. end \in ends /\ \A k \in ends : end <= k
  BY <1>1, MinNat
<1> HIDE DEF end
<1>3. end \in 1 .. Len(bytes) + 1
  BY <1>2
<1>4. /\ text \in Seq(Bytes) /\ Len(text) = end - 1
      /\ \A k \in 1 .. end - 1 : text[k] = bytes[k]
  BY <1>3
<1>5. ASSUME NEW k \in 1 .. end - 1 PROVE bytes[k] # 0
  <2>1. k \in DOMAIN bytes /\ k \in Nat /\ ~(end <= k)
    BY <1>3
  <2>2. k \notin ends
    BY <1>2, <2>1
  <2> QED BY <2>1, <2>2
<1>6. end <= Len(bytes) => bytes[end] = 0
  BY <1>2, <1>3
<1>7. UpToZero(bytes) = text
  BY DEF UpToZero, end
<1> HIDE DEF text
<1> QED BY <1>3, <1>4, <1>5, <1>6, <1>7

\* The next piece of a string is there to be read, and no longer than what is left of it.
LEMMA ChunkIs ==
  ASSUME NEW address \in Nat, NEW most \in Nat, NEW text \in Seq(Bytes), Len(text) <= most
  PROVE  LET f == NextChunk(address, most, text) IN
         /\ FetchTrue(f) /\ f.address = address + Len(text)
         /\ f.size = Min({StringChunk, most - Len(text)})
         /\ f.size \in Nat /\ f.size <= most - Len(text)
<1> DEFINE left == most - Len(text)
           size == Min({StringChunk, left})
<1>1. left \in Nat /\ address + Len(text) \in Nat
  OBVIOUS
<1>2. size = IF StringChunk <= left THEN StringChunk ELSE left
  BY <1>1, Constants, MinOfTwo
<1> HIDE DEF left
<1>3. size \in Nat /\ size <= left
  BY <1>1, <1>2, Constants
<1>4. NextChunk(address, most, text) = Wanting(address + Len(text), size)
  BY DEF NextChunk, left
<1> HIDE DEF size
<1>5. FetchTrue(Wanting(address + Len(text), size))
  BY <1>1, <1>3, WantingTrue
<1>6. /\ Wanting(address + Len(text), size).address = address + Len(text)
      /\ Wanting(address + Len(text), size).size = size
  BY DEF Wanting
<1> QED BY <1>3, <1>4, <1>5, <1>6 DEF size, left

LEMMA StringBegins ==
  ASSUME Inv, NEW s \in Strings, ReadCString(s[1], s[2])
  PROVE  Inv'
<1>1. s[1] \in Nat /\ s[2] \in Nat
  BY CallsAssumption DEF CallsAssumption
<1>2. TargetOK' /\ HeldOK' /\ Grows
  BY StillTarget DEF Inv, ReadCString
<1>3. CacheOK' /\ ScanOK' /\ AnswerOK'
  BY <1>2, KeepCache, KeepScan, NoAnswer DEF Inv, ReadCString
<1>4. <<>> \in Seq(Bytes) /\ Len(<<>>) = 0
  OBVIOUS
<1>5. PICK f : f = NextChunk(s[1], s[2], <<>>)
  OBVIOUS
<1>6. /\ FetchTrue(f) /\ f.address = s[1] + Len(<<>>) /\ f.size = Min({StringChunk, s[2] - Len(<<>>)})
      /\ f.size \in Nat
  <2>1. PICK address, most, text : address = s[1] /\ most = s[2] /\ text = <<>>
    OBVIOUS
  <2>2. address \in Nat /\ most \in Nat /\ text \in Seq(Bytes) /\ Len(text) <= most
    BY <1>1, <1>4, <2>1
  <2>3. LET g == NextChunk(address, most, text) IN
         /\ FetchTrue(g) /\ g.address = address + Len(text)
         /\ g.size = Min({StringChunk, most - Len(text)})
         /\ g.size \in Nat /\ g.size <= most - Len(text)
    BY <2>2, ChunkIs
  <2> QED BY <2>1, <2>3, <1>5
<1>7. FetchOK'
  <2>1. FetchTrue(f)' /\ fetch' = f
    BY <1>2, <1>5, <1>6, GrowsFetch DEF ReadCString
  <2> QED BY <2>1 DEF FetchOK, FetchTrue, BytesTrue, Cut, Was
<1>8. CallOK'
  <2>1. /\ call' = [op |-> "string", address |-> s[1], size |-> s[2], bytes |-> <<>>]
        /\ fetch' = f /\ scan' = Nothing
    BY <1>5 DEF ReadCString, Asked, Idle
  <2>2. call' \in [op : {"read", "string"}, address : Nat, size : Nat, bytes : Seq(Bytes)]
    BY <1>1, <1>4, <2>1
  <2>3. call'.address = s[1] /\ call'.size = s[2] /\ call'.bytes = <<>> /\ call'.op = "string"
    BY <2>1
  <2> QED BY <1>1, <1>4, <1>6, <2>1, <2>2, <2>3 DEF CallOK, BytesTrue
<1> QED BY <1>2, <1>3, <1>7, <1>8 DEF Inv

LEMMA StringGoesOn ==
  ASSUME Inv, StringChunkRead
  PROVE  Inv'
<1> DEFINE chunk == UpToZero(fetch.bytes)
           old == Len(call.bytes)
           n == Len(chunk)
           text == call.bytes \o chunk
<1>1. TargetOK' /\ HeldOK' /\ Grows
  BY StillTarget DEF Inv, StringChunkRead
<1>2. CacheOK' /\ ScanOK'
  BY <1>1, KeepCache, KeepScan DEF Inv, StringChunkRead
<1>3. /\ call \in [op : {"read", "string"}, address : Nat, size : Nat, bytes : Seq(Bytes)]
      /\ call.op = "string" /\ call # Nothing /\ scan = Nothing /\ scan' = scan
      /\ old <= call.size /\ BytesTrue(call.address, call.bytes)
      /\ \A k \in 1 .. old : call.bytes[k] # 0
      /\ fetch.address = call.address + old /\ fetch.size = Min({StringChunk, call.size - old})
      /\ FetchTrue(fetch) /\ Done(fetch) /\ held' = held
  BY DEF Inv, CallOK, FetchOK, StringChunkRead, Fetched
<1>4. /\ fetch.bytes \in Seq(Bytes) /\ Len(fetch.bytes) <= fetch.size /\ Len(fetch.bytes) \in Nat
      /\ Len(fetch.bytes) < fetch.size =>
           Cut(fetch.address + Len(fetch.bytes), fetch.address + fetch.size - 1)
      /\ \A k \in 1 .. Len(fetch.bytes) : fetch.bytes[k] \in Was(fetch.address + k - 1)
      /\ fetch.address \in Nat /\ fetch.size \in Nat
  BY <1>3 DEF FetchTrue, Done, BytesTrue
<1>5. /\ chunk \in Seq(Bytes) /\ n <= Len(fetch.bytes) /\ n \in Nat
      /\ \A k \in 1 .. n : chunk[k] = fetch.bytes[k] /\ chunk[k] # 0
      /\ n < Len(fetch.bytes) => fetch.bytes[n + 1] = 0
  BY <1>4, UpToZeroIs
<1>6. fetch.size <= call.size - old /\ old \in Nat /\ call.size \in Nat /\ call.address \in Nat
  <2>1. call.size - old \in Int /\ old \in Nat /\ call.size \in Nat /\ call.address \in Nat
    BY <1>3
  <2>2. Min({StringChunk, call.size - old})
          = IF StringChunk <= call.size - old THEN StringChunk ELSE call.size - old
    BY <2>1, Constants, MinOfTwo
  <2> HIDE DEF old
  <2> QED BY <1>3, <2>1, <2>2, Constants
<1> HIDE DEF chunk
<1>7. /\ text \in Seq(Bytes) /\ Len(text) = old + n
      /\ \A k \in 1 .. old : text[k] = call.bytes[k]
      /\ \A k \in 1 .. n : text[old + k] = chunk[k]
  BY <1>3, <1>5
<1> HIDE DEF text, old, n
<1>8. Len(text) <= call.size
  BY <1>4, <1>5, <1>6, <1>7
<1>9. ASSUME NEW k \in 1 .. Len(text)
      PROVE  text[k] \in Was(call.address + k - 1) \ {Gone} /\ text[k] # 0
  <2>1. text[k] \in Bytes /\ text[k] # Gone
    BY <1>7, Constants
  <2>2. CASE k <= old
    <3>1. k \in 1 .. old
      BY <2>2, <1>6
    <3>2. text[k] = call.bytes[k]
      BY <3>1, <1>7
    <3> QED BY <2>1, <3>1, <3>2, <1>3 DEF BytesTrue, old
  <2>3. CASE k > old
    <3>0. k - old \in 1 .. n /\ k = old + (k - old)
      BY <2>3, <1>5, <1>6, <1>7
    <3>1. PICK j \in 1 .. n : k = old + j
      BY <3>0
    <3>2. text[k] = chunk[j]
      BY <3>1, <1>7
    <3>3. text[k] = fetch.bytes[j] /\ text[k] # 0
      BY <3>2, <1>5
    <3>6. j \in 1 .. Len(fetch.bytes)
      BY <1>4, <1>5
    <3>4. fetch.address + j - 1 = call.address + k - 1
      BY <3>1, <1>3, <1>6
    <3>5. fetch.bytes[j] \in Was(fetch.address + j - 1)
      BY <3>6, <1>4
    <3> QED BY <2>1, <3>3, <3>4, <3>5
  <2> QED BY <2>2, <2>3, <1>6, <1>7
<1>10. CASE /\ n < fetch.size \/ Len(text) = call.size
            /\ Answered(text)
  <2>1. FetchOK' /\ CallOK'
    BY <1>10 DEF Answered, FetchOK, CallOK
  <2>2. ASSUME Len(text) < call.size
        PROVE  \/ Cut(call.address + Len(text), call.address + call.size - 1)
               \/ 0 \in Was(call.address + Len(text))
    <3>1. n < fetch.size
      BY <1>10, <2>2, <1>7, <1>6, <1>5
    <3>2. call.address + Len(text) = fetch.address + n
      BY <1>3, <1>5, <1>6, <1>7
    <3>3. CASE n < Len(fetch.bytes)
      <4>1. n + 1 \in 1 .. Len(fetch.bytes) /\ fetch.address + (n + 1) - 1 = fetch.address + n
        BY <3>3, <1>4, <1>5
      <4>2. fetch.bytes[n + 1] \in Was(fetch.address + (n + 1) - 1)
        BY <4>1, <1>4
      <4> QED BY <3>2, <3>3, <4>1, <4>2, <1>5
    <3>4. CASE n = Len(fetch.bytes)
      <4> DEFINE a == fetch.address + n
                 b == fetch.address + fetch.size - 1
                 c == call.address + call.size - 1
      <4>1. Cut(a, b)
        BY <3>1, <3>4, <1>4
      <4>2. a \in Nat /\ b \in Nat /\ c \in Nat /\ a <= b /\ b <= c
        <5>1. PICK fa, fs, ca, cs : /\ fa = fetch.address /\ fs = fetch.size
                                    /\ ca = call.address /\ cs = call.size
          OBVIOUS
        <5>2. /\ fa \in Nat /\ fs \in Nat /\ ca \in Nat /\ cs \in Nat /\ n \in Nat /\ old \in Nat
              /\ n < fs /\ fa = ca + old /\ fs <= cs - old
          BY <5>1, <3>1, <1>3, <1>4, <1>5, <1>6
        <5> QED BY <5>1, <5>2
      <4> HIDE DEF a, b, c
      <4>3. Cut(a, c)
        BY <4>1, <4>2, CutFurther
      <4> QED BY <4>3, <3>2 DEF a, c
    <3> QED BY <3>3, <3>4, <1>4, <1>5
  <2>3. /\ answer' = [call EXCEPT !.bytes = text]
    BY <1>10 DEF Answered
  <2>4. /\ answer'.op = "string" /\ answer'.address = call.address /\ answer'.size = call.size
        /\ answer'.bytes = text
        /\ answer' \in [op : {"read", "string"}, address : Nat, size : Nat, bytes : Seq(Bytes)]
    BY <2>3, <1>3, <1>7
  <2>5. AnswerOK'
    BY <2>2, <2>4, <1>3, <1>9 DEF AnswerOK, ReadsAreOfTheirTime, Cut, Was
  <2> QED BY <2>1, <2>5, <1>1, <1>2 DEF Inv
<1>11. CASE /\ n = fetch.size /\ Len(text) < call.size
            /\ fetch' = NextChunk(call.address, call.size, text)
            /\ call' = [call EXCEPT !.bytes = text]
            /\ UNCHANGED answer
  <2>1. AnswerOK'
    BY <1>1, <1>11, KeepAnswer DEF Inv
  <2>2. PICK f : f = NextChunk(call.address, call.size, text)
    OBVIOUS
  <2>3. /\ FetchTrue(f) /\ f.address = call.address + Len(text)
        /\ f.size = Min({StringChunk, call.size - Len(text)}) /\ f.size \in Nat
    BY <2>2, <1>6, <1>7, <1>8, ChunkIs
  <2>4. FetchOK'
    <3>1. FetchTrue(f)' /\ fetch' = f
      BY <1>1, <1>11, <2>2, <2>3, GrowsFetch
    <3> QED BY <3>1 DEF FetchOK, FetchTrue, BytesTrue, Cut, Was
  <2>5. /\ call'.op = "string" /\ call'.address = call.address /\ call'.size = call.size
        /\ call'.bytes = text
        /\ call' \in [op : {"read", "string"}, address : Nat, size : Nat, bytes : Seq(Bytes)]
    BY <1>3, <1>7, <1>11
  <2>6. CallOK'
    BY <2>2, <2>3, <2>5, <1>3, <1>8, <1>9, <1>11 DEF CallOK, BytesTrue, Was
  <2> QED BY <2>1, <2>4, <2>6, <1>1, <1>2 DEF Inv
<1>12. \/ (n < fetch.size \/ Len(text) = call.size) /\ Answered(text)
       \/ /\ n = fetch.size /\ Len(text) < call.size
          /\ fetch' = NextChunk(call.address, call.size, text)
          /\ call' = [call EXCEPT !.bytes = text]
          /\ UNCHANGED answer
  BY DEF StringChunkRead, n, text, chunk
<1> QED BY <1>10, <1>11, <1>12

(***************************************************************************)
(* The other calls.                                                        *)
(***************************************************************************)
LEMMA CallsKeep ==
  ASSUME Inv, \/ \E enable \in BOOLEAN : EnableWrites(enable)
              \/ RescanModules
  PROVE  Inv'
<1>a. TargetOK /\ HeldOK /\ CacheOK /\ FetchOK /\ CallOK /\ ScanOK
  BY DEF Inv
<1>1. /\ UNCHANGED <<opened, target, cache, asking, held>> /\ answer' = Nothing /\ Live
      /\ writable' \in BOOLEAN /\ modules' \in {modules, <<source.module>>}
  BY <1>a DEF EnableWrites, RescanModules, TargetOK
<1>2. TargetOK'
  BY <1>a, <1>1 DEF TargetOK, Live, opened, target
<1>3. HeldOK' /\ Grows
  BY <1>a, <1>1 DEF HeldOK, Byte, Seen, Live, opened, target, Grows
<1> QED
  BY <1>a, <1>1, <1>2, <1>3, KeepCache, KeepFetch, KeepCall, KeepScan, NoAnswer DEF asking, Inv

LEMMA InvalidateKeeps ==
  ASSUME Inv, Invalidate
  PROVE  Inv'
<1>a. TargetOK /\ HeldOK
  BY DEF Inv
<1>1. /\ UNCHANGED <<opened, target, modules, writable, asking>> /\ answer' = Nothing
      /\ fetch = Nothing /\ call = Nothing /\ scan = Nothing
      /\ cache' = Empty /\ held' = [a \in Addrs |-> {Byte(a)}]
  BY DEF Invalidate, Idle
<1>2. TargetOK'
  BY <1>a, <1>1 DEF TargetOK, Live, opened, target
<1>3. HeldOK'
  <2>1. \A a \in Addrs : Byte(a) \in Values /\ Byte(a)' = Byte(a)
    BY <1>a, <1>1 DEF TargetOK, HeldOK, Byte, Seen, Live, Values, opened, target
  <2> QED BY <1>1, <2>1 DEF HeldOK
<1>4. CacheOK'
  BY <1>1 DEF CacheOK, Empty, Unused
<1>5. FetchOK' /\ CallOK' /\ ScanOK'
  BY <1>1 DEF FetchOK, CallOK, ScanOK, asking
<1> QED BY <1>1, <1>2, <1>3, <1>4, <1>5, NoAnswer DEF Inv

(***************************************************************************)
(* Writes.                                                                 *)
(***************************************************************************)
LEMMA StoredTyped ==
  ASSUME mem \in [Addrs -> Bytes], NEW address \in Nat, NEW bytes \in Seq(Bytes)
  PROVE  Stored(address, bytes) \in [Addrs -> Bytes]
<1>1. ASSUME NEW a \in Addrs, a \in address .. address + Len(bytes) - 1
      PROVE  bytes[a - address + 1] \in Bytes
  <2>1. a - address + 1 \in 1 .. Len(bytes)
    BY <1>1, AddrPages
  <2> QED BY <2>1
<1> QED BY <1>1 DEF Stored

\* A page nothing was written to is what it was.
LEMMA PageApart ==
  ASSUME NEW p \in Nat, NEW data, PageTrue(p, data),
         \A x \in Nat : PageOf(x) = p => Was(x) \subseteq Was(x)'
  PROVE  PageTrue(p, data)'
<1> DEFINE start == p * PageSize
<1>1. start \in Nat /\ \A k \in 0 .. PageSize - 1 : PageOf(start + k) = p
  BY InPage
<1>2. data \in Seq(Bytes) /\ Len(data) <= PageSize /\ Len(data) \in Nat /\ PageSize \in Nat
  BY Constants DEF PageTrue
<1>3. \A k \in 1 .. Len(data) : data[k] \in Was(start + k - 1)
  BY DEF PageTrue
<1>4. Len(data) < PageSize => Hole(p)
  BY DEF PageTrue
<1>5. ASSUME NEW x \in start .. start + PageSize - 1
      PROVE  Was(x) \subseteq Was(x)'
  <2>1. PICK k \in 0 .. PageSize - 1 : x = start + k
    <3>1. x - start \in 0 .. PageSize - 1 /\ x = start + (x - start)
      <4> HIDE DEF start
      <4> QED BY <1>1, <1>2
    <3> QED BY <3>1
  <2>2. x \in Nat /\ PageOf(x) = p
    <3> HIDE DEF start
    <3> QED BY <1>1, <2>1
  <2> QED BY <2>2
<1>6. Len(data) < PageSize => Hole(p)'
  BY <1>4, <1>5 DEF Hole
<1>7. ASSUME NEW k \in 1 .. Len(data) PROVE data[k] \in Was(start + k - 1)'
  <2>1. start + k - 1 \in start .. start + PageSize - 1
    <3> HIDE DEF start
    <3> QED BY <1>1, <1>2
  <2> QED BY <2>1, <1>3, <1>5
<1> QED BY <1>2, <1>6, <1>7 DEF PageTrue

LEMMA WriteKeeps ==
  ASSUME Inv, NEW w \in Writes, Write(w[1], w[2])
  PROVE  Inv'
<1> DEFINE address == w[1]
           bytes == w[2]
           len == Len(bytes)
           last == address + len - 1
           pages == PagesOf(address, len)
<1>a. TargetOK /\ HeldOK /\ CacheOK
  BY DEF Inv
<1>1. /\ fetch = Nothing /\ call = Nothing /\ scan = Nothing /\ writable
      /\ WriteLands(address, bytes) \/ WriteFails(address, bytes)
      /\ answer' = Nothing
      /\ UNCHANGED <<opened, modules, writable, asking, ticks>>
  BY DEF Write, Idle
<1>2. /\ address \in Nat /\ bytes \in Seq(Bytes) /\ len \in Nat /\ len > 0 /\ last \in Addrs
      /\ last \in Nat /\ address <= last
  <2>1. address \in Nat /\ bytes \in Seq(Bytes) /\ bytes # <<>> /\ last \in Addrs
    BY CallsAssumption DEF CallsAssumption
  <2> QED BY <2>1, AddrPages
<1>3. Live /\ mem \in [Addrs -> Bytes]
  BY <1>a, <1>1 DEF TargetOK
<1>4. FetchOK' /\ CallOK' /\ ScanOK' /\ AnswerOK'
  BY <1>1, NoAnswer DEF FetchOK, CallOK, ScanOK, asking
<1>5. CASE WriteFails(address, bytes)
  <2>1. /\ Watch /\ UNCHANGED <<protect, cache>>
        /\ \/ mem' = mem
           \/ \E n \in Nat : n <= len /\ mem' = Stored(address, SubSeq(bytes, 1, n))
    <3> DEFINE refused == {n \in 0 .. len - 1 : ~May("write", PageOf(address + n))} \cup {len}
               reach == Min(refused)
    <3>1. refused \subseteq Nat /\ len \in refused
      BY <1>2
    <3>2. reach \in refused /\ reach <= len
      BY <3>1, MinNat
    <3>3. reach \in Nat
      BY <3>1, <3>2
    <3>4. mem' = mem \/ mem' = Stored(address, SubSeq(bytes, 1, reach))
      BY <1>5 DEF WriteFails
    <3>5. Watch /\ UNCHANGED <<protect, cache>>
      BY <1>5 DEF WriteFails
    <3> HIDE DEF reach
    <3> QED BY <3>2, <3>3, <3>4, <3>5
  <2>2. mem' \in [Addrs -> Bytes]
    <3>1. CASE mem' = mem
      BY <1>3, <3>1
    <3>2. ASSUME NEW n \in Nat, n <= len, mem' = Stored(address, SubSeq(bytes, 1, n))
          PROVE  mem' \in [Addrs -> Bytes]
      <4>1. SubSeq(bytes, 1, n) \in Seq(Bytes)
        BY <1>2, <3>2
      <4> QED BY <1>2, <1>3, <3>2, <4>1, StoredTyped
    <3> QED BY <2>1, <3>1, <3>2
  <2>3. TargetOK'
    <3>1. mem' \in [Addrs -> Values]
      BY <2>2 DEF Values
    <3> QED BY <1>a, <1>1, <1>3, <2>1, <2>2, <3>1 DEF TargetOK, Live, opened
  <2>4. HeldOK' /\ Grows
    BY <1>a, <1>1, <2>1, <2>3, Watched, Constants DEF TargetOK, opened
  <2>5. CacheOK'
    BY <1>a, <2>1, <2>4, KeepCache
  <2> QED BY <1>4, <2>3, <2>4, <2>5 DEF Inv
<1>6. CASE WriteLands(address, bytes)
  <2>1. /\ \A p \in pages : Committed(p)
        /\ mem' = Stored(address, bytes)
        /\ protect' = protect \/ protect' = Restored(pages)
        /\ cache' = InvalidateRange(cache, address, len)
        /\ held' = [a \in Addrs |-> {Seen(mem', protect', a)} \cup
                                      IF a \in address .. last THEN {} ELSE held[a]]
    BY <1>6 DEF WriteLands
  <2>2. mem' \in [Addrs -> Bytes] /\ mem' \in [Addrs -> Values]
    BY <1>2, <1>3, <2>1, StoredTyped DEF Values
  <2>3. /\ pages = PageOf(address) .. PageOf(last)
        /\ PageOf(address) \in Nat /\ PageOf(last) \in Nat /\ PageOf(address) <= PageOf(last)
    BY <1>2, PageParts, PageMono DEF PagesOf
  <2>4. pages \subseteq Pages /\ Min(pages) \in pages
    <3>1. PageOf(last) \in Pages
      BY <1>2, AddrPages
    <3>2. \A p \in pages : p \in Nat /\ p <= PageOf(last)
      BY <2>3
    <3>3. \A p \in Nat : p <= PageOf(last) => p \in Pages
      <4>1. PageOf(Top) \in Nat
        BY Constants, PageParts
      <4>2. Pages = 0 .. PageOf(Top)
        BY DEF Pages, PageOf
      <4> QED BY <2>3, <3>1, <4>1, <4>2
    <3>4. pages \in SUBSET Nat /\ pages # {}
      BY <2>3
    <3> HIDE DEF pages
    <3> QED BY <3>2, <3>3, <3>4, MinNat
  <2> HIDE DEF pages
  <2>5. protect' \in [Pages -> Protections] /\ (source.kind = "internal" => protect'[0] = Free)
    <3>1. protect \in [Pages -> Protections] /\ (source.kind = "internal" => protect[0] = Free)
      BY <1>a DEF TargetOK
    <3>2. CASE protect' = protect
      BY <3>1, <3>2
    <3>3. CASE protect' = Restored(pages)
      <4>1. protect' \in [Pages -> Protections]
        BY <3>1, <3>3, <2>4 DEF Restored
      <4>2. source.kind = "internal" => 0 \notin pages
        BY <3>1, <2>1 DEF Committed
      <4> QED BY <3>1, <3>3, <4>1, <4>2, AddrPages DEF Restored
    <3> QED BY <2>1, <3>2, <3>3
  <2>6. TargetOK'
    BY <1>a, <1>1, <1>3, <2>2, <2>5 DEF TargetOK, Live, opened
  <2>7. HeldOK'
    <3>1. \A a \in Addrs : Seen(mem', protect', a) \in Values
      BY <2>2 DEF Seen, Values
    <3>2. held' \in [Addrs -> SUBSET Values]
      BY <1>a, <2>1, <3>1 DEF HeldOK
    <3>3. \A a \in Addrs : Byte(a)' \in held'[a]
      BY <1>1, <2>1 DEF Byte, Seen, Live, opened
    <3> QED BY <3>2, <3>3 DEF HeldOK
  <2>8. ASSUME NEW x \in Nat, PageOf(x) \notin pages
        PROVE  Was(x) \subseteq Was(x)'
    <3>1. x \notin address .. last
      <4>1. SUFFICES ASSUME address <= x, x <= last PROVE FALSE
        BY <1>2
      <4>2. PageOf(address) <= PageOf(x) /\ PageOf(x) <= PageOf(last) /\ PageOf(x) \in Nat
        BY <1>2, <4>1, PageMono, PageParts
      <4> QED BY <2>3, <2>8, <4>2
    <3> QED BY <2>1, <3>1 DEF Was
  <2>9. CacheOK'
    <3>1. DOMAIN cache = 0 .. Slots - 1
      BY <1>a DEF CacheOK
    <3>2. \A slot \in 0 .. Slots - 1 :
            cache'[slot] = IF cache[slot].tag \in pages THEN Unused ELSE cache[slot]
      BY <2>1, <3>1 DEF InvalidateRange, pages
    <3>3. cache' \in [0 .. Slots - 1 -> [tag : Nat \cup {NoPage}, data : Seq(Bytes)]]
      <4>1. Unused \in [tag : Nat \cup {NoPage}, data : Seq(Bytes)]
        BY DEF Unused
      <4> QED BY <1>a, <2>1, <3>1, <4>1 DEF InvalidateRange, CacheOK
    <3>4. ASSUME NEW slot \in 0 .. Slots - 1, cache'[slot].tag # NoPage
          PROVE  PageTrue(cache[slot].tag, cache[slot].data)'
      <4>1. PICK p, data : p = cache[slot].tag /\ data = cache[slot].data
        OBVIOUS
      <4>2. p \notin pages /\ p # NoPage /\ cache'[slot].tag = p /\ cache'[slot].data = data
        BY <3>2, <3>4, <4>1 DEF Unused
      <4>3. PageTrue(p, data) /\ p \in Nat
        BY <1>a, <4>1, <4>2 DEF CacheOK
      <4>4. \A x \in Nat : PageOf(x) = p => Was(x) \subseteq Was(x)'
        BY <2>8, <4>2
      <4>5. PageTrue(p, data)'
        BY <4>3, <4>4, PageApart
      <4> QED BY <4>2, <4>5 DEF PageTrue, Hole, Was
    <3> QED BY <3>3, <3>4 DEF CacheOK
  <2> QED BY <1>4, <2>6, <2>7, <2>9 DEF Inv
<1> QED BY <1>1, <1>5, <1>6

(***************************************************************************)
(* What a scan goes through, and what it finds in a piece of it.           *)
(***************************************************************************)
InOrder(seq) == \A i, j \in DOMAIN seq : i < j => seq[i] < seq[j]
Told(seq) == {seq[k] : k \in DOMAIN seq}

\* Numbers below some bound can be put in order.
CanBeOrdered(n) ==
  \A S \in SUBSET (0 .. n - 1) :
    IsFiniteSet(S) /\ \E seq \in [1 .. Cardinality(S) -> S] : Told(seq) = S /\ InOrder(seq)

LEMMA OneMore ==
  ASSUME NEW n \in Nat, CanBeOrdered(n)
  PROVE  CanBeOrdered(n + 1)
<1>1. SUFFICES ASSUME NEW S \in SUBSET (0 .. n)
               PROVE  /\ IsFiniteSet(S)
                      /\ \E seq \in [1 .. Cardinality(S) -> S] : Told(seq) = S /\ InOrder(seq)
  BY DEF CanBeOrdered
<1> DEFINE T == S \ {n}
<1>2. T \in SUBSET (0 .. n - 1)
  OBVIOUS
<1>3. IsFiniteSet(T)
  BY <1>2 DEF CanBeOrdered
<1>4. PICK seq \in [1 .. Cardinality(T) -> T] : Told(seq) = T /\ InOrder(seq)
  BY <1>2 DEF CanBeOrdered
<1>5. CASE n \notin S
  <2>1. S = T
    BY <1>5
  <2> QED BY <1>3, <1>4, <2>1
<1>6. CASE n \in S
  <2> DEFINE c == Cardinality(T)
             longer == [k \in 1 .. c + 1 |-> IF k = c + 1 THEN n ELSE seq[k]]
  <2>1. c \in Nat
    BY <1>3, FS_CardinalityType
  <2>2. S = T \cup {n} /\ n \notin T
    BY <1>6
  <2>3. IsFiniteSet(S) /\ Cardinality(S) = c + 1
    BY <1>3, <2>2, FS_AddElement
  <2>a. seq \in [1 .. c -> T]
    BY <1>4
  <2> HIDE DEF c
  <2>b. \A k \in 1 .. c : k \in 1 .. c + 1 /\ k # c + 1
    BY <2>1
  <2>c. \A k \in 1 .. c + 1 : k = c + 1 \/ k \in 1 .. c
    BY <2>1
  <2>4. \A k \in 1 .. c : longer[k] = seq[k] /\ seq[k] \in T
    BY <2>a, <2>b
  <2>5. longer[c + 1] = n
    BY <2>1
  <2>6. longer \in [1 .. c + 1 -> S]
    <3>1. \A k \in 1 .. c + 1 : (IF k = c + 1 THEN n ELSE seq[k]) \in S
      BY <2>2, <2>4, <2>c
    <3> QED BY <3>1
  <2>7. DOMAIN longer = 1 .. c + 1 /\ DOMAIN seq = 1 .. c
    BY <1>4 DEF c
  <2> HIDE DEF longer
  <2>8. Told(longer) = S
    <3>1. ASSUME NEW a \in S PROVE a \in Told(longer)
      <4>1. CASE a = n
        <5>1. c + 1 \in DOMAIN longer
          BY <2>1, <2>7
        <5> QED BY <4>1, <5>1, <2>5 DEF Told
      <4>2. CASE a # n
        <5>1. PICK k \in 1 .. c : seq[k] = a
          BY <4>2, <1>4, <2>7 DEF Told
        <5>2. k \in DOMAIN longer /\ longer[k] = a
          BY <5>1, <2>b, <2>4, <2>7
        <5> QED BY <5>2 DEF Told
      <4> QED BY <4>1, <4>2
    <3>2. Told(longer) \subseteq S
      BY <2>6, <2>7 DEF Told
    <3> QED BY <3>1, <3>2
  <2>9. InOrder(longer)
    <3>1. SUFFICES ASSUME NEW i \in 1 .. c + 1, NEW j \in 1 .. c + 1, i < j
                   PROVE  longer[i] < longer[j]
      BY <2>7 DEF InOrder
    <3>2. i \in 1 .. c
      BY <3>1, <2>1
    <3>3. CASE j = c + 1
      <4>1. longer[i] \in 0 .. n - 1 /\ longer[j] = n
        BY <3>2, <3>3, <2>4, <2>5, <1>2
      <4> QED BY <4>1
    <3>4. CASE j # c + 1
      <4>1. j \in 1 .. c
        BY <3>4, <2>1
      <4> QED BY <3>1, <3>2, <4>1, <1>4, <2>4, <2>7 DEF InOrder
    <3> QED BY <3>3, <3>4
  <2> QED BY <2>3, <2>6, <2>8, <2>9
<1> QED BY <1>5, <1>6

LEMMA AllCanBeOrdered == \A n \in Nat : CanBeOrdered(n)
<1> DEFINE bad == {n \in Nat : ~CanBeOrdered(n)}
<1>1. SUFFICES ASSUME bad # {} PROVE FALSE
  OBVIOUS
<1> DEFINE m == Min(bad)
<1>2. m \in bad /\ \A n \in bad : m <= n
  BY <1>1, MinNat
<1>3. m \in Nat /\ ~CanBeOrdered(m)
  BY <1>2
<1> HIDE DEF m
<1>4. CASE m = 0
  <2>1. SUFFICES CanBeOrdered(0)
    BY <1>3, <1>4
  <2>2. SUFFICES ASSUME NEW S \in SUBSET (0 .. 0 - 1)
                 PROVE  /\ IsFiniteSet(S)
                        /\ \E seq \in [1 .. Cardinality(S) -> S] : Told(seq) = S /\ InOrder(seq)
    BY DEF CanBeOrdered
  <2>3. S = {}
    OBVIOUS
  <2>4. IsFiniteSet(S) /\ Cardinality(S) = 0
    BY <2>3, FS_EmptySet
  <2> DEFINE none == [k \in 1 .. 0 |-> 0]
  <2>5. none \in [1 .. Cardinality(S) -> S]
    BY <2>3, <2>4
  <2>6. Told(none) = S /\ InOrder(none)
    BY <2>3 DEF Told, InOrder
  <2> QED BY <2>4, <2>5, <2>6
<1>5. CASE m # 0
  <2>1. m - 1 \in Nat /\ m = (m - 1) + 1
    BY <1>3, <1>5
  <2>2. CanBeOrdered(m - 1)
    <3>1. m - 1 \notin bad
      <4>1. m - 1 \in bad => m <= m - 1
        BY <1>2
      <4> QED BY <2>1, <4>1
    <3> QED BY <2>1, <3>1
  <2>3. CanBeOrdered((m - 1) + 1)
    BY <2>1, <2>2, OneMore
  <2> QED BY <1>3, <2>1, <2>3
<1> QED BY <1>4, <1>5

LEMMA AscendingIs ==
  ASSUME NEW n \in Nat, NEW S \in SUBSET (0 .. n)
  PROVE  LET seq == Ascending(S) IN
         Cardinality(S) \in Nat /\ seq \in [1 .. Cardinality(S) -> S] /\ Told(seq) = S /\ InOrder(seq)
<1>1. S \in SUBSET (0 .. (n + 1) - 1)
  OBVIOUS
<1>2. IsFiniteSet(S) /\ \E seq \in [1 .. Cardinality(S) -> S] : Told(seq) = S /\ InOrder(seq)
  <2>1. PICK m \in Nat : m = n + 1
    OBVIOUS
  <2>2. CanBeOrdered(m) /\ S \in SUBSET (0 .. m - 1)
    BY <1>1, <2>1, AllCanBeOrdered
  <2> QED BY <2>2 DEF CanBeOrdered
<1>3. Cardinality(S) \in Nat
  BY <1>2, FS_CardinalityType
<1> QED BY <1>2, <1>3 DEF Ascending, Told, InOrder

\* What is found in a piece of memory is every place that matches, in order.
LEMMA MatchesInIs ==
  ASSUME NEW pattern \in Seq({AnyByte} \cup Bytes), ParsesTo(pattern), NEW data \in Seq(Bytes)
  PROVE  LET hits == MatchesIn(pattern, data) IN
         /\ hits \in Seq(Nat) /\ InOrder(hits)
         /\ Told(hits) = {at \in 0 .. Len(data) - Len(pattern) : MatchesAt(pattern, data, at)}
<1> DEFINE first == Min(FixedAt(pattern))
           found == {at \in Candidates(pattern, data) : MatchesAt(pattern, data, at)}
<1>1. FixedAt(pattern) \subseteq Nat /\ FixedAt(pattern) # {}
  BY DEF FixedAt, ParsesTo
<1>2. first \in FixedAt(pattern)
  BY <1>1, MinNat
<1>3. found = {at \in 0 .. Len(data) - Len(pattern) : MatchesAt(pattern, data, at)}
  BY <1>2 DEF Candidates, MatchesAt
<1>4. found \in SUBSET (0 .. Len(data))
  BY <1>3
<1> HIDE DEF found
<1>5. LET seq == Ascending(found) IN
        /\ Cardinality(found) \in Nat /\ seq \in [1 .. Cardinality(found) -> found]
        /\ Told(seq) = found /\ InOrder(seq)
  <2>1. PICK n \in Nat : n = Len(data)
    OBVIOUS
  <2>2. PICK S \in SUBSET (0 .. n) : S = found
    BY <1>4, <2>1
  <2>3. LET seq == Ascending(S) IN
          /\ Cardinality(S) \in Nat /\ seq \in [1 .. Cardinality(S) -> S]
          /\ Told(seq) = S /\ InOrder(seq)
    BY AscendingIs
  <2> QED BY <2>2, <2>3
<1>6. Ascending(found) \in Seq(Nat)
  <2>1. \A a \in found : a \in Nat
    BY <1>4
  <2> QED BY <1>5, <2>1
<1>7. MatchesIn(pattern, data) = Ascending(found)
  BY DEF MatchesIn, found
<1> QED BY <1>3, <1>5, <1>6, <1>7

(***************************************************************************)
(* Scans.                                                                  *)
(***************************************************************************)
LEMMA MemberOf ==
  ASSUME NEW S, NEW seq \in Seq(S), NEW k \in DOMAIN seq
  PROVE  seq[k] \in S
OBVIOUS

LEMMA IsSequence ==
  ASSUME NEW S, NEW n \in Nat, NEW f \in [1 .. n -> S]
  PROVE  f \in Seq(S)
OBVIOUS

LEMMA MaxOfTwo ==
  ASSUME NEW a \in Int, NEW b \in Int
  PROVE  Max({a, b}) = IF a >= b THEN a ELSE b
BY DEF Max

\* What of a region is in a module.
LEMMA ClippedIs ==
  ASSUME NEW region, region.base \in Nat, region.size \in Nat,
         NEW module, module.base \in Nat, module.size \in Nat
  PROVE  LET range == Clipped(region, module) IN
         /\ range \in [base : Nat, size : Nat]
         /\ range.base >= region.base
         /\ range.size > 0 => range.base + range.size <= region.base + region.size
<1> DEFINE lo == Max({region.base, module.base})
           ends == region.base + region.size
           endm == module.base + module.size
           hi == Min({ends, endm})
           size == Max({0, hi - lo})
<1>1. ends \in Nat /\ endm \in Nat
  OBVIOUS
<1>2. lo = IF region.base >= module.base THEN region.base ELSE module.base
  BY MaxOfTwo
<1>3. hi = IF ends <= endm THEN ends ELSE endm
  BY <1>1, MinOfTwo
<1> HIDE DEF hi, lo
<1>4. lo \in Nat /\ hi \in Nat /\ lo >= region.base /\ hi <= ends
  BY <1>1, <1>2, <1>3
<1>5. size = IF 0 >= hi - lo THEN 0 ELSE hi - lo
  BY <1>4, MaxOfTwo
<1> HIDE DEF size
<1>6. size \in Nat /\ (size > 0 => lo + size <= ends)
  BY <1>1, <1>4, <1>5
<1>7. Clipped(region, module) = [base |-> lo, size |-> size]
  BY DEF Clipped, lo, hi, size
<1> QED BY <1>4, <1>6, <1>7

RowsApart(rows) == \A j, k \in DOMAIN rows : j < k => rows[j].base + rows[j].size <= rows[k].base

\* The ranges a scan goes through: in order, apart, and what it has to look in.
LEMMA RowsAre ==
  ASSUME TargetOK, NEW s, s.known \in {<<>>, <<source.module>>}
  PROVE  LET rows == BuildRanges(regions, s.known, s.options) IN
         /\ rows \in Rows /\ RowsApart(rows)
         /\ \A k \in DOMAIN rows : rows[k] \in Looked(s)
         /\ \A range \in Looked(s) : range.size > 0 => \E k \in DOMAIN rows : rows[k] = range
<1> DEFINE whole == s.options.whole_process
           rangeOf(region) == IF whole THEN WholeOf(region) ELSE Clipped(region, s.known[1])
           wanted == {k \in DOMAIN regions : /\ Wanted(regions[k], s.options)
                                             /\ rangeOf(regions[k]).size > 0}
           kept == Ascending(wanted)
           rows == BuildRanges(regions, s.known, s.options)
<1>1. /\ regions \in Seq([base : Nat, size : Nat, protect : SUBSET Flags])
      /\ \A j, k \in DOMAIN regions : j < k => regions[j].base + regions[j].size <= regions[k].base
      /\ source.module.base \in Nat /\ source.module.size \in Nat
  <2>1. source \in Sources /\ Opens(source) /\ regions = RegionsOf(source)
    BY DEF TargetOK
  <2>2. source.module \in [base : Nat, size : Nat]
    BY <2>1, TargetAssumption DEF TargetAssumption
  <2> QED BY <2>1, <2>2, RegionsAssumption DEF RegionsAssumption
<1>2. CASE ~whole /\ s.known = <<>>
  <2>1. rows = <<>>
    BY <1>2 DEF BuildRanges
  <2>2. Looked(s) = {}
    BY <1>2 DEF Looked
  <2>3. <<>> \in Rows /\ RowsApart(<<>>)
    BY DEF Rows, RowsApart
  <2> QED BY <2>1, <2>2, <2>3
<1>3. CASE whole \/ s.known # <<>>
  <2>1. ASSUME NEW k \in DOMAIN regions
        PROVE  regions[k].base \in Nat /\ regions[k].size \in Nat
    <3>1. regions[k] \in [base : Nat, size : Nat, protect : SUBSET Flags]
      BY <1>1, MemberOf
    <3> QED BY <3>1
  <2>2. /\ rows = [j \in DOMAIN kept |-> rangeOf(regions[kept[j]])]
    BY <1>3 DEF BuildRanges
  <2>3. /\ ~whole => s.known[1] = source.module
        /\ Looked(s) = {rangeOf(regions[k]) :
                          k \in {j \in DOMAIN regions : LookedIn(regions[j], s.options)}}
    <3>1. ~whole => s.known[1] = source.module
      BY <1>3
    <3> QED BY <1>3, <3>1 DEF Looked
  <2>4. ASSUME NEW k \in DOMAIN regions
        PROVE  /\ rangeOf(regions[k]) \in [base : Nat, size : Nat]
               /\ rangeOf(regions[k]).base >= regions[k].base
               /\ rangeOf(regions[k]).size > 0 =>
                    rangeOf(regions[k]).base + rangeOf(regions[k]).size
                      <= regions[k].base + regions[k].size
    <3>1. CASE whole
      BY <2>1, <3>1 DEF WholeOf
    <3>2. CASE ~whole
      BY <1>1, <2>1, <2>3, <3>2, ClippedIs
    <3> QED BY <3>1, <3>2
  <2>5. wanted \in SUBSET (0 .. Len(regions)) /\ Len(regions) \in Nat
    BY <1>1
  <2>w. wanted = {k \in DOMAIN regions : /\ LookedIn(regions[k], s.options)
                                         /\ rangeOf(regions[k]).size > 0}
    BY DEF Wanted, LookedIn
  <2> HIDE DEF rangeOf, wanted, rows
  <2>6. Cardinality(wanted) \in Nat /\ kept \in [1 .. Cardinality(wanted) -> wanted]
        /\ Told(kept) = wanted /\ InOrder(kept)
    <3>1. PICK n \in Nat : n = Len(regions)
      BY <2>5
    <3>2. PICK S \in SUBSET (0 .. n) : S = wanted
      BY <2>5, <3>1
    <3>3. LET seq == Ascending(S) IN
            /\ Cardinality(S) \in Nat /\ seq \in [1 .. Cardinality(S) -> S]
            /\ Told(seq) = S /\ InOrder(seq)
      BY AscendingIs
    <3> QED BY <3>2, <3>3
  <2> HIDE DEF kept
  <2>7. \A j \in DOMAIN kept : kept[j] \in wanted /\ kept[j] \in DOMAIN regions
    BY <2>6, <2>w
  <2>8. \A j \in DOMAIN rows : /\ rows[j] = rangeOf(regions[kept[j]]) /\ j \in DOMAIN kept
                               /\ rows[j] \in [base : Nat, size : Nat \ {0}]
    <3>1. SUFFICES ASSUME NEW j \in DOMAIN kept
                   PROVE  rangeOf(regions[kept[j]]) \in [base : Nat, size : Nat \ {0}]
      BY <2>2
    <3>2. rangeOf(regions[kept[j]]) \in [base : Nat, size : Nat] /\ rangeOf(regions[kept[j]]).size > 0
      BY <2>4, <2>7, <2>w
    <3> QED BY <3>2
  <2>9. rows \in Rows
    <3>1. rows \in [1 .. Cardinality(wanted) -> [base : Nat, size : Nat \ {0}]]
      BY <2>2, <2>6, <2>8
    <3>2. PICK n \in Nat : n = Cardinality(wanted)
      BY <2>6
    <3>3. PICK f \in [1 .. n -> [base : Nat, size : Nat \ {0}]] : f = rows
      BY <3>1, <3>2
    <3> QED BY <3>3, IsSequence DEF Rows
  <2>10. RowsApart(rows)
    <3>1. SUFFICES ASSUME NEW i \in DOMAIN rows, NEW j \in DOMAIN rows, i < j
                   PROVE  rows[i].base + rows[i].size <= rows[j].base
      BY DEF RowsApart
    <3>2. PICK a \in DOMAIN regions, b \in DOMAIN regions : a = kept[i] /\ b = kept[j]
      BY <2>7, <2>8
    <3>3. a < b
      BY <2>6, <2>8, <3>1, <3>2 DEF InOrder
    <3>4. /\ rows[i].base \in Nat /\ rows[i].size \in Nat /\ rows[j].base \in Nat
          /\ rows[i].base + rows[i].size <= regions[a].base + regions[a].size
          /\ regions[b].base <= rows[j].base
      <4>1. rows[i] = rangeOf(regions[a]) /\ rows[j] = rangeOf(regions[b])
        BY <2>8, <3>2
      <4>2. /\ rows[i] \in [base : Nat, size : Nat \ {0}]
            /\ rows[j] \in [base : Nat, size : Nat \ {0}]
        BY <2>8
      <4>3. rows[i].size > 0
        BY <4>2
      <4> QED BY <2>4, <4>1, <4>2, <4>3
    <3>5. regions[a].base + regions[a].size <= regions[b].base
      BY <1>1, <3>3
    <3>6. regions[a].base \in Nat /\ regions[a].size \in Nat /\ regions[b].base \in Nat
      BY <2>1
    <3> QED BY <3>4, <3>5, <3>6
  <2>11. \A k \in DOMAIN rows : rows[k] \in Looked(s)
    BY <2>3, <2>7, <2>8, <2>w
  <2>12. ASSUME NEW range \in Looked(s), range.size > 0
         PROVE  \E k \in DOMAIN rows : rows[k] = range
    <3>1. PICK k \in DOMAIN regions : LookedIn(regions[k], s.options) /\ range = rangeOf(regions[k])
      BY <2>3
    <3>2. k \in wanted
      BY <2>12, <2>w, <3>1
    <3>3. PICK j \in DOMAIN kept : kept[j] = k
      BY <2>6, <3>2 DEF Told
    <3> QED BY <2>2, <3>1, <3>3
  <2> QED BY <2>9, <2>10, <2>11, <2>12 DEF rows
<1> QED BY <1>2, <1>3

LEMMA FirstAndRest ==
  ASSUME NEW S, NEW seq \in Seq(S), seq # <<>>
  PROVE  Head(seq) \in S /\ Tail(seq) \in Seq(S)
OBVIOUS

LEMMA FirstRow ==
  ASSUME NEW rows \in Rows, rows # <<>>
  PROVE  /\ Head(rows).base \in Nat /\ Head(rows).size \in Nat /\ Head(rows).size > 0
         /\ Tail(rows) \in Rows
<1>1. Head(rows) \in [base : Nat, size : Nat \ {0}] /\ Tail(rows) \in Rows
  BY FirstAndRest DEF Rows
<1> QED BY <1>1

LEMMA ScanBegins ==
  ASSUME Inv, NEW s \in Scans, BeginScan(s[1], s[2])
  PROVE  Inv'
<1>1. TargetOK' /\ HeldOK' /\ Grows
  BY StillTarget DEF Inv, BeginScan
<1>2. CacheOK' /\ FetchOK' /\ AnswerOK'
  BY <1>1, KeepCache, KeepFetch, NoAnswer DEF Inv, BeginScan
<1>3. CallOK'
  BY DEF BeginScan, Idle, CallOK
<1>4. BuildRanges(regions, modules, s[2]) \in Rows
  <2>1. TargetOK /\ modules \in {<<>>, <<source.module>>}
    BY DEF Inv, TargetOK
  <2>2. PICK t : t = [known |-> modules, options |-> s[2]]
    OBVIOUS
  <2>3. t.known \in {<<>>, <<source.module>>} /\ t.known = modules /\ t.options = s[2]
    BY <2>1, <2>2
  <2>4. LET rows == BuildRanges(regions, t.known, t.options) IN rows \in Rows
    BY <2>1, <2>3, RowsAre
  <2> QED BY <2>3, <2>4
<1>5. s[1] \in Seq({AnyByte} \cup Bytes) /\ Len(s[1]) > 0
  <2>1. s[1] \in Seq({AnyByte} \cup Bytes) /\ FixedAt(s[1]) # {}
    BY MemoryAssumption DEF MemoryAssumption, ParsesTo
  <2> QED BY <2>1 DEF FixedAt
<1> DEFINE rows == BuildRanges(regions, modules, s[2])
<1>6. scan' = [pattern |-> s[1], options |-> s[2], known |-> modules,
               ranges |-> rows, offset |-> 0, hits |-> <<>>]
  BY DEF BeginScan
<1> HIDE DEF rows
<1>7. rows \in Rows
  BY <1>4 DEF rows
<1>8. rows # <<>> => 0 < Head(rows).size
  BY <1>7, FirstRow
<1>9. ScanOK'
  BY <1>5, <1>6, <1>7, <1>8 DEF ScanOK
<1> QED BY <1>1, <1>2, <1>3, <1>9 DEF Inv

LEMMA ChunkBegins ==
  ASSUME Inv, ReadChunk
  PROVE  Inv'
<1>1. TargetOK' /\ HeldOK' /\ Grows
  BY StillTarget DEF Inv, ReadChunk
<1>2. CacheOK' /\ ScanOK' /\ AnswerOK'
  BY <1>1, KeepCache, KeepScan, KeepAnswer DEF Inv, ReadChunk
<1>3. CallOK'
  BY DEF Inv, ReadChunk, CallOK
<1>4. FetchOK'
  <2> DEFINE range == Head(scan.ranges)
             want == ChunkSize + Overlap(scan.pattern)
             left == range.size - scan.offset
             size == Min({want, left})
  <2>1. /\ scan.ranges \in Rows /\ scan.ranges # <<>> /\ scan.offset \in Nat /\ scan.offset < range.size
        /\ scan.pattern \in Seq({AnyByte} \cup Bytes) /\ Len(scan.pattern) > 0
    BY DEF Inv, ScanOK, ReadChunk, Over
  <2>2. range.base \in Nat /\ range.size \in Nat
    BY <2>1, FirstRow
  <2>3. want \in Nat /\ left \in Nat
    BY <2>1, <2>2, Constants DEF Overlap
  <2>4. size \in Nat
    BY <2>3, MinOfTwo
  <2>5. PICK f : f = Wanting(range.base + scan.offset, size)
    OBVIOUS
  <2>6. range.base + scan.offset \in Nat
    BY <2>1, <2>2
  <2>7. fetch' = f
    BY <2>5 DEF ReadChunk
  <2> HIDE DEF size
  <2>8. FetchTrue(f)
    BY <2>4, <2>5, <2>6, WantingTrue
  <2>9. FetchTrue(f)'
    BY <1>1, <2>8, GrowsFetch
  <2> QED BY <2>7, <2>9 DEF FetchOK, FetchTrue, BytesTrue, Cut, Was
<1> QED BY <1>1, <1>2, <1>3, <1>4 DEF Inv

LEMMA ChunkScanned ==
  ASSUME Inv, ScanChunk
  PROVE  Inv'
<1>1. TargetOK' /\ HeldOK' /\ Grows
  BY StillTarget DEF Inv, ScanChunk
<1>2. CacheOK' /\ AnswerOK'
  BY <1>1, KeepCache, KeepAnswer DEF Inv, ScanChunk
<1>3. FetchOK' /\ CallOK'
  BY DEF Inv, ScanChunk, FetchOK, CallOK
<1> DEFINE range == Head(scan.ranges)
           got == Len(fetch.bytes)
           next == Advance(got, fetch.size)
<1>4. /\ DOMAIN scan = {"pattern", "options", "known", "ranges", "offset", "hits"}
      /\ scan.ranges \in Rows /\ scan.ranges # <<>> /\ scan.offset \in Nat
      /\ scan.pattern \in Seq({AnyByte} \cup Bytes) /\ Len(scan.pattern) > 0
  BY DEF Inv, ScanOK, ScanChunk, Over
<1>5. range.size \in Nat /\ Tail(scan.ranges) \in Rows
      /\ (Tail(scan.ranges) # <<>> => 0 < Head(Tail(scan.ranges)).size)
  BY <1>4, FirstRow
<1>6. got \in Nat /\ fetch.size \in Nat
  BY DEF Inv, FetchOK, ScanChunk, Fetched, FetchTrue
<1>7. next \in Nat
  <2> DEFINE size == Len(scan.pattern)
  <2>1. size \in Nat
    BY <1>4
  <2> HIDE DEF got
  <2> QED BY <1>4, <1>5, <1>6, <2>1, Constants DEF Advance, Overlap
<1> HIDE DEF next
<1>8. /\ DOMAIN scan' = DOMAIN scan /\ scan'.pattern = scan.pattern
      /\ scan'.ranges = IF next >= range.size THEN Tail(scan.ranges) ELSE scan.ranges
      /\ scan'.offset = IF next >= range.size THEN 0 ELSE next
  BY <1>4 DEF ScanChunk, next
<1>9. ScanOK'
  BY <1>4, <1>5, <1>7, <1>8 DEF ScanOK
<1> QED BY <1>1, <1>2, <1>3, <1>9 DEF Inv

LEMMA ScanStops ==
  ASSUME Inv, ScanEnds
  PROVE  Inv'
<1>1. TargetOK' /\ HeldOK' /\ Grows
  BY StillTarget DEF Inv, ScanEnds
<1>2. CacheOK' /\ FetchOK'
  BY <1>1, KeepCache, KeepFetch DEF Inv, ScanEnds
<1>3. CallOK' /\ ScanOK'
  BY DEF Inv, ScanEnds, CallOK, ScanOK
<1>4. AnswerOK'
  <2>1. answer'.op = "scan"
    BY DEF ScanEnds
  <2> QED BY <2>1 DEF AnswerOK, ReadsAreOfTheirTime
<1> QED BY <1>1, <1>2, <1>3, <1>4 DEF Inv

(***************************************************************************)
(* The theorems.                                                           *)
(***************************************************************************)
LEMMA Starts ==
  ASSUME Init
  PROVE  Inv
<1>1. /\ source \in Sources /\ Opens(source) /\ mem = source.bytes /\ protect = source.protect
      /\ cache = Empty /\ fetch = Nothing /\ call = Nothing /\ scan = Nothing /\ answer = Nothing
      /\ held = [a \in Addrs |-> {Byte(a)}] /\ writable = FALSE
      /\ regions = RegionsOf(source)
  BY DEF Init
<1>2. /\ source.kind \in {"external", "internal", "dump", "image"}
      /\ source.protect \in [Pages -> Protections]
      /\ source.bytes \in [Addrs -> Values]
      /\ source.kind \in {"external", "internal"} => source.bytes \in [Addrs -> Bytes]
      /\ source.kind = "internal" => source.protect[0] = Free
  BY <1>1, TargetAssumption DEF TargetAssumption, Protections, Values
<1>3. TargetOK
  <2>1. source.kind = "dump" => ranges = Ranges(source.file)
    BY DEF Init
  <2>2. modules \in {<<>>, <<source.module>>}
    BY DEF Init
  <2> QED BY <1>1, <1>2, <2>1, <2>2 DEF TargetOK, Live
<1>4. HeldOK
  <2>1. \A a \in Addrs : Byte(a) \in Values
    BY <1>1, <1>2 DEF Byte, Seen, Values
  <2> QED BY <1>1, <2>1 DEF HeldOK
<1>5. CacheOK
  BY <1>1 DEF CacheOK, Empty, Unused
<1> QED BY <1>1, <1>3, <1>4, <1>5 DEF Inv, FetchOK, CallOK, ScanOK, AnswerOK, ReadsAreOfTheirTime

LEMMA Stutters ==
  ASSUME Inv, UNCHANGED vars
  PROVE  Inv'
<1>1. UNCHANGED <<opened, target, modules, writable, cache, asking, answer, held>>
  BY DEF vars
<1>2. TargetOK' /\ HeldOK' /\ Grows
  BY <1>1, StillTarget DEF Inv
<1> QED
  BY <1>1, <1>2, KeepCache, KeepFetch, KeepCall, KeepScan, KeepAnswer DEF Inv, asking

LEMMA Steps ==
  ASSUME FilesTrue, Inv, Next
  PROVE  Inv'
<1>1. CASE \/ \E a \in Addrs, byte \in Pokes : GameWrites(a, byte)
           \/ \E p \in Pages : GameFrees(p) \/ GameMaps(p)
  BY <1>1, GameMoves
<1>2. CASE \E r \in Reads : Read(r[1], r[2])
  BY <1>2, ReadBegins
<1>3. CASE \E s \in Strings : ReadCString(s[1], s[2])
  BY <1>3, StringBegins
<1>4. CASE ReadPage \/ ReadReturns \/ StringChunkRead
  BY <1>4, ReadGoesOn, ReadEnds, StringGoesOn
<1>5. CASE (\E enable \in BOOLEAN : EnableWrites(enable)) \/ RescanModules
  BY <1>5, CallsKeep
<1>6. CASE Invalidate
  BY <1>6, InvalidateKeeps
<1>7. CASE \E w \in Writes : Write(w[1], w[2])
  BY <1>7, WriteKeeps
<1>8. CASE \E s \in Scans : BeginScan(s[1], s[2])
  BY <1>8, ScanBegins
<1>9. CASE ReadChunk \/ ScanChunk \/ ScanEnds
  BY <1>9, ChunkBegins, ChunkScanned, ScanStops
<1> QED BY <1>1, <1>2, <1>3, <1>4, <1>5, <1>6, <1>7, <1>8, <1>9 DEF Next

\* Of a target of any size, whatever it does between two pages of a read and whatever
\* was asked before: what comes back was there since the cache was last emptied, one's
\* own writes are in it, and a byte is missing only where one on the way could not be
\* read (MemorySource.h:20-34, CachedMemorySource.cpp:45-69).
THEOREM ReadsTrue ==
  ASSUME FilesTrue
  PROVE  Spec => []ReadsAreOfTheirTime
<1>1. Init => Inv
  BY Starts
<1>2. Inv /\ [Next]_vars => Inv'
  BY Steps, Stutters
<1>3. Inv => ReadsAreOfTheirTime
  BY DEF Inv, AnswerOK
<1> QED BY <1>1, <1>2, <1>3, PTL DEF Spec

\* A slot of the cache holds what its page held since the cache was last emptied, up to
\* a byte that could not be read: no write of one's own leaves an older one there, no
\* page lands in the wrong slot (CachedMemorySource.cpp:19-43, 71-90).
THEOREM CacheTrue ==
  ASSUME FilesTrue
  PROVE  Spec => []CacheOK
<1>1. Init => Inv
  BY Starts
<1>2. Inv /\ [Next]_vars => Inv'
  BY Steps, Stutters
<1>3. Inv => CacheOK
  BY DEF Inv
<1> QED BY <1>1, <1>2, <1>3, PTL DEF Spec

(***************************************************************************)
(* A scan tells of all there is.                                           *)
(***************************************************************************)

\* From row n on; what there is still to look at, from an offset in the first row.
From(rows, n) == SubSeq(rows, n + 1, Len(rows))
Place(rest, offset, a) == rest # <<>> /\ a >= Head(rest).base + offset

\* A match that has been there all the time is told, or it is still to come, or as many
\* as were asked for come before it.
Enough(s) == Cap(s.options) > 0 /\ Len(s.hits) >= Cap(s.options)
Reached(s, a) ==
  \/ a \in Told(s.hits) \/ Place(s.ranges, s.offset, a)
  \/ Enough(s) /\ \A k \in DOMAIN s.hits : s.hits[k] < a

\* A scan is somewhere in its ranges, and what it has told of is behind.
PlaceTrue(s) ==
  LET rows == BuildRanges(regions, s.known, s.options) IN
  /\ s.known \in {<<>>, <<source.module>>} /\ ParsesTo(s.pattern)
  /\ \E n \in 0 .. Len(rows) : s.ranges = From(rows, n)
HitsTrue(s) ==
  /\ s.hits \in Seq(Nat) /\ InOrder(s.hits)
  /\ \A h \in Told(s.hits) : h \in Possible(s) /\ ~Place(s.ranges, s.offset, h)
  /\ Cap(s.options) > 0 => Len(s.hits) <= Cap(s.options)
  /\ \A a \in Standing(s) : Reached(s, a)
\* What is fetched for it is the chunk at that place.
ChunkTrue ==
  fetch # Nothing =>
    /\ ~Over
    /\ fetch.address = Head(scan.ranges).base + scan.offset
    /\ fetch.size = Min({ChunkSize + Overlap(scan.pattern), Head(scan.ranges).size - scan.offset})
ScanTells == scan # Nothing => PlaceTrue(scan) /\ HitsTrue(scan) /\ ChunkTrue

\* ScanTellsAll, with two places that may match for a number that is not one.
AnswerTells ==
  answer # Nothing /\ answer.op = "scan" =>
    /\ Told(answer.bytes) \subseteq Possible(answer) /\ InOrder(answer.bytes)
    /\ CASE answer.options.ask = "all" -> Standing(answer) \subseteq Told(answer.bytes)
         [] answer.options.ask = "first" ->
              \A a \in Standing(answer) : \E h \in Told(answer.bytes) : h <= a
         [] OTHER -> IF answer.bytes = <<>>
                     THEN Standing(answer) = {} \/ \E a, b \in Possible(answer) : a # b
                     ELSE Standing(answer) \subseteq Told(answer.bytes)

\* What is remembered only grows: a place that may match still may, and where a pattern
\* has been all the time it was before.
LEMMA GrowsScan ==
  ASSUME Grows, HeldOK, UNCHANGED <<regions, source>>, NEW s
  PROVE  /\ Possible(s) \subseteq Possible(s)' /\ Standing(s)' \subseteq Standing(s)
         /\ Looked(s)' = Looked(s)
<1>1. \A x : Was(x) \subseteq Was(x)' /\ Was(x) # {}
  BY GrowsWas DEF HeldOK, Was
<1>2. Looked(s)' = Looked(s)
  BY DEF Looked
<1>3. ASSUME NEW a, MayMatch(s.pattern, a) PROVE MayMatch(s.pattern, a)'
  BY <1>1, <1>3 DEF MayMatch
<1>4. ASSUME NEW a, Matches(s.pattern, a)' PROVE Matches(s.pattern, a)
  <2>1. \A k \in FixedAt(s.pattern) : Was(a + k - 1)' = {s.pattern[k]}
    BY <1>4 DEF Matches
  <2>2. \A k \in FixedAt(s.pattern) : Was(a + k - 1) = {s.pattern[k]}
    BY <1>1, <2>1
  <2> QED BY <2>2 DEF Matches
<1>5. ASSUME NEW range, Readable(range)' PROVE Readable(range)
  <2>1. Cut(range.base, range.base + range.size - 1) => Cut(range.base, range.base + range.size - 1)'
    BY GrowsWas
  <2> QED BY <1>5, <2>1 DEF Readable
<1>6. Possible(s) \subseteq Possible(s)'
  BY <1>2, <1>3 DEF Possible, Within
<1>7. Standing(s)' \subseteq Standing(s)
  BY <1>2, <1>4, <1>5 DEF Standing, Within
<1> QED BY <1>2, <1>6, <1>7

LEMMA KeepScanTells ==
  ASSUME ScanTells, Grows, HeldOK, UNCHANGED <<regions, source, scan>>,
         \/ fetch' \in {fetch, Nothing}
         \/ fetch # Nothing /\ fetch'.address = fetch.address /\ fetch'.size = fetch.size
  PROVE  ScanTells'
<1>1. SUFFICES ASSUME scan # Nothing PROVE (PlaceTrue(scan) /\ HitsTrue(scan) /\ ChunkTrue)'
  BY DEF ScanTells
<1>2. PlaceTrue(scan) /\ HitsTrue(scan) /\ ChunkTrue
  BY <1>1 DEF ScanTells
<1>3. PICK s : s = scan
  OBVIOUS
<1>4. Possible(s) \subseteq Possible(s)' /\ Standing(s)' \subseteq Standing(s)
  BY GrowsScan
<1>5. Possible(scan) \subseteq Possible(scan)' /\ Standing(scan)' \subseteq Standing(scan)
  BY <1>3, <1>4 DEF Possible, Standing, MayMatch, Matches, Readable, Within, Looked, Cut, Was
<1>6. PlaceTrue(scan)'
  BY <1>2 DEF PlaceTrue
<1>7. ChunkTrue'
  BY <1>2 DEF ChunkTrue, Over, Full
<1>8. HitsTrue(scan)'
  BY <1>2, <1>5 DEF HitsTrue, Reached, Enough
<1> QED BY <1>6, <1>7, <1>8

LEMMA KeepAnswerTells ==
  ASSUME AnswerTells, Grows, HeldOK, UNCHANGED <<regions, source, answer>>
  PROVE  AnswerTells'
<1>1. PICK s : s = answer
  OBVIOUS
<1>2. Possible(s) \subseteq Possible(s)' /\ Standing(s)' \subseteq Standing(s)
  BY GrowsScan
<1>3. Possible(answer) \subseteq Possible(answer)' /\ Standing(answer)' \subseteq Standing(answer)
  <2>1. Possible(answer) = Possible(s) /\ Standing(answer) = Standing(s)
    BY <1>1
  <2>2. Possible(answer)' = Possible(s)'
    BY <1>1 DEF Possible, MayMatch, Within, Looked, Was
  <2>3. Standing(answer)' = Standing(s)'
    BY <1>1 DEF Standing, Matches, Readable, Within, Looked, Cut, Was
  <2> QED BY <1>2, <2>1, <2>2, <2>3
<1> QED BY <1>3 DEF AnswerTells

LEMMA NotOfScan ==
  ASSUME answer' # Nothing => answer'.op # "scan"
  PROVE  AnswerTells'
BY DEF AnswerTells

(***************************************************************************)
(* A scan from chunk to chunk.                                             *)
(***************************************************************************)

LEMMA RestOf ==
  ASSUME NEW S, NEW seq \in Seq(S), NEW n \in 0 .. Len(seq)
  PROVE  SubSeq(seq, n + 1, Len(seq)) \in Seq(S) /\ Len(SubSeq(seq, n + 1, Len(seq))) = Len(seq) - n
OBVIOUS

LEMMA FromIs ==
  ASSUME NEW rows \in Rows, NEW n \in 0 .. Len(rows)
  PROVE  /\ From(rows, n) \in Rows
         /\ From(rows, n) # <<>> <=> n < Len(rows)
         /\ n < Len(rows) => /\ Head(From(rows, n)) = rows[n + 1]
                             /\ Tail(From(rows, n)) = From(rows, n + 1)
                             /\ n + 1 \in DOMAIN rows
<1>1. rows \in Seq([base : Nat, size : Nat \ {0}]) /\ Len(rows) \in Nat
  BY DEF Rows
<1> DEFINE rest == From(rows, n)
<1>2. rest \in Rows /\ Len(rest) = Len(rows) - n
  BY <1>1, RestOf DEF From, Rows
<1>3. rest # <<>> <=> n < Len(rows)
  BY <1>1, <1>2 DEF Rows
<1>4. ASSUME n < Len(rows)
      PROVE  Head(rest) = rows[n + 1] /\ Tail(rest) = From(rows, n + 1) /\ n + 1 \in DOMAIN rows
  <2>1. n + 1 \in DOMAIN rows
    BY <1>1, <1>4
  <2>2. Head(rest) = rows[n + 1]
    BY <1>1, <1>4 DEF From
  <2>3. Tail(rest) = From(rows, n + 1)
    BY <1>1, <1>4 DEF From
  <2> QED BY <2>1, <2>2, <2>3
<1> QED BY <1>2, <1>3, <1>4

LEMMA RowIs ==
  ASSUME NEW rows \in Rows, NEW k \in DOMAIN rows
  PROVE  rows[k].base \in Nat /\ rows[k].size \in Nat /\ rows[k].size > 0
<1>1. rows[k] \in [base : Nat, size : Nat \ {0}]
  BY MemberOf DEF Rows
<1> QED BY <1>1

\* Where a scan is after a step of it: on in its row, or at the beginning of the next.
LEMMA PlaceMoves ==
  ASSUME NEW rows \in Rows, RowsApart(rows), NEW n \in Nat, n < Len(rows),
         NEW offset \in Nat, offset < rows[n + 1].size, NEW next \in Nat, offset <= next,
         NEW rest, rest = IF next >= rows[n + 1].size THEN From(rows, n + 1) ELSE From(rows, n),
         NEW off, off = IF next >= rows[n + 1].size THEN 0 ELSE next
  PROVE  LET r == rows[n + 1] IN
         /\ \A a \in Nat : Place(rest, off, a) => a >= r.base + offset
         /\ \A a \in Nat : a < r.base + next /\ a < r.base + r.size => ~Place(rest, off, a)
         /\ \A a \in Nat : a >= r.base + next /\ a < r.base + r.size => Place(rest, off, a)
         /\ \A a \in Nat, k \in DOMAIN rows :
              k > n + 1 /\ a >= rows[k].base => Place(rest, off, a)
<1> DEFINE r == rows[n + 1]
<1>1. Len(rows) \in Nat /\ DOMAIN rows = 1 .. Len(rows) /\ n + 1 \in DOMAIN rows
  BY DEF Rows
<1>2. PICK base, size : base = r.base /\ size = r.size
  OBVIOUS
<1>3. base \in Nat /\ size \in Nat /\ size > 0 /\ offset < size
  BY <1>1, <1>2, RowIs
<1>4. ASSUME NEW k \in DOMAIN rows, k > n + 1
      PROVE  rows[k].base \in Nat /\ rows[k].base >= base + size
  BY <1>1, <1>2, <1>4, RowIs DEF RowsApart
<1>5. CASE next >= size
  <2>1. rest = From(rows, n + 1) /\ off = 0 /\ n + 1 \in 0 .. Len(rows)
    BY <1>1, <1>2, <1>5
  <2>2. /\ rest # <<>> <=> n + 1 < Len(rows)
        /\ n + 1 < Len(rows) => Head(rest) = rows[n + 1 + 1] /\ n + 1 + 1 \in DOMAIN rows
    BY <2>1, FromIs
  <2>3. ASSUME NEW a \in Nat, Place(rest, off, a) PROVE a >= base + size
    <3>1. n + 1 < Len(rows) /\ Head(rest) = rows[n + 1 + 1] /\ n + 1 + 1 \in DOMAIN rows
      BY <2>2, <2>3 DEF Place
    <3>2. rows[n + 1 + 1].base \in Nat /\ rows[n + 1 + 1].base >= base + size
      BY <1>4, <3>1
    <3>3. a >= rows[n + 1 + 1].base + 0
      BY <2>1, <2>3, <3>1 DEF Place
    <3> QED BY <1>3, <3>2, <3>3
  <2>4. ASSUME NEW a \in Nat, NEW k \in DOMAIN rows, k > n + 1, a >= rows[k].base
        PROVE  Place(rest, off, a)
    <3>1. n + 1 < Len(rows)
      BY <1>1, <2>4
    <3>2. Head(rest) = rows[n + 1 + 1] /\ n + 1 + 1 \in DOMAIN rows /\ rest # <<>>
      BY <2>2, <3>1
    <3>3. rows[n + 1 + 1].base \in Nat /\ rows[n + 1 + 1].size \in Nat /\ rows[k].base \in Nat
      BY <3>2, RowIs
    <3>4. rows[n + 1 + 1].base <= rows[k].base
      <4>1. CASE k = n + 1 + 1
        BY <4>1, <3>3
      <4>2. CASE k > n + 1 + 1
        <5>1. rows[n + 1 + 1].base + rows[n + 1 + 1].size <= rows[k].base
          BY <3>2, <4>2 DEF RowsApart
        <5> QED BY <3>3, <5>1
      <4> QED BY <2>4, <1>1, <4>1, <4>2
    <3>5. a >= rows[n + 1 + 1].base + 0
      BY <2>4, <3>3, <3>4
    <3> QED BY <2>1, <3>2, <3>5 DEF Place
  <2>5. \A a \in Nat : a < base + size => ~Place(rest, off, a)
    BY <1>3, <2>3
  <2>6. \A a \in Nat : ~(a >= base + next /\ a < base + size)
    BY <1>3, <1>5
  <2>7. \A a \in Nat : Place(rest, off, a) => a >= base + offset
    BY <1>3, <2>3
  <2> QED BY <1>2, <2>4, <2>5, <2>6, <2>7
<1>6. CASE next < size
  <2>1. rest = From(rows, n) /\ off = next /\ n \in 0 .. Len(rows)
    BY <1>1, <1>2, <1>3, <1>6
  <2>2. rest # <<>> /\ Head(rest) = r
    BY <2>1, FromIs
  <2>3. \A a \in Nat : Place(rest, off, a) <=> a >= base + next
    BY <1>2, <2>1, <2>2 DEF Place
  <2>4. \A a \in Nat, k \in DOMAIN rows : k > n + 1 /\ a >= rows[k].base => a >= base + next
    BY <1>3, <1>4, <1>6
  <2>5. \A a \in Nat : a >= base + next => a >= base + offset
    BY <1>3
  <2>6. \A a \in Nat : a < base + next => ~(a >= base + next)
    BY <1>3
  <2> QED BY <1>2, <2>3, <2>4, <2>5, <2>6
<1> QED BY <1>3, <1>5, <1>6

LEMMA Joined ==
  ASSUME NEW S, NEW s \in Seq(S), NEW t \in Seq(S)
  PROVE  /\ s \o t \in Seq(S) /\ Len(s \o t) = Len(s) + Len(t) /\ Len(s) \in Nat /\ Len(t) \in Nat
         /\ DOMAIN s = 1 .. Len(s)
         /\ \A k \in 1 .. Len(s) : (s \o t)[k] = s[k]
         /\ \A k \in 1 .. Len(t) : (s \o t)[Len(s) + k] = t[k]
OBVIOUS

LEMMA Advances ==
  ASSUME NEW got \in Nat, NEW want \in Nat, got <= want, scan.offset \in Nat,
         scan.pattern \in Seq({AnyByte} \cup Bytes), Len(scan.pattern) > 0,
         Head(scan.ranges).size \in Nat, want <= Head(scan.ranges).size - scan.offset
  PROVE  LET next == Advance(got, want)  len == Len(scan.pattern) IN
         /\ next \in Nat /\ scan.offset <= next
         /\ len <= got => next >= scan.offset + got - len + 1
         /\ len <= got /\ got = want => next = scan.offset + got - len + 1
<1>1. PICK len, offset, size : len = Len(scan.pattern) /\ offset = scan.offset
                               /\ size = Head(scan.ranges).size
  OBVIOUS
<1>2. len \in Nat /\ len > 0 /\ offset \in Nat /\ size \in Nat /\ want <= size - offset
  BY <1>1
<1>3. Advance(got, want) = IF got < len THEN offset + (IF got > 0 THEN got ELSE ChunkSize)
                           ELSE IF got < want THEN size ELSE offset + got - (len - 1)
  BY <1>1 DEF Advance, Overlap
<1>4. ChunkSize \in Nat
  BY Constants
<1>5. PICK next : next = Advance(got, want)
  OBVIOUS
<1>6. ASSUME got < len PROVE next \in Nat /\ offset <= next
  BY <1>2, <1>3, <1>4, <1>5, <1>6
<1>7. ASSUME len <= got, got < want
      PROVE  next = size /\ offset <= size /\ size >= offset + got - len + 1
  <2>1. next = size
    BY <1>2, <1>3, <1>5, <1>7
  <2>2. offset + got < size
    BY <1>2, <1>7
  <2> QED BY <1>2, <2>1, <2>2
<1>8. ASSUME len <= got, got = want PROVE next = offset + got - len + 1
  <2>1. next = offset + got - (len - 1)
    BY <1>2, <1>3, <1>5, <1>8
  <2> QED BY <1>2, <2>1
<1>9. /\ next \in Nat /\ offset <= next
      /\ len <= got => next >= offset + got - len + 1
      /\ len <= got /\ got = want => next = offset + got - len + 1
  BY <1>2, <1>6, <1>7, <1>8
<1> QED BY <1>1, <1>5, <1>9

\* What is told after a chunk: what was told before and what matches in it, in order, as
\* much of it as was asked for.
LEMMA FoundIs ==
  ASSUME scan.pattern \in Seq({AnyByte} \cup Bytes), ParsesTo(scan.pattern),
         scan.hits \in Seq(Nat), InOrder(scan.hits), ~Full(scan.hits),
         NEW data \in Seq(Bytes), NEW from \in Nat,
         \A k \in DOMAIN scan.hits : scan.hits[k] < from
  PROVE  LET hits == Found(data, from)
             found == {from + at : at \in {n \in 0 .. Len(data) - Len(scan.pattern) :
                                             MatchesAt(scan.pattern, data, n)}} IN
         /\ hits \in Seq(Nat) /\ InOrder(hits)
         /\ Told(hits) \subseteq Told(scan.hits) \cup found
         /\ Cap(scan.options) > 0 => Len(hits) <= Cap(scan.options)
         /\ \A a \in Told(scan.hits) \cup found :
              a \in Told(hits) \/ (Full(hits) /\ \A k \in DOMAIN hits : hits[k] < a)
<1> DEFINE here == MatchesIn(scan.pattern, data)
           new == [k \in DOMAIN here |-> from + here[k]]
           old == scan.hits
           all == old \o new
           places == {n \in 0 .. Len(data) - Len(scan.pattern) : MatchesAt(scan.pattern, data, n)}
           found == {from + at : at \in places}
           cap == Cap(scan.options)
           hits == Found(data, from)
<1>1. here \in Seq(Nat) /\ InOrder(here) /\ Told(here) = places
  BY MatchesInIs
<1>2. cap \in Nat
  BY DEF Cap
<1>3. hits = IF cap > 0 /\ Len(all) >= cap THEN SubSeq(all, 1, cap) ELSE all
  BY DEF Found, Full
<1> HIDE DEF here, places, cap, hits
<1>4. /\ new \in Seq(Nat) /\ Len(new) = Len(here) /\ Len(here) \in Nat
      /\ \A k \in 1 .. Len(new) : new[k] = from + here[k] /\ new[k] \in Nat /\ here[k] \in Nat
  <2>1. PICK len \in Nat : len = Len(here) /\ DOMAIN here = 1 .. len
    BY <1>1
  <2>2. \A k \in 1 .. len : here[k] \in Nat
    BY <1>1, <2>1
  <2>3. new \in [1 .. len -> Nat]
    BY <2>1, <2>2
  <2>4. new \in Seq(Nat) /\ Len(new) = len
    BY <2>3, IsSequence
  <2> QED BY <2>1, <2>2, <2>4
<1> HIDE DEF new
<1> DEFINE a1 == Len(old)
           a2 == Len(new)
<1>5. /\ all \in Seq(Nat) /\ Len(all) = a1 + a2 /\ a1 \in Nat /\ a2 \in Nat
      /\ \A k \in 1 .. a1 : all[k] = old[k]
      /\ \A k \in 1 .. a2 : all[a1 + k] = new[k]
  <2>1. PICK s \in Seq(Nat), t \in Seq(Nat) : s = old /\ t = new
    BY <1>4
  <2>2. all = s \o t /\ a1 = Len(s) /\ a2 = Len(t)
    BY <2>1
  <2> HIDE DEF all, old, a1, a2
  <2> QED BY <2>1, <2>2, Joined
<1>51. a1 \in Nat /\ a2 \in Nat
  BY <1>5
<1>52. DOMAIN old = 1 .. a1
  <2>1. PICK s \in Seq(Nat) : s = old
    OBVIOUS
  <2> QED BY <2>1
<1> HIDE DEF all, a1, a2
<1>6. \A k \in 1 .. a1 + a2 : k \in 1 .. a1 \/ \E j \in 1 .. a2 : k = a1 + j
  <2>1. SUFFICES ASSUME NEW k \in 1 .. a1 + a2, k > a1 PROVE \E j \in 1 .. a2 : k = a1 + j
    BY <1>5
  <2>2. k - a1 \in 1 .. a2 /\ k = a1 + (k - a1)
    BY <1>5, <2>1
  <2> QED BY <2>2
<1>7. /\ \A k \in 1 .. a1 : all[k] \in Nat /\ all[k] < from /\ all[k] \in Told(old)
      /\ \A k \in 1 .. a2 : all[a1 + k] >= from /\ all[a1 + k] \in found
  <2>1. ASSUME NEW k \in 1 .. a1 PROVE all[k] \in Nat /\ all[k] < from /\ all[k] \in Told(old)
    <3>1. k \in DOMAIN old /\ all[k] = old[k]
      BY <1>5, <1>52
    <3> QED BY <3>1 DEF Told
  <2>2. ASSUME NEW k \in 1 .. a2 PROVE all[a1 + k] >= from /\ all[a1 + k] \in found
    <3>1. k \in 1 .. Len(new) /\ all[a1 + k] = new[k] /\ k \in DOMAIN here
      BY <1>1, <1>4, <1>5 DEF a2
    <3>2. new[k] = from + here[k] /\ here[k] \in Nat /\ here[k] \in places
      BY <3>1, <1>1, <1>4 DEF Told
    <3> QED BY <3>1, <3>2
  <2> QED BY <2>1, <2>2
<1>8. \A i, j \in 1 .. a1 + a2 : i < j => all[i] < all[j]
  <2>1. SUFFICES ASSUME NEW i \in 1 .. a1 + a2, NEW j \in 1 .. a1 + a2, i < j
                 PROVE  all[i] < all[j]
    OBVIOUS
  <2>2. CASE i \in 1 .. a1 /\ j \in 1 .. a1
    <3>1. i \in DOMAIN old /\ j \in DOMAIN old /\ all[i] = old[i] /\ all[j] = old[j]
      BY <2>2, <1>5, <1>52
    <3> QED BY <2>1, <3>1 DEF InOrder
  <2>3. ASSUME NEW y \in 1 .. a2, i \in 1 .. a1, j = a1 + y PROVE all[i] < all[j]
    <3>1. all[i] \in Nat /\ all[i] < from /\ all[a1 + y] >= from /\ all[a1 + y] = new[y] /\ new[y] \in Nat
      BY <2>3, <1>4, <1>5, <1>7 DEF a2
    <3> QED BY <2>3, <3>1
  <2>4. ASSUME NEW x \in 1 .. a2, NEW y \in 1 .. a2, i = a1 + x, j = a1 + y PROVE all[i] < all[j]
    <3>1. x < y /\ x \in DOMAIN here /\ y \in DOMAIN here
      BY <2>1, <2>4, <1>1, <1>4, <1>5 DEF a2
    <3>2. here[x] < here[y]
      BY <3>1, <1>1 DEF InOrder
    <3>3. x \in 1 .. Len(new) /\ y \in 1 .. Len(new)
      BY DEF a2
    <3>4. all[i] = from + here[x] /\ all[j] = from + here[y] /\ here[x] \in Nat /\ here[y] \in Nat
      BY <2>4, <3>3, <1>4, <1>5
    <3> QED BY <3>2, <3>4
  <2>5. CASE j \in 1 .. a1
    <3>1. i \in 1 .. a1
      BY <2>1, <2>5, <1>5
    <3> QED BY <2>2, <2>5, <3>1
  <2>6. CASE \E y \in 1 .. a2 : j = a1 + y
    BY <2>3, <2>4, <2>6, <1>6
  <2> QED BY <2>5, <2>6, <1>6
<1>9. ASSUME NEW a \in Told(old) \cup found
      PROVE  \E i \in 1 .. a1 + a2 : all[i] = a
  <2>1. CASE a \in Told(old)
    <3>1. PICK k \in DOMAIN old : old[k] = a
      BY <2>1 DEF Told
    <3>2. k \in 1 .. a1 /\ k \in 1 .. a1 + a2
      BY <1>5, <1>52
    <3> QED BY <3>1, <3>2, <1>5
  <2>2. CASE a \in found
    <3>1. PICK at \in places : a = from + at
      BY <2>2
    <3>2. PICK k \in DOMAIN here : here[k] = at
      BY <3>1, <1>1 DEF Told
    <3>3. k \in 1 .. a2 /\ k \in 1 .. Len(new)
      BY <3>2, <1>1, <1>4 DEF a2
    <3>4. all[a1 + k] = new[k] /\ new[k] = from + here[k]
      BY <3>3, <1>4, <1>5
    <3>5. a1 + k \in 1 .. a1 + a2
      <4>1. PICK i \in Nat : i = k /\ i \in 1 .. a2
        BY <3>3, <1>51
      <4>2. a1 + i \in 1 .. a1 + a2
        BY <4>1, <1>51
      <4> QED BY <4>1, <4>2
    <3>6. all[a1 + k] = a
      BY <3>1, <3>2, <3>4
    <3> QED BY <3>5, <3>6
  <2> QED BY <2>1, <2>2
<1> DEFINE len == IF cap > 0 /\ a1 + a2 >= cap THEN cap ELSE a1 + a2
<1>10. /\ hits \in Seq(Nat) /\ Len(hits) = len /\ DOMAIN hits = 1 .. len /\ len \in Nat
       /\ len <= a1 + a2
       /\ \A k \in 1 .. len : hits[k] = all[k] /\ k \in 1 .. a1 + a2
  <2>1. CASE cap > 0 /\ a1 + a2 >= cap
    <3>1. hits = SubSeq(all, 1, cap) /\ len = cap
      BY <2>1, <1>3, <1>5
    <3> QED BY <2>1, <3>1, <1>2, <1>5
  <2>2. CASE ~(cap > 0 /\ a1 + a2 >= cap)
    <3>1. hits = all /\ len = a1 + a2
      BY <2>2, <1>3, <1>5
    <3> QED BY <3>1, <1>5
  <2> QED BY <2>1, <2>2
<1> HIDE DEF len
<1>11. InOrder(hits)
  BY <1>8, <1>10 DEF InOrder
<1>12. Told(hits) \subseteq Told(old) \cup found
  <2>1. ASSUME NEW k \in 1 .. len PROVE hits[k] \in Told(old) \cup found
    BY <1>6, <1>7, <1>10
  <2> QED BY <2>1, <1>10 DEF Told
<1>13. cap > 0 => Len(hits) <= cap
  BY <1>2, <1>5, <1>10 DEF len
<1>14. ASSUME NEW a \in Told(old) \cup found
       PROVE  a \in Told(hits) \/ (Full(hits) /\ \A k \in DOMAIN hits : hits[k] < a)
  <2>1. PICK i \in 1 .. a1 + a2 : all[i] = a
    BY <1>9
  <2>2. CASE i <= len
    <3>1. i \in DOMAIN hits /\ hits[i] = a
      BY <2>1, <2>2, <1>10
    <3> QED BY <3>1 DEF Told
  <2>3. CASE i > len
    <3>1. cap > 0 /\ len = cap
      BY <2>1, <2>3, <1>2, <1>5 DEF len
    <3>2. Full(hits)
      BY <3>1, <1>2, <1>10 DEF Full, cap
    <3>3. \A k \in DOMAIN hits : hits[k] < a
      BY <2>1, <2>3, <1>8, <1>10
    <3> QED BY <3>2, <3>3
  <2> QED BY <2>1, <2>2, <2>3, <1>5, <1>10
<1> QED BY <1>10, <1>11, <1>12, <1>13, <1>14 DEF hits, places, cap

\* The more that is wanted, the more can be missing of it.
LEMMA CutWider ==
  ASSUME NEW a \in Nat, NEW b \in Nat, NEW lo \in Nat, NEW hi \in Nat,
         lo <= a, a <= b, b <= hi, Cut(a, b)
  PROVE  Cut(lo, hi)
<1>1. Cut(a, hi)
  BY CutFurther
<1>2. /\ PageOf(a) \in Nat /\ PageOf(lo) \in Nat /\ PageOf(hi) \in Nat /\ PageOf(lo) <= PageOf(a)
  BY PageParts, PageMono
<1>3. PICK x \in PageOf(a) * PageSize .. (PageOf(hi) + 1) * PageSize - 1 : Gone \in Was(x)
  BY <1>1 DEF Cut
<1>4. /\ PageOf(a) * PageSize \in Nat /\ PageOf(lo) * PageSize \in Nat /\ PageOf(hi) * PageSize \in Nat
      /\ (PageOf(hi) + 1) * PageSize = PageOf(hi) * PageSize + PageSize
      /\ PageOf(lo) * PageSize <= PageOf(a) * PageSize
  BY <1>2, InPage, PageOrder
<1>5. x \in Nat /\ PageOf(lo) * PageSize <= x /\ x < PageOf(hi) * PageSize + PageSize
  BY <1>3, <1>4, Constants
<1>6. lo <= hi
  OBVIOUS
<1> QED BY <1>3, <1>5, <1>6, CutBetween

\* What matches in what was read may have matched in memory.
LEMMA FoundMayMatch ==
  ASSUME NEW pattern \in Seq({AnyByte} \cup Bytes), ParsesTo(pattern), NEW data \in Seq(Bytes),
         NEW from \in Nat, BytesTrue(from, data),
         NEW at \in 0 .. Len(data) - Len(pattern), MatchesAt(pattern, data, at)
  PROVE  from + at \in Addrs /\ MayMatch(pattern, from + at)
<1>1. PICK len \in Nat, got \in Nat : /\ len = Len(pattern) /\ DOMAIN pattern = 1 .. len
                                      /\ got = Len(data) /\ DOMAIN data = 1 .. got
  OBVIOUS
<1>2. at \in Nat /\ at + len <= got
  BY <1>1
<1>3. ASSUME NEW k \in FixedAt(pattern)
      PROVE  k \in 1 .. len /\ pattern[k] \in Bytes /\ pattern[k] \in Was(from + at + k - 1)
  <2>1. k \in 1 .. len
    BY <1>1 DEF FixedAt
  <2>2. at + k \in 1 .. got
    BY <1>2, <2>1
  <2>3. data[at + k] \in Bytes /\ data[at + k] \in Was(from + (at + k) - 1)
    BY <1>1, <2>2 DEF BytesTrue
  <2>4. from + (at + k) - 1 = from + at + k - 1
    BY <1>2, <2>1
  <2>5. data[at + k] = pattern[k]
    BY DEF MatchesAt
  <2> QED BY <2>1, <2>3, <2>4, <2>5
<1>4. PICK k \in FixedAt(pattern) : TRUE
  BY DEF ParsesTo
<1>5. from + at + k - 1 \in Addrs
  BY <1>3, <1>4, Constants DEF Was
<1>6. from + at \in Addrs
  BY <1>1, <1>2, <1>3, <1>4, <1>5, Constants DEF Addrs
<1> QED BY <1>3, <1>6 DEF MayMatch

\* What has matched all the time matches in what was read.
LEMMA StandingIsFound ==
  ASSUME NEW pattern \in Seq({AnyByte} \cup Bytes), NEW data \in Seq(Bytes),
         NEW from \in Nat, BytesTrue(from, data), NEW a \in Nat, Matches(pattern, a),
         from <= a, a + Len(pattern) <= from + Len(data)
  PROVE  a - from \in 0 .. Len(data) - Len(pattern) /\ MatchesAt(pattern, data, a - from)
<1>1. PICK len \in Nat, got \in Nat : /\ len = Len(pattern) /\ DOMAIN pattern = 1 .. len
                                      /\ got = Len(data) /\ DOMAIN data = 1 .. got
  OBVIOUS
<1>2. a - from \in Nat /\ a - from + len <= got /\ a - from \in 0 .. got - len
  BY <1>1
<1>3. ASSUME NEW k \in FixedAt(pattern) PROVE data[a - from + k] = pattern[k]
  <2>1. k \in 1 .. len
    BY <1>1 DEF FixedAt
  <2>2. a - from + k \in 1 .. got
    BY <1>2, <2>1
  <2>3. data[a - from + k] \in Was(from + (a - from + k) - 1)
    BY <1>1, <2>2 DEF BytesTrue
  <2>4. from + (a - from + k) - 1 = a + k - 1
    BY <1>2, <2>1
  <2>5. Was(a + k - 1) = {pattern[k]}
    BY DEF Matches
  <2> QED BY <2>3, <2>4, <2>5
<1> QED BY <1>1, <1>2, <1>3 DEF MatchesAt

\* What a scan looks in has a beginning and a length.
LEMMA LookedIs ==
  ASSUME TargetOK, NEW s, NEW range \in Looked(s)
  PROVE  range.base \in Nat /\ range.size \in Nat
<1>1. PICK k \in DOMAIN regions :
        range = IF s.options.whole_process THEN WholeOf(regions[k])
                ELSE Clipped(regions[k], source.module)
  BY DEF Looked
<1>2. /\ regions \in Seq([base : Nat, size : Nat, protect : SUBSET Flags])
      /\ source.module.base \in Nat /\ source.module.size \in Nat
  <2>1. source \in Sources /\ Opens(source) /\ regions = RegionsOf(source)
    BY DEF TargetOK
  <2>2. source.module \in [base : Nat, size : Nat]
    BY <2>1, TargetAssumption DEF TargetAssumption
  <2> QED BY <2>1, <2>2, RegionsAssumption DEF RegionsAssumption
<1>3. regions[k].base \in Nat /\ regions[k].size \in Nat
  <2>1. regions[k] \in [base : Nat, size : Nat, protect : SUBSET Flags]
    BY <1>2, MemberOf
  <2> QED BY <2>1
<1>4. CASE s.options.whole_process
  BY <1>1, <1>3, <1>4 DEF WholeOf
<1>5. CASE ~s.options.whole_process
  <2>1. range = Clipped(regions[k], source.module)
    BY <1>1, <1>5
  <2>2. range \in [base : Nat, size : Nat]
    BY <1>2, <1>3, <2>1, ClippedIs
  <2> QED BY <2>2
<1> QED BY <1>4, <1>5

\* A chunk later a scan has told of what matched in it, and all it leaves behind it has
\* looked at: what a chunk could not read could not be read in its range.
LEMMA ScanGoesOn ==
  ASSUME Inv, PlaceTrue(scan), HitsTrue(scan), ChunkTrue, scan # Nothing, Fetched, ~Over,
         NEW s, s.pattern = scan.pattern, s.options = scan.options, s.known = scan.known,
         s.hits = Found(fetch.bytes, fetch.address),
         s.ranges = IF Advance(Len(fetch.bytes), fetch.size) >= Head(scan.ranges).size
                    THEN Tail(scan.ranges) ELSE scan.ranges,
         s.offset = IF Advance(Len(fetch.bytes), fetch.size) >= Head(scan.ranges).size
                    THEN 0 ELSE Advance(Len(fetch.bytes), fetch.size)
  PROVE  PlaceTrue(s) /\ HitsTrue(s)
<1> DEFINE rows == BuildRanges(regions, scan.known, scan.options)
<1>1. /\ rows \in Rows /\ RowsApart(rows) /\ \A k \in DOMAIN rows : rows[k] \in Looked(scan)
      /\ \A range \in Looked(scan) : range.size > 0 => \E k \in DOMAIN rows : rows[k] = range
  <2>1. PICK c : c = scan
    OBVIOUS
  <2>2. c.known \in {<<>>, <<source.module>>} /\ TargetOK
    BY <2>1 DEF PlaceTrue, Inv
  <2> DEFINE all == BuildRanges(regions, c.known, c.options)
  <2> HIDE DEF rows
  <2>3. all \in Rows /\ RowsApart(all)
    BY <2>2, RowsAre
  <2>4. \A k \in DOMAIN all : all[k] \in Looked(c)
    BY <2>2, RowsAre
  <2>5. \A range \in Looked(c) : range.size > 0 => \E k \in DOMAIN all : all[k] = range
    BY <2>2, RowsAre
  <2> QED BY <2>1, <2>3, <2>4, <2>5 DEF rows
<1>2. PICK n \in 0 .. Len(rows) : scan.ranges = From(rows, n)
  BY DEF PlaceTrue
<1>3. PICK R : R = rows
  OBVIOUS
<1>4. R \in Rows /\ RowsApart(R) /\ Len(R) \in Nat /\ n \in Nat
  BY <1>1, <1>3 DEF Rows
<1>5. /\ scan.ranges # <<>> /\ n < Len(R)
      /\ Head(scan.ranges) = R[n + 1] /\ Tail(scan.ranges) = From(R, n + 1) /\ n + 1 \in DOMAIN R
  <2>1. scan.ranges # <<>>
    BY DEF Over
  <2>2. scan.ranges = From(R, n) /\ n \in 0 .. Len(R)
    BY <1>2, <1>3
  <2> QED BY <1>4, <2>1, <2>2, FromIs
<1>6. PICK base, size, offset, from, want, got, len, data, next, pattern, old :
        /\ base = R[n + 1].base /\ size = R[n + 1].size /\ offset = scan.offset
        /\ from = fetch.address /\ want = fetch.size /\ data = fetch.bytes /\ got = Len(data)
        /\ pattern = scan.pattern /\ len = Len(pattern) /\ next = Advance(got, want)
        /\ old = scan.hits
  OBVIOUS
<1>7. base \in Nat /\ size \in Nat /\ size > 0
  BY <1>4, <1>5, <1>6, RowIs
<1>8. /\ offset \in Nat /\ offset < size
      /\ pattern \in Seq({AnyByte} \cup Bytes) /\ ParsesTo(pattern) /\ len \in Nat /\ len > 0
  BY <1>5, <1>6 DEF Inv, ScanOK, PlaceTrue
<1>9. /\ from \in Nat /\ want \in Nat /\ got \in Nat /\ data \in Seq(Bytes) /\ got <= want
      /\ BytesTrue(from, data) /\ (got < want => Cut(from + got, from + want - 1))
  <2>1. FetchTrue(fetch) /\ (fetch.over \/ Len(fetch.bytes) = fetch.size)
    BY DEF Inv, FetchOK, Fetched, Done
  <2> QED BY <1>6, <2>1 DEF FetchTrue
<1>10. /\ from = base + offset /\ want <= size - offset
       /\ want = size - offset \/ want >= len
  <2>1. from = base + offset /\ want = Min({ChunkSize + (len - 1), size - offset})
    BY <1>5, <1>6 DEF ChunkTrue, Fetched, Overlap
  <2>2. ChunkSize + (len - 1) \in Int /\ size - offset \in Int /\ ChunkSize + (len - 1) >= len
    BY <1>7, <1>8, Constants
  <2>3. want = IF ChunkSize + (len - 1) <= size - offset THEN ChunkSize + (len - 1) ELSE size - offset
    BY <2>1, <2>2, MinOfTwo
  <2> QED BY <2>1, <2>2, <2>3
<1>11. /\ next \in Nat /\ offset <= next
       /\ len <= got => next >= offset + got - len + 1
       /\ len <= got /\ got = want => next = offset + got - len + 1
  BY <1>5, <1>6, <1>7, <1>8, <1>9, <1>10, Advances
<1>12. /\ s.ranges = IF next >= R[n + 1].size THEN From(R, n + 1) ELSE From(R, n)
       /\ s.offset = IF next >= R[n + 1].size THEN 0 ELSE next
  BY <1>2, <1>3, <1>5, <1>6
<1>13. /\ \A a \in Nat : Place(s.ranges, s.offset, a) => a >= base + offset
       /\ \A a \in Nat : a < base + next /\ a < base + size => ~Place(s.ranges, s.offset, a)
       /\ \A a \in Nat : a >= base + next /\ a < base + size => Place(s.ranges, s.offset, a)
       /\ \A a \in Nat, k \in DOMAIN R :
            k > n + 1 /\ a >= R[k].base => Place(s.ranges, s.offset, a)
  <2>1. PICK rest, off : rest = s.ranges /\ off = s.offset
    OBVIOUS
  <2>2. /\ rest = IF next >= R[n + 1].size THEN From(R, n + 1) ELSE From(R, n)
        /\ off = IF next >= R[n + 1].size THEN 0 ELSE next
        /\ offset < R[n + 1].size
    BY <1>6, <1>8, <1>12, <2>1
  <2>3. LET r == R[n + 1] IN
        /\ \A a \in Nat : Place(rest, off, a) => a >= r.base + offset
        /\ \A a \in Nat : a < r.base + next /\ a < r.base + r.size => ~Place(rest, off, a)
        /\ \A a \in Nat : a >= r.base + next /\ a < r.base + r.size => Place(rest, off, a)
        /\ \A a \in Nat, k \in DOMAIN R : k > n + 1 /\ a >= R[k].base => Place(rest, off, a)
    BY <1>4, <1>5, <1>8, <1>11, <2>2, PlaceMoves
  <2> QED BY <1>6, <2>1, <2>3
<1>14. PlaceTrue(s)
  <2>1. \E m \in 0 .. Len(R) : s.ranges = From(R, m)
    <3>1. n \in 0 .. Len(R) /\ n + 1 \in 0 .. Len(R)
      BY <1>4, <1>5
    <3> QED BY <1>12, <3>1
  <2> QED BY <1>3, <2>1 DEF PlaceTrue
<1>15. /\ old \in Seq(Nat) /\ InOrder(old) /\ ~Full(old)
       /\ \A h \in Told(old) : h \in Nat /\ h \in Possible(scan) /\ h < from
  <2>1. old \in Seq(Nat) /\ InOrder(old) /\ ~Full(old)
    BY <1>6 DEF HitsTrue, Over
  <2>2. \A h \in Told(old) : h \in Nat
    BY <2>1, MemberOf DEF Told
  <2>3. \A h \in Told(old) : h \in Possible(scan) /\ ~(h >= from)
    BY <1>5, <1>6, <1>10 DEF HitsTrue, Place
  <2> QED BY <1>9, <2>1, <2>2, <2>3
<1> DEFINE places == {m \in 0 .. Len(data) - Len(pattern) : MatchesAt(pattern, data, m)}
           found == {from + at : at \in places}
<1>16. /\ s.hits \in Seq(Nat) /\ InOrder(s.hits)
       /\ Told(s.hits) \subseteq Told(old) \cup found
       /\ Cap(s.options) > 0 => Len(s.hits) <= Cap(s.options)
       /\ \A a \in Told(old) \cup found :
            a \in Told(s.hits) \/ (Enough(s) /\ \A k \in DOMAIN s.hits : s.hits[k] < a)
  <2>1. \A k \in DOMAIN old : old[k] < from
    BY <1>15 DEF Told
  <2>2. /\ scan.pattern \in Seq({AnyByte} \cup Bytes) /\ ParsesTo(scan.pattern)
        /\ scan.hits \in Seq(Nat) /\ InOrder(scan.hits) /\ ~Full(scan.hits)
        /\ \A k \in DOMAIN scan.hits : scan.hits[k] < from
    BY <1>6, <1>8, <1>15, <2>1
  <2>3. LET hits == Found(data, from)
            matches == {from + at : at \in {m \in 0 .. Len(data) - Len(scan.pattern) :
                                              MatchesAt(scan.pattern, data, m)}} IN
        /\ hits \in Seq(Nat) /\ InOrder(hits)
        /\ Told(hits) \subseteq Told(scan.hits) \cup matches
        /\ Cap(scan.options) > 0 => Len(hits) <= Cap(scan.options)
        /\ \A a \in Told(scan.hits) \cup matches :
             a \in Told(hits) \/ (Full(hits) /\ \A k \in DOMAIN hits : hits[k] < a)
    BY <1>9, <2>2, FoundIs
  <2>4. s.hits = Found(data, from) /\ s.options = scan.options /\ pattern = scan.pattern
        /\ old = scan.hits
    BY <1>6
  <2>5. Full(s.hits) <=> Enough(s)
    BY <2>4 DEF Full, Enough
  <2> QED BY <2>3, <2>4, <2>5
<1>17. ASSUME NEW at \in places
       PROVE  /\ from + at \in Nat /\ from + at \in Addrs /\ MayMatch(pattern, from + at)
              /\ from + at >= base /\ from + at + len <= base + size
              /\ from + at < base + next
  <2>1. from + at \in Addrs /\ MayMatch(pattern, from + at)
    BY <1>8, <1>9, FoundMayMatch
  <2>2. at \in 0 .. got - len
    BY <1>6
  <2> HIDE DEF places
  <2> QED BY <1>7, <1>8, <1>9, <1>10, <1>11, <2>1, <2>2
<1> HIDE DEF places
<1>18. \A h \in Told(s.hits) : h \in Possible(s) /\ ~Place(s.ranges, s.offset, h)
  <2>1. Possible(s) = Possible(scan)
    BY DEF Possible, Looked
  <2>2. ASSUME NEW h \in Told(old) PROVE h \in Possible(s) /\ ~Place(s.ranges, s.offset, h)
    BY <1>7, <1>8, <1>10, <1>13, <1>15, <2>1
  <2>3. ASSUME NEW at \in places
        PROVE  from + at \in Possible(s) /\ ~Place(s.ranges, s.offset, from + at)
    <3>1. Within(pattern, from + at, R[n + 1]) /\ R[n + 1] \in Looked(scan)
      BY <1>1, <1>3, <1>5, <1>6, <1>17 DEF Within
    <3>2. from + at \in Possible(scan)
      BY <1>6, <1>17, <3>1 DEF Possible
    <3>3. from + at < base + size
      BY <1>7, <1>8, <1>17
    <3> QED BY <1>13, <1>17, <2>1, <3>2, <3>3
  <2> QED BY <1>16, <2>2, <2>3
<1>19. ASSUME NEW a \in Standing(s) PROVE Reached(s, a)
  <2>1. /\ a \in Standing(scan) /\ a \in Nat /\ Matches(pattern, a) /\ Reached(scan, a)
    <3>1. Standing(s) = Standing(scan)
      BY DEF Standing, Looked
    <3> QED BY <1>6, <1>19, <3>1, AddrPages DEF Standing, HitsTrue
  <2>2. PICK range \in Looked(scan) : Readable(range) /\ Within(pattern, a, range)
    BY <1>6, <2>1 DEF Standing
  <2>3. PICK k \in DOMAIN R : R[k] = range
    <3>1. range.size > 0
      <4>1. range.base \in Nat /\ range.size \in Nat
        <5>1. PICK c : c = scan
          OBVIOUS
        <5> QED BY <2>2, <5>1, LookedIs DEF Inv
      <4> QED BY <1>6, <1>8, <2>1, <2>2, <4>1 DEF Within
    <3> QED BY <1>1, <1>3, <3>1
  <2>4. CASE a \in Told(old)
    BY <1>16, <2>4 DEF Reached
  <2>5. CASE a >= from
    <3>0. k \in Nat /\ R[k].base \in Nat /\ R[k].size \in Nat
          /\ a >= R[k].base /\ a + len <= R[k].base + R[k].size
      <4>1. k \in Nat /\ R[k].base \in Nat /\ R[k].size \in Nat
        BY <1>4, RowIs DEF Rows
      <4>2. a >= range.base /\ a + len <= range.base + range.size
        BY <1>6, <2>2 DEF Within
      <4> QED BY <2>3, <4>1, <4>2
    <3>1. CASE k < n + 1
      <4>1. R[k].base + R[k].size <= base
        BY <1>4, <1>5, <1>6, <3>1 DEF RowsApart
      <4> QED BY <1>7, <1>8, <1>10, <2>1, <2>5, <3>0, <4>1
    <3>2. CASE k > n + 1
      BY <1>13, <2>1, <3>0, <3>2 DEF Reached
    <3>3. CASE k = n + 1
      <4>1. got = want
        <5>1. SUFFICES ASSUME got < want PROVE FALSE
          BY <1>9
        <5>2. Cut(from + got, from + want - 1)
          BY <1>9, <5>1
        <5>3. /\ from + got \in Nat /\ from + want - 1 \in Nat /\ base + size - 1 \in Nat
              /\ base <= from + got /\ from + got <= from + want - 1
              /\ from + want - 1 <= base + size - 1
          BY <1>7, <1>8, <1>9, <1>10, <5>1
        <5>4. Cut(base, base + size - 1)
          BY <1>7, <5>2, <5>3, CutWider
        <5> QED BY <1>6, <2>2, <2>3, <3>3, <5>4 DEF Readable
      <4>2. a + len <= base + size
        BY <1>6, <3>0, <3>3
      <4>3. len <= got
        BY <1>7, <1>8, <1>9, <1>10, <2>1, <2>5, <4>1, <4>2
      <4>4. next = offset + got - len + 1
        BY <1>11, <4>1, <4>3
      <4>5. CASE a < base + next
        <5>1. a + len <= from + got
          BY <1>7, <1>8, <1>9, <1>10, <2>1, <4>4, <4>5
        <5>2. a - from \in places
          BY <1>6, <1>8, <1>9, <2>1, <2>5, <5>1, StandingIsFound DEF places
        <5>3. a = from + (a - from)
          BY <1>9, <2>1
        <5>4. a \in found
          BY <5>2, <5>3
        <5> QED BY <1>16, <5>4 DEF Reached
      <4>6. CASE a >= base + next
        <5>1. a < base + size
          BY <1>7, <1>8, <2>1, <4>2
        <5> QED BY <1>13, <2>1, <4>6, <5>1 DEF Reached
      <4> QED BY <1>7, <1>11, <2>1, <4>5, <4>6
    <3> QED BY <1>4, <3>0, <3>1, <3>2, <3>3
  <2>6. a \in Told(old) \/ a >= from
    <3>1. ~Enough(scan)
      BY <1>6, <1>15 DEF Enough, Full
    <3> QED BY <1>5, <1>6, <1>10, <2>1, <3>1 DEF Reached, Place
  <2> QED BY <2>4, <2>5, <2>6
<1> QED BY <1>14, <1>16, <1>18, <1>19 DEF HitsTrue

\* A step that leaves memory alone leaves what there is to find in it.
LEMMA StillFound ==
  ASSUME UNCHANGED <<regions, source, held>>, NEW s, PlaceTrue(s), HitsTrue(s)
  PROVE  PlaceTrue(s)' /\ HitsTrue(s)'
<1>1. Possible(s)' = Possible(s)
  BY DEF Possible, MayMatch, Within, Looked, Was
<1>2. Standing(s)' = Standing(s)
  BY DEF Standing, Matches, Readable, Within, Looked, Cut, Was
<1>3. PlaceTrue(s)'
  BY DEF PlaceTrue
<1>4. HitsTrue(s)'
  BY <1>1, <1>2 DEF HitsTrue
<1> QED BY <1>3, <1>4

LEMMA NextScan ==
  ASSUME NEW s, scan' = s, PlaceTrue(s)', HitsTrue(s)'
  PROVE  PlaceTrue(scan)' /\ HitsTrue(scan)'
<1>1. Possible(scan)' = Possible(s)'
  BY DEF Possible, MayMatch, Within, Looked, Was
<1>2. Standing(scan)' = Standing(s)'
  BY DEF Standing, Matches, Readable, Within, Looked, Cut, Was
<1>3. PlaceTrue(scan)'
  BY DEF PlaceTrue
<1>4. HitsTrue(scan)'
  BY <1>1, <1>2 DEF HitsTrue, Reached, Enough
<1> QED BY <1>3, <1>4

LEMMA ChunkTells ==
  ASSUME Inv, ScanTells, ScanChunk
  PROVE  ScanTells'
<1>1. scan # Nothing /\ Fetched /\ ~Over /\ PlaceTrue(scan) /\ HitsTrue(scan) /\ ChunkTrue
  BY DEF ScanTells, ScanChunk
<1>2. PICK s : s = scan'
  OBVIOUS
<1>3. DOMAIN scan = {"pattern", "options", "known", "ranges", "offset", "hits"}
  BY <1>1 DEF Inv, ScanOK
<1> DEFINE next == Advance(Len(fetch.bytes), fetch.size)
           hits == Found(fetch.bytes, fetch.address)
<1>4. s = [scan EXCEPT !.hits = hits,
                       !.ranges = IF next >= Head(scan.ranges).size THEN Tail(@) ELSE @,
                       !.offset = IF next >= Head(scan.ranges).size THEN 0 ELSE next]
  BY <1>2 DEF ScanChunk
<1>5. /\ s.pattern = scan.pattern /\ s.options = scan.options /\ s.known = scan.known
      /\ s.hits = hits
      /\ s.ranges = IF next >= Head(scan.ranges).size THEN Tail(scan.ranges) ELSE scan.ranges
      /\ s.offset = IF next >= Head(scan.ranges).size THEN 0 ELSE next
  <2> HIDE DEF next, hits
  <2> QED BY <1>3, <1>4
<1>6. PlaceTrue(s) /\ HitsTrue(s)
  BY <1>1, <1>5, ScanGoesOn
<1>7. PlaceTrue(s)' /\ HitsTrue(s)'
  <2>1. UNCHANGED <<regions, source, held>>
    BY DEF ScanChunk, opened
  <2> QED BY <1>6, <2>1, StillFound
<1>8. PlaceTrue(scan)' /\ HitsTrue(scan)'
  BY <1>2, <1>7, NextScan
<1>9. ChunkTrue'
  BY DEF ScanChunk, ChunkTrue
<1> QED BY <1>8, <1>9 DEF ScanTells

LEMMA AllRows ==
  ASSUME NEW rows \in Rows
  PROVE  From(rows, 0) = rows /\ 0 \in 0 .. Len(rows)
<1>1. rows \in Seq([base : Nat, size : Nat \ {0}])
  BY DEF Rows
<1> QED BY <1>1 DEF From

\* To begin with there is all of it to look at.
LEMMA BeginTells ==
  ASSUME Inv, NEW c \in Scans, BeginScan(c[1], c[2])
  PROVE  ScanTells'
<1> DEFINE rows == BuildRanges(regions, modules, c[2])
<1>1. PICK s : s = [pattern |-> c[1], options |-> c[2], known |-> modules,
                    ranges |-> rows, offset |-> 0, hits |-> <<>>]
  OBVIOUS
<1>2. /\ s.pattern = c[1] /\ s.options = c[2] /\ s.known = modules
      /\ s.ranges = rows /\ s.offset = 0 /\ s.hits = <<>>
  <2> HIDE DEF rows
  <2> QED BY <1>1
<1>3. s.known \in {<<>>, <<source.module>>} /\ TargetOK /\ ParsesTo(s.pattern)
      /\ s.pattern \in Seq({AnyByte} \cup Bytes)
  BY <1>2, MemoryAssumption DEF Inv, TargetOK, MemoryAssumption
<1>4. PICK R : R = rows
  OBVIOUS
<1>5. /\ R \in Rows /\ RowsApart(R)
      /\ \A range \in Looked(s) : range.size > 0 => \E k \in DOMAIN R : R[k] = range
  <2> DEFINE all == BuildRanges(regions, s.known, s.options)
  <2>1. all = R
    BY <1>2, <1>4
  <2>2. all \in Rows /\ RowsApart(all)
    BY <1>3, RowsAre
  <2>3. \A range \in Looked(s) : range.size > 0 => \E k \in DOMAIN all : all[k] = range
    BY <1>3, RowsAre
  <2> QED BY <2>1, <2>2, <2>3
<1>6. PlaceTrue(s)
  <2>1. s.ranges = From(R, 0) /\ 0 \in 0 .. Len(R) /\ BuildRanges(regions, s.known, s.options) = R
    BY <1>2, <1>4, <1>5, AllRows
  <2> QED BY <1>3, <2>1 DEF PlaceTrue
<1>7. ASSUME NEW a \in Standing(s) PROVE Place(R, 0, a)
  <2>1. PICK range \in Looked(s) : Within(s.pattern, a, range)
    BY <1>7 DEF Standing
  <2>2. a \in Nat /\ range.base \in Nat /\ range.size \in Nat
    BY <1>3, <1>7, AddrPages, LookedIs DEF Standing
  <2>3. Len(s.pattern) \in Nat /\ Len(s.pattern) > 0
    BY <1>3 DEF ParsesTo, FixedAt
  <2>4. range.size > 0 /\ a >= range.base
    BY <2>1, <2>2, <2>3 DEF Within
  <2>5. PICK k \in DOMAIN R : R[k] = range
    BY <1>5, <2>4
  <2>6. k \in 1 .. Len(R) /\ Len(R) \in Nat
    BY <1>5 DEF Rows
  <2>7. 0 < Len(R) /\ 0 \in 0 .. Len(R)
    BY <2>6
  <2>8. From(R, 0) = R /\ R # <<>> /\ Head(R) = R[1] /\ 1 \in DOMAIN R
    <3>1. From(R, 0) = R /\ From(R, 0) # <<>> /\ Head(From(R, 0)) = R[0 + 1] /\ 0 + 1 \in DOMAIN R
      BY <1>5, <2>7, FromIs, AllRows
    <3> QED BY <3>1
  <2>9. R[1].base \in Nat /\ R[1].size \in Nat
    BY <1>5, <2>8, RowIs
  <2>10. R[1].base <= R[k].base
    <3>1. CASE k = 1
      BY <2>9, <3>1
    <3>2. CASE k > 1
      <4>1. R[1].base + R[1].size <= R[k].base
        BY <1>5, <2>8, <3>2 DEF RowsApart
      <4> QED BY <2>2, <2>5, <2>9, <4>1
    <3> QED BY <2>6, <3>1, <3>2
  <2> QED BY <2>2, <2>4, <2>5, <2>8, <2>9, <2>10 DEF Place
<1>8. HitsTrue(s)
  <2>1. s.hits \in Seq(Nat) /\ InOrder(s.hits) /\ Told(s.hits) = {} /\ Len(s.hits) = 0
    BY <1>2 DEF InOrder, Told
  <2>2. Cap(s.options) > 0 => Len(s.hits) <= Cap(s.options)
    BY <2>1 DEF Cap
  <2>3. \A a \in Standing(s) : Reached(s, a)
    BY <1>2, <1>4, <1>7 DEF Reached
  <2> QED BY <2>1, <2>2, <2>3 DEF HitsTrue
<1>9. PlaceTrue(s)' /\ HitsTrue(s)'
  <2>1. UNCHANGED <<regions, source, held>>
    BY DEF BeginScan, opened
  <2> QED BY <1>6, <1>8, <2>1, StillFound
<1>10. scan' = s
  BY <1>1 DEF BeginScan
<1>11. PlaceTrue(scan)' /\ HitsTrue(scan)'
  BY <1>9, <1>10, NextScan
<1>12. ChunkTrue'
  BY DEF BeginScan, Idle, ChunkTrue
<1> QED BY <1>11, <1>12 DEF ScanTells

LEMMA FetchTells ==
  ASSUME Inv, ScanTells, ReadChunk
  PROVE  ScanTells'
<1>1. scan # Nothing /\ fetch = Nothing /\ ~Over /\ PlaceTrue(scan) /\ HitsTrue(scan)
  BY DEF ScanTells, ReadChunk
<1>2. UNCHANGED <<regions, source, held, scan>>
  BY DEF ReadChunk, opened
<1>3. PICK s : s = scan
  OBVIOUS
<1>4. PlaceTrue(s)' /\ HitsTrue(s)'
  BY <1>1, <1>2, <1>3, StillFound
<1>5. PlaceTrue(scan)' /\ HitsTrue(scan)'
  BY <1>2, <1>3, <1>4, NextScan
<1>6. ChunkTrue'
  <2>1. ~Over'
    BY <1>1, <1>2 DEF Over, Full
  <2>2. fetch' = Wanting(Head(scan.ranges).base + scan.offset,
                         Min({ChunkSize + Overlap(scan.pattern), Head(scan.ranges).size - scan.offset}))
    BY DEF ReadChunk
  <2>3. /\ fetch'.address = Head(scan.ranges).base + scan.offset
        /\ fetch'.size = Min({ChunkSize + Overlap(scan.pattern), Head(scan.ranges).size - scan.offset})
    BY <2>2 DEF Wanting
  <2> QED BY <1>2, <2>1, <2>3 DEF ChunkTrue
<1> QED BY <1>5, <1>6 DEF ScanTells

\* What a scan comes back with, when there is nothing more to look at or as many were
\* found as were asked for.
LEMMA ResultTells ==
  ASSUME PlaceTrue(scan), HitsTrue(scan), Over, ScanOK, scan # Nothing,
         NEW s, s.pattern = scan.pattern, s.options = scan.options, s.known = scan.known,
         s.bytes = Result(scan.options, scan.hits)
  PROVE  /\ Told(s.bytes) \subseteq Possible(s) /\ InOrder(s.bytes)
         /\ CASE s.options.ask = "all" -> Standing(s) \subseteq Told(s.bytes)
              [] s.options.ask = "first" -> \A a \in Standing(s) : \E h \in Told(s.bytes) : h <= a
              [] OTHER -> IF s.bytes = <<>>
                          THEN Standing(s) = {} \/ \E a, b \in Possible(s) : a # b
                          ELSE Standing(s) \subseteq Told(s.bytes)
<1> DEFINE ask == scan.options.ask
<1>1. PICK hits \in Seq(Nat) : hits = scan.hits
  BY DEF HitsTrue
<1>2. /\ InOrder(hits) /\ Told(hits) \subseteq Possible(scan)
      /\ \A h \in Told(hits) : h \in Nat /\ ~Place(scan.ranges, scan.offset, h)
      /\ \A a \in Standing(scan) : Reached(scan, a)
  <2>1. \A h \in Told(hits) : h \in Nat
    BY MemberOf DEF Told
  <2> QED BY <1>1, <2>1 DEF HitsTrue
<1>3. Possible(s) = Possible(scan) /\ Standing(s) = Standing(scan)
  BY DEF Possible, Standing, Looked
<1>4. Len(hits) \in Nat /\ DOMAIN hits = 1 .. Len(hits) /\ (hits = <<>> <=> Len(hits) = 0)
  OBVIOUS
<1>5. scan.ranges # <<>> => Enough(scan)
  BY DEF Over, Full, Enough
<1>6. ASSUME NEW a \in Standing(scan), a \notin Told(hits)
      PROVE  /\ Enough(scan)
             /\ \A k \in DOMAIN hits : hits[k] < a \/ Place(scan.ranges, scan.offset, a)
  BY <1>1, <1>2, <1>5, <1>6 DEF Reached, Place
<1>7. scan.ranges # <<>> => Head(scan.ranges).base + scan.offset \in Nat
  BY FirstRow DEF ScanOK
<1>8. CASE ask = "all"
  <2>1. ~Enough(scan) /\ s.bytes = hits
    BY <1>1, <1>8 DEF Enough, Cap, Result
  <2> QED BY <1>2, <1>3, <1>6, <1>8, <2>1
<1>9. CASE ask = "first"
  <2>1. s.bytes = hits
    BY <1>1, <1>9 DEF Result
  <2>2. ASSUME NEW a \in Standing(scan) PROVE \E h \in Told(hits) : h <= a
    <3>0. a \in Nat
      BY AddrPages DEF Standing
    <3>1. CASE a \in Told(hits)
      BY <3>0, <3>1
    <3>2. CASE a \notin Told(hits)
      <4>1. Len(hits) >= 1
        BY <1>1, <1>6, <1>9, <3>2 DEF Enough, Cap
      <4>2. 1 \in DOMAIN hits /\ hits[1] \in Told(hits) /\ hits[1] \in Nat
        BY <1>2, <1>4, <4>1 DEF Told
      <4>3. hits[1] < a \/ Place(scan.ranges, scan.offset, a)
        BY <1>6, <3>2, <4>2
      <4>4. ASSUME Place(scan.ranges, scan.offset, a) PROVE hits[1] <= a
        <5>1. ~Place(scan.ranges, scan.offset, hits[1])
          BY <1>2, <4>2
        <5>2. PICK lo : lo = Head(scan.ranges).base + scan.offset
          OBVIOUS
        <5> QED BY <1>7, <3>0, <4>2, <4>4, <5>1, <5>2 DEF Place
      <4> QED BY <3>0, <4>2, <4>3, <4>4
    <3> QED BY <3>1, <3>2
  <2> QED BY <1>2, <1>3, <1>9, <2>1, <2>2
<1>10. CASE ask \notin {"all", "first"}
  <2>1. CASE ask = "unique" /\ Len(hits) > 1
    <3>1. s.bytes = <<>>
      BY <1>1, <2>1 DEF Result
    <3>2. 1 \in DOMAIN hits /\ 2 \in DOMAIN hits
      BY <1>4, <2>1
    <3>3. hits[1] \in Told(hits) /\ hits[2] \in Told(hits) /\ hits[1] < hits[2]
      BY <1>2, <3>2 DEF Told, InOrder
    <3>4. hits[1] # hits[2]
      BY <1>2, <3>3
    <3>5. Told(<<>>) = {} /\ InOrder(<<>>)
      BY DEF Told, InOrder
    <3> QED BY <1>2, <1>3, <1>10, <3>1, <3>3, <3>4, <3>5
  <2>2. CASE ~(ask = "unique" /\ Len(hits) > 1)
    <3>1. s.bytes = hits
      BY <1>1, <2>2 DEF Result
    <3>2. ~Enough(scan)
      BY <1>1, <1>4, <1>10, <2>2 DEF Enough, Cap
    <3>3. Standing(scan) \subseteq Told(hits)
      BY <1>6, <3>2
    <3>4. hits = <<>> => Told(hits) = {}
      BY DEF Told
    <3> QED BY <1>2, <1>3, <1>10, <3>1, <3>3, <3>4
  <2> QED BY <2>1, <2>2
<1> QED BY <1>8, <1>9, <1>10

LEMMA EndTells ==
  ASSUME Inv, ScanTells, ScanEnds
  PROVE  AnswerTells'
<1>1. scan # Nothing /\ Over /\ PlaceTrue(scan) /\ HitsTrue(scan)
  BY DEF ScanTells, ScanEnds
<1>2. PICK s : s = [op |-> "scan", pattern |-> scan.pattern, options |-> scan.options,
                    known |-> scan.known, bytes |-> Result(scan.options, scan.hits)]
  OBVIOUS
<1>3. /\ s.pattern = scan.pattern /\ s.options = scan.options /\ s.known = scan.known
      /\ s.bytes = Result(scan.options, scan.hits)
  BY <1>2
<1>4. /\ Told(s.bytes) \subseteq Possible(s) /\ InOrder(s.bytes)
      /\ CASE s.options.ask = "all" -> Standing(s) \subseteq Told(s.bytes)
           [] s.options.ask = "first" -> \A a \in Standing(s) : \E h \in Told(s.bytes) : h <= a
           [] OTHER -> IF s.bytes = <<>>
                       THEN Standing(s) = {} \/ \E a, b \in Possible(s) : a # b
                       ELSE Standing(s) \subseteq Told(s.bytes)
  BY <1>1, <1>3, ResultTells DEF Inv
<1>5. answer' = s /\ UNCHANGED <<regions, source, held>>
  BY <1>2 DEF ScanEnds, opened
<1>6. Possible(answer)' = Possible(s)
  BY <1>5 DEF Possible, MayMatch, Within, Looked, Was
<1>7. Standing(answer)' = Standing(s)
  BY <1>5 DEF Standing, Matches, Readable, Within, Looked, Cut, Was
<1> QED BY <1>4, <1>5, <1>6, <1>7 DEF AnswerTells

\* The rest of what is done while a scan is under way or after it.
LEMMA QuietTells ==
  ASSUME Inv, ScanTells, AnswerTells, Grows, UNCHANGED <<regions, source, scan>>,
         scan # Nothing =>
           \/ fetch' \in {fetch, Nothing}
           \/ fetch # Nothing /\ fetch'.address = fetch.address /\ fetch'.size = fetch.size,
         answer' = answer \/ (answer' # Nothing => answer'.op # "scan")
  PROVE  ScanTells' /\ AnswerTells'
<1>1. HeldOK
  BY DEF Inv
<1>2. ScanTells'
  <2>1. CASE scan = Nothing
    BY <2>1 DEF ScanTells
  <2>2. CASE scan # Nothing
    BY <1>1, <2>2, KeepScanTells
  <2> QED BY <2>1, <2>2
<1>3. AnswerTells'
  BY <1>1, KeepAnswerTells, NotOfScan
<1> QED BY <1>2, <1>3

\* Where there is no scan, before or after, none is told of.
LEMMA NoScanTells ==
  ASSUME scan = Nothing, scan' = scan, answer' # Nothing => answer'.op # "scan"
  PROVE  ScanTells' /\ AnswerTells'
BY DEF ScanTells, AnswerTells

LEMMA ScanSteps ==
  ASSUME Inv, ScanTells, AnswerTells, Next
  PROVE  ScanTells' /\ AnswerTells'
<1>1. CASE \/ \E a \in Addrs, byte \in Pokes : GameWrites(a, byte)
           \/ \E p \in Pages : GameFrees(p) \/ GameMaps(p)
  <2>1. Watch /\ UNCHANGED <<opened, asking, answer>>
    BY <1>1 DEF GameWrites, GameFrees, GameMaps
  <2>2. Grows
    BY <2>1 DEF Watch, Grows, Inv, HeldOK
  <2> QED BY <2>1, <2>2, QuietTells DEF opened, asking
<1>2. CASE \E r \in Reads : Read(r[1], r[2])
  <2>1. scan = Nothing /\ scan' = scan /\ answer' = Nothing
    BY <1>2 DEF Read, Idle
  <2> QED BY <2>1, NoScanTells
<1>3. CASE \E s \in Strings : ReadCString(s[1], s[2])
  <2>1. scan = Nothing /\ scan' = scan /\ answer' = Nothing
    BY <1>3 DEF ReadCString, Idle
  <2> QED BY <2>1, NoScanTells
<1>4. CASE ReadPage
  <2>1. UNCHANGED <<regions, source, scan, answer, held>> /\ fetch # Nothing
    BY <1>4 DEF ReadPage, opened
  <2>2. Grows
    BY <2>1 DEF Grows
  <2>3. fetch'.address = fetch.address /\ fetch'.size = fetch.size
    <3>1. fetch \in [address : Nat, size : Nat, bytes : Seq(Bytes), over : BOOLEAN]
      BY <2>1 DEF Inv, FetchOK, FetchTrue
    <3>2. PICK bytes, over : fetch' = [fetch EXCEPT !.bytes = bytes, !.over = over]
      BY <1>4, <3>1 DEF ReadPage, FromPage
    <3> QED BY <3>1, <3>2
  <2> QED BY <2>1, <2>2, <2>3, QuietTells
<1>5. CASE ReadReturns \/ StringChunkRead
  <2>1. call # Nothing /\ scan' = scan
    BY <1>5 DEF ReadReturns, StringChunkRead
  <2>2. scan = Nothing /\ call \in [op : {"read", "string"}, address : Nat, size : Nat, bytes : Seq(Bytes)]
    BY <2>1 DEF Inv, CallOK
  <2>3. CASE \E bytes : answer' = [call EXCEPT !.bytes = bytes]
    <3>1. answer'.op # "scan"
      BY <2>2, <2>3
    <3> QED BY <2>1, <2>2, <3>1, NoScanTells
  <2>4. CASE UNCHANGED <<regions, source, answer, held>>
    <3>1. Grows
      BY <2>4 DEF Grows
    <3> QED BY <2>1, <2>2, <2>4, <3>1, QuietTells
  <2> QED BY <1>5, <2>3, <2>4 DEF ReadReturns, StringChunkRead, Answered, opened
<1>6. CASE \/ \E enable \in BOOLEAN : EnableWrites(enable)
           \/ Invalidate \/ RescanModules
           \/ \E w \in Writes : Write(w[1], w[2])
  <2>1. scan = Nothing /\ scan' = scan /\ answer' = Nothing
    BY <1>6 DEF EnableWrites, Invalidate, RescanModules, Write, Idle, asking
  <2> QED BY <2>1, NoScanTells
<1>7. CASE \E s \in Scans : BeginScan(s[1], s[2])
  <2>1. answer' = Nothing
    BY <1>7 DEF BeginScan
  <2> QED BY <1>7, <2>1, BeginTells DEF AnswerTells
<1>8. CASE ReadChunk \/ ScanChunk
  <2>1. UNCHANGED <<regions, source, answer, held>>
    BY <1>8 DEF ReadChunk, ScanChunk, opened
  <2>2. Grows /\ HeldOK
    BY <2>1 DEF Grows, Inv
  <2> QED BY <1>8, <2>1, <2>2, KeepAnswerTells, FetchTells, ChunkTells
<1>9. CASE ScanEnds
  <2>1. scan' = Nothing
    BY <1>9 DEF ScanEnds
  <2> QED BY <1>9, <2>1, EndTells DEF ScanTells
<1> QED BY <1>1, <1>2, <1>3, <1>4, <1>5, <1>6, <1>7, <1>8, <1>9 DEF Next

LEMMA ScanStutters ==
  ASSUME Inv, ScanTells, AnswerTells, UNCHANGED vars
  PROVE  ScanTells' /\ AnswerTells'
<1>1. UNCHANGED <<regions, source, scan, answer, held, fetch>>
  BY DEF vars, opened, asking
<1>2. Grows
  BY <1>1 DEF Grows
<1> QED BY <1>1, <1>2, QuietTells

\* Two places are more than one.
LEMMA AnswerTellsAll ==
  ASSUME AnswerTells
  PROVE  ScanTellsAll
<1>1. SUFFICES ASSUME answer # Nothing, answer.op = "scan" PROVE ScanTellsAll
  BY DEF ScanTellsAll
<1>2. PICK P : P = Possible(answer)
  OBVIOUS
<1>3. ASSUME NEW a \in P, NEW b \in P, a # b PROVE Cardinality(P) # 1
  <2>1. Top \in Int
    BY Constants
  <2>2. IsFiniteSet(Addrs)
    BY <2>1, FS_Interval DEF Addrs
  <2>3. P \subseteq Addrs
    BY <1>2 DEF Possible
  <2>4. IsFiniteSet(P)
    BY <2>2, <2>3, FS_Subset
  <2>5. Cardinality(P) = 1 => \E x : P = {x}
    BY <2>4, FS_Singleton
  <2> QED BY <1>3, <2>5
<1> QED BY <1>1, <1>2, <1>3 DEF AnswerTells, ScanTellsAll, Told, InOrder

\* Of a target and a chunk of any size: whatever the game does between two pages of a
\* scan, what is told may have been a match and is told once, in order; and what was one
\* all the time, where it could be read, is told, though it lie across two chunks
\* (PatternScanner.cpp:86-211, PatternScanner.h:74-83).
THEOREM ScanTold ==
  ASSUME FilesTrue
  PROVE  Spec => []ScanTellsAll
<1>1. Init => Inv /\ ScanTells /\ AnswerTells
  <2>1. Init => scan = Nothing /\ answer = Nothing
    BY DEF Init
  <2> QED BY <2>1, Starts DEF ScanTells, AnswerTells
<1>2. Inv /\ ScanTells /\ AnswerTells /\ [Next]_vars => (Inv /\ ScanTells /\ AnswerTells)'
  BY Steps, Stutters, ScanSteps, ScanStutters
<1>3. AnswerTells => ScanTellsAll
  BY AnswerTellsAll
<1> QED BY <1>1, <1>2, <1>3, PTL DEF Spec
=============================================================================
