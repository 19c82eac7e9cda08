------------------------------- MODULE Memory -------------------------------
(***************************************************************************)
(* The memory of a target as the whole tool reads it (core/MemorySource.h):*)
(* through one of four providers, a process from outside or from inside, a *)
(* minidump or a PE file, and where objects can be walked through a page   *)
(* cache in front of it, whose pages nothing ages.  A live target goes on  *)
(* running: it writes its memory, frees it and gets some more.             *)
(*                                                                         *)
(* Memory is scaled down: PageSize bytes to a page, Slots to the cache.  A *)
(* read is a step per page, and the game moves between them.  One thread   *)
(* asks; Browser is about two.                                             *)
(***************************************************************************)
EXTENDS Scanner, Images

CONSTANTS Sources,       \* what can be opened
          Top,           \* the last address
          PageSize,      \* kPageSize: 4096
          Slots,         \* slots of the cache: a power of two
          StringChunk,   \* kChunk of ReadCString: 64
          Gone,          \* what is read where nothing can be
          Free,          \* the protection of a page that is not committed
          NoPage,        \* kInvalidTag
          Nothing,       \* no answer, no scan
          Reads,         \* the reads asked for: <<address, size>>
          Strings,       \* the strings asked for: <<address, most>>
          Writes,        \* the writes asked for: <<address, bytes>>
          Scans,         \* the scans asked for: <<pattern, options>>
          Pokes,         \* bytes the game writes
          MaxTicks,      \* bound: how often the game touches its memory
          MaxWrites      \* bound: writes

Addrs == 0 .. Top
Pages == 0 .. Top \div PageSize

Bytes == 0 .. 255

ASSUME MemoryAssumption ==
  /\ {PageSize, Slots, ChunkSize, StringChunk} \subseteq Nat \ {0}
  /\ Top \in Nat /\ (Top + 1) % PageSize = 0
  /\ \A s \in Scans : s[1] \in Seq({AnyByte} \cup Bytes) /\ ParsesTo(s[1])

\* What a target may be: nobody gets page 0 from inside, and the bytes of a live one
\* are bytes whoever may read them.
ASSUME TargetAssumption ==
  /\ Gone \notin Bytes /\ NoPage \notin Nat /\ \A flags \in SUBSET Flags : flags # Free
  /\ \A s \in Sources :
       /\ s.kind \in {"external", "internal", "dump", "image"}
       /\ s.protect \in [Pages -> {Free} \cup SUBSET Flags]
       /\ s.bytes \in [Addrs -> {Gone} \cup Bytes]
       /\ s.kind \in {"external", "internal"} => s.bytes \in [Addrs -> Bytes]
       /\ s.kind = "internal" => s.protect[0] = Free
       /\ s.module \in [base : Nat, size : Nat]

ASSUME CallsAssumption ==
  /\ Pokes \subseteq Bytes
  /\ \A r \in Reads \cup Strings : r[1] \in Nat /\ r[2] \in Nat
  /\ \A w \in Writes : /\ w[1] \in Nat /\ w[2] \in Seq(Bytes) /\ w[2] # <<>>
                       /\ w[1] + Len(w[2]) - 1 \in Addrs

VARIABLES source,   \* what was opened
          mem,      \* bytes of a live target, what a file stands for of the others
          protect,  \* the protection of its pages
          ranges,   \* of a dump: what it captured, in order
          regions,  \* its regions as they were when it was opened
          modules,  \* the modules listed: the main one, or none yet
          writable, \* writes_enabled_
          cache,    \* the slots: a page and as much of it as could be read
          fetch,    \* the read under way: the bytes it has of those it wants
          call,     \* who asked for it: Read, ReadCString, or nobody but a scan
          scan,     \* the scan under way
          answer,   \* what the last call came back with
          held,     \* history: what each byte has been since the cache was emptied
          ticks, written

target == <<mem, protect, ticks>>
opened == <<source, ranges, regions>>
asking == <<fetch, call, scan>>
vars == <<opened, target, modules, writable, cache, asking, answer, held, written>>

Live == source.kind \in {"external", "internal"}
PageOf(a) == a \div PageSize
PagesOf(a, size) == PageOf(a) .. PageOf(a + size - 1)
Committed(p) == protect[p] # Free
Allows(protection, flag) == protection # Free /\ flag \in protection
May(flag, p) == Allows(protect[p], flag)

\* What a byte is to a reader.
Seen(bytes, protection, a) ==
  IF Live /\ ~Allows(protection[PageOf(a)], "read") THEN Gone ELSE bytes[a]
Byte(a) == Seen(mem, protect, a)
-----------------------------------------------------------------------------
(* The providers                                                           *)

\* VirtualQuery tells of runs of one protection; what is not committed, and
\* what nobody may touch, is no region.
RefreshRegions(protection) ==
  LET starts == {p \in Pages : p = 0 \/ protection[p - 1] # protection[p]}
      End(p) == Min({q \in starts : q > p} \cup {Top \div PageSize + 1})
      kept == {p \in starts : protection[p] \notin {Free, {}}} IN
  [k \in 1 .. Cardinality(kept) |->
     LET p == SetToSortSeq(kept, LAMBDA a, b : a < b)[k] IN
     [base |-> p * PageSize, size |-> (End(p) - p) * PageSize, protect |-> protection[p]]]

\* Taken when the source is opened, and never again.
RegionsOf(s) ==
  CASE s.kind = "dump" -> DumpRegions(s.file, Ranges(s.file))
    [] s.kind = "image" -> ImageRegions(s.file)
    [] OTHER -> RefreshRegions(s.protect)

\* ReadProcessMemory counts what it got before it met a page it may not read;
\* the guarded copy is retried page by page; and nothing is at 0.
Missing(address, size) ==
  {n \in 0 .. size - 1 : address + n \notin Addrs \/ Byte(address + n) = Gone}

ReadLive(address, size) ==
  IF address = 0 /\ source.kind = "internal" THEN <<>>
  ELSE [k \in 1 .. Min(Missing(address, size) \cup {size}) |-> mem[address + k - 1]]

ProviderRead(address, size) ==
  CASE source.kind = "dump" -> ReadDump(source.file, ranges, address, size)
    [] source.kind = "image" -> ReadImage(source.file, address, size)
    [] OTHER -> ReadLive(address, size)

\* Caps().live_objects: what a cache is put in front of.
LiveObjects(s) == s.kind = "dump" => s.file.full
Cached == source.kind # "image" /\ LiveObjects(source)
-----------------------------------------------------------------------------
(* The cache                                                               *)

Unused == [tag |-> NoPage, data |-> <<>>]
Empty == [slot \in 0 .. Slots - 1 |-> Unused]
SlotOf(page) == page % Slots

\* A page that cannot be read is kept too.
FetchPage(slots, page) ==
  IF slots[SlotOf(page)].tag = page THEN slots
  ELSE [slots EXCEPT ![SlotOf(page)] =
          [tag |-> page, data |-> ProviderRead(page * PageSize, PageSize)]]

\* What is wanted of a source, and what has come of it so far.
Wanting(address, size) == [address |-> address, size |-> size, bytes |-> <<>>, over |-> FALSE]
Done(f) == f.over \/ Len(f.bytes) = f.size

\* The part of it that is in one page: a read stops where the page does.
FromPage(f, data) ==
  LET done == Len(f.bytes)
      in_page == (f.address + done) % PageSize
      end == Min({in_page + f.size - done, PageSize}) IN
  [f EXCEPT !.bytes = @ \o SubSeq(data, in_page + 1, Min({end, Len(data)})),
            !.over = Len(data) < end]

\* Mutant: a write is taken to lie in one page.
InvalidateFirst(slots, address, size) ==
  [slot \in DOMAIN slots |->
     IF slots[slot].tag = PageOf(address) THEN Unused
     ELSE slots[slot]]

InvalidateRange(slots, address, size) ==
  [slot \in DOMAIN slots |->
     IF slots[slot].tag \in PagesOf(address, size) THEN Unused
     ELSE slots[slot]]
-----------------------------------------------------------------------------
Opens(s) ==
  CASE s.kind = "dump" -> DumpOpens(s.file) [] s.kind = "image" -> ImageOpens(s.file)
    [] OTHER -> TRUE

\* Regions are told in order and are apart.
ASSUME RegionsAssumption ==
  \A s \in {t \in Sources : Opens(t)} :
    /\ RegionsOf(s) \in Seq([base : Nat, size : Nat, protect : SUBSET Flags])
    /\ \A j, k \in DOMAIN RegionsOf(s) :
         j < k => RegionsOf(s)[j].base + RegionsOf(s)[j].size <= RegionsOf(s)[k].base

Init ==
  /\ source \in {s \in Sources : Opens(s)}
  /\ mem = source.bytes
  /\ protect = source.protect
  /\ ranges = IF source.kind = "dump" THEN Ranges(source.file) ELSE <<>>
  /\ regions = RegionsOf(source)
  /\ modules = IF source.listed THEN <<source.module>> ELSE <<>>
  /\ writable = FALSE
  /\ cache = Empty
  /\ fetch = Nothing /\ call = Nothing /\ scan = Nothing /\ answer = Nothing
  /\ held = [a \in Addrs |-> {Byte(a)}]
  /\ ticks = 0 /\ written = 0

\* What the bytes are from now on is remembered with what they were.
Watch == held' = [a \in Addrs |-> held[a] \cup {Seen(mem', protect', a)}]

GameWrites(a, byte) ==
  /\ Live /\ ticks < MaxTicks /\ May("write", PageOf(a))
  /\ mem' = [mem EXCEPT ![a] = byte]
  /\ ticks' = ticks + 1
  /\ UNCHANGED <<opened, protect, modules, writable, cache, asking, answer, written>>
  /\ Watch

GameFrees(p) ==
  /\ Live /\ ticks < MaxTicks /\ Committed(p)
  /\ protect' = [protect EXCEPT ![p] = Free]
  /\ ticks' = ticks + 1
  /\ UNCHANGED <<opened, mem, modules, writable, cache, asking, answer, written>>
  /\ Watch

GameMaps(p) ==
  /\ Live /\ ticks < MaxTicks /\ ~Committed(p) /\ p > 0
  /\ protect' = [protect EXCEPT ![p] = {"read", "write"}]
  /\ mem' = [a \in Addrs |-> IF PageOf(a) = p THEN 0 ELSE mem[a]]
  /\ ticks' = ticks + 1
  /\ Watch
  /\ UNCHANGED <<opened, modules, writable, cache, asking, answer, written>>
-----------------------------------------------------------------------------
(* What is asked of it                                                     *)

Idle == fetch = Nothing /\ call = Nothing /\ scan = Nothing

\* A page of what is wanted, out of the cache; where there is none the provider
\* is asked for all of it.
ReadPage ==
  /\ fetch # Nothing /\ ~Done(fetch)
  /\ IF Cached
     THEN LET page == PageOf(fetch.address + Len(fetch.bytes)) IN
          /\ cache' = FetchPage(cache, page)
          /\ fetch' = FromPage(fetch, cache'[SlotOf(page)].data)
     ELSE /\ fetch' = [fetch EXCEPT !.bytes = ProviderRead(fetch.address, fetch.size), !.over = TRUE]
          /\ UNCHANGED cache
  /\ UNCHANGED <<opened, target, modules, writable, call, scan, answer, held, written>>

\* What there is for who asked.
Fetched == fetch # Nothing /\ Done(fetch)

Asked(op, address, size) ==
  call' = [op |-> op, address |-> address, size |-> size, bytes |-> <<>>]
Answered(bytes) ==
  /\ answer' = [call EXCEPT !.bytes = bytes]
  /\ fetch' = Nothing /\ call' = Nothing

Read(address, size) ==
  /\ Idle
  /\ Asked("read", address, size)
  /\ fetch' = Wanting(address, size)
  /\ answer' = Nothing
  /\ UNCHANGED <<opened, target, modules, writable, cache, scan, held, written>>

ReadReturns ==
  /\ call # Nothing /\ call.op = "read" /\ Fetched
  /\ Answered(fetch.bytes)
  /\ UNCHANGED <<opened, target, modules, writable, cache, scan, held, written>>

\* The bytes before the terminator.
UpToZero(bytes) ==
  SubSeq(bytes, 1, Min({k \in DOMAIN bytes : bytes[k] = 0} \cup {Len(bytes) + 1}) - 1)

NextChunk(address, most, text) ==
  Wanting(address + Len(text), Min({StringChunk, most - Len(text)}))

ReadCString(address, most) ==
  /\ Idle
  /\ Asked("string", address, most)
  /\ fetch' = NextChunk(address, most, <<>>)
  /\ answer' = Nothing
  /\ UNCHANGED <<opened, target, modules, writable, cache, scan, held, written>>

\* In chunks, until one ends early, at a terminator or where nothing can be
\* read, or the string is as long as it may be.
StringChunkRead ==
  LET chunk == UpToZero(fetch.bytes)
      text == call.bytes \o chunk IN
  /\ call # Nothing /\ call.op = "string" /\ Fetched
  /\ \/ /\ Len(chunk) < fetch.size \/ Len(text) = call.size
        /\ Answered(text)
     \/ /\ Len(chunk) = fetch.size /\ Len(text) < call.size
        /\ fetch' = NextChunk(call.address, call.size, text)
        /\ call' = [call EXCEPT !.bytes = text]
        /\ UNCHANGED answer
  /\ UNCHANGED <<opened, target, modules, writable, cache, scan, held, written>>

\* From outside a second handle is asked for, and may be refused.  A file
\* takes no writes.
EnableWrites(enable) ==
  /\ Idle /\ Live
  /\ \/ writable' = enable
     \/ writable' = writable /\ enable /\ source.kind = "external"
  /\ answer' = Nothing
  /\ UNCHANGED <<opened, target, modules, cache, asking, held, written>>

Invalidate ==
  /\ Idle
  /\ cache' = Empty
  /\ held' = [a \in Addrs |-> {Byte(a)}]
  /\ answer' = Nothing
  /\ UNCHANGED <<opened, target, modules, writable, asking, written>>

\* A list that cannot be had leaves the last one as it was.
RescanModules ==
  /\ Idle /\ Live
  /\ modules' \in {modules, <<source.module>>}
  /\ answer' = Nothing
  /\ UNCHANGED <<opened, target, writable, cache, asking, held, written>>

Stored(address, bytes) ==
  [a \in Addrs |-> IF a \in address .. address + Len(bytes) - 1 THEN bytes[a - address + 1]
                   ELSE mem[a]]

\* VirtualProtect gives back one protection, the first page's, and that one is
\* put back on all of them.
Restored(pages) ==
  [p \in Pages |-> IF p \in pages THEN protect[Min(pages)] ELSE protect[p]]

\* Straight away from outside where it may, else with the protection lifted.
WriteLands(address, bytes) ==
  LET pages == PagesOf(address, Len(bytes))
      straight == source.kind = "external" /\ \A p \in pages : May("write", p) IN
  /\ \A p \in pages : Committed(p)
  /\ mem' = Stored(address, bytes)
  /\ protect' = IF straight THEN protect ELSE Restored(pages)
  /\ cache' = InvalidateRange(cache, address, Len(bytes))
  /\ held' = [a \in Addrs |-> {Seen(mem', protect', a)} \cup
                                IF a \in address .. address + Len(bytes) - 1 THEN {} ELSE held[a]]

\* Where a page is not there protection cannot be lifted.  From outside the
\* pages before it may have been written; the cache is not told.
WriteFails(address, bytes) ==
  LET pages == PagesOf(address, Len(bytes))
      refused == {n \in 0 .. Len(bytes) - 1 : ~May("write", PageOf(address + n))}
      reach == Min(refused \cup {Len(bytes)}) IN
  /\ \E p \in pages : ~Committed(p)
  /\ mem' \in {mem} \cup (IF source.kind = "external"
                          THEN {Stored(address, SubSeq(bytes, 1, reach))} ELSE {})
  /\ UNCHANGED <<protect, cache>>
  /\ Watch

Write(address, bytes) ==
  /\ Idle /\ writable /\ written < MaxWrites
  /\ WriteLands(address, bytes) \/ WriteFails(address, bytes)
  /\ written' = written + 1
  /\ answer' = Nothing
  /\ UNCHANGED <<opened, modules, writable, asking, ticks>>
-----------------------------------------------------------------------------
(* PatternScanner::Scan                                                    *)

BeginScan(pattern, options) ==
  /\ Idle
  /\ scan' = [pattern |-> pattern, options |-> options, known |-> modules,
              ranges |-> BuildRanges(regions, modules, options),
              offset |-> 0, hits |-> <<>>]
  /\ answer' = Nothing
  /\ UNCHANGED <<opened, target, modules, writable, cache, fetch, call, held, written>>

Full(hits) == Cap(scan.options) > 0 /\ Len(hits) >= Cap(scan.options)
Over == scan.ranges = <<>> \/ Full(scan.hits)

\* Mutant: a chunk begins where the last one ended.
AdvanceWhole(got, want) ==
  IF got < Len(scan.pattern) THEN scan.offset + (IF got > 0 THEN got ELSE ChunkSize)
  ELSE IF got < want THEN Head(scan.ranges).size
  ELSE scan.offset + got

\* Past what could not be read, to the end of the range if it was read in part,
\* else on by a chunk, the overlap to be read again.
Advance(got, want) ==
  IF got < Len(scan.pattern) THEN scan.offset + (IF got > 0 THEN got ELSE ChunkSize)
  ELSE IF got < want THEN Head(scan.ranges).size
  ELSE scan.offset + got - Overlap(scan.pattern)

Found(read, from) ==
  LET hits == MatchesIn(scan.pattern, read)
      all == scan.hits \o [k \in DOMAIN hits |-> from + hits[k]] IN
  IF Full(all) THEN SubSeq(all, 1, Cap(scan.options)) ELSE all

ReadChunk ==
  /\ scan # Nothing /\ fetch = Nothing /\ ~Over
  /\ fetch' = Wanting(Head(scan.ranges).base + scan.offset,
                      Min({ChunkSize + Overlap(scan.pattern),
                           Head(scan.ranges).size - scan.offset}))
  /\ UNCHANGED <<opened, target, modules, writable, cache, call, scan, answer, held, written>>

ScanChunk ==
  LET range == Head(scan.ranges) IN
  /\ scan # Nothing /\ Fetched /\ ~Over
  /\ \E next \in {Advance(Len(fetch.bytes), fetch.size)} :
       scan' = [scan EXCEPT !.hits = Found(fetch.bytes, fetch.address),
                            !.ranges = IF next >= range.size THEN Tail(@) ELSE @,
                            !.offset = IF next >= range.size THEN 0 ELSE next]
  /\ fetch' = Nothing
  /\ UNCHANGED <<opened, target, modules, writable, cache, call, answer, held, written>>

ScanEnds ==
  /\ scan # Nothing /\ fetch = Nothing /\ Over
  /\ answer' = [op |-> "scan", pattern |-> scan.pattern, options |-> scan.options,
                known |-> scan.known, bytes |-> Result(scan.options, scan.hits)]
  /\ scan' = Nothing
  /\ UNCHANGED <<opened, target, modules, writable, cache, fetch, call, held, written>>
-----------------------------------------------------------------------------
Next ==
  \/ \E a \in Addrs, byte \in Pokes : GameWrites(a, byte)
  \/ \E p \in Pages : GameFrees(p) \/ GameMaps(p)
  \/ \E r \in Reads : Read(r[1], r[2])
  \/ \E s \in Strings : ReadCString(s[1], s[2])
  \/ ReadPage \/ ReadReturns \/ StringChunkRead
  \/ \E enable \in BOOLEAN : EnableWrites(enable)
  \/ Invalidate \/ RescanModules
  \/ \E w \in Writes : Write(w[1], w[2])
  \/ \E s \in Scans : BeginScan(s[1], s[2])
  \/ ReadChunk \/ ScanChunk \/ ScanEnds

Spec == Init /\ [][Next]_vars
-----------------------------------------------------------------------------
(* Properties                                                              *)

\* What a file is read as.
FileRead(s, address, size) ==
  IF s.kind = "dump" THEN ReadDump(s.file, Ranges(s.file), address, size)
  ELSE ReadImage(s.file, address, size)

\* The file stands for these bytes: a read of it gives them, and stops short only
\* where one of those that are wanted is not in it.
StandsFor(s, addresses, sizes) ==
  \A address \in addresses, size \in sizes :
    \E bytes \in {FileRead(s, address, size)} :
      /\ bytes \in Seq(Bytes) /\ Len(bytes) <= size
      /\ \A k \in 1 .. Len(bytes) :
           address + k - 1 \in Addrs /\ bytes[k] = s.bytes[address + k - 1]
      /\ Len(bytes) < size =>
           \E x \in address + Len(bytes) .. address + size - 1 :
             x \notin Addrs \/ s.bytes[x] = Gone

Was(a) == IF a \in Addrs THEN held[a] ELSE {Gone}

\* A place in the page of a, or behind it in that of b, could not be read.
Cut(a, b) ==
  \E x \in PageOf(a) * PageSize .. (PageOf(b) + 1) * PageSize - 1 : Gone \in Was(x)

\* Every byte that is read was there at some moment since the cache was last
\* emptied, one's own writes are read back, and nothing is missing that could be
\* read all that time: a read stops short, and a string without its terminator, only
\* where a page on the way could not be read (MemorySource.h:20-34).  A minidump and
\* an image read as the memory they stand for (README.md:1440).
ReadsAreOfTheirTime ==
  answer # Nothing /\ answer.op \in {"read", "string"} =>
    LET at == answer.address  got == Len(answer.bytes) IN
    /\ \A k \in 1 .. got : answer.bytes[k] \in Was(at + k - 1) \ {Gone}
    /\ got < answer.size =>
         \/ Cut(at + got, at + answer.size - 1)
         \/ answer.op = "string" /\ 0 \in Was(at + got)
    /\ answer.op = "string" => \A k \in 1 .. got : answer.bytes[k] # 0

\* Where the pattern of a scan may have been, and where it was all the time.
MayMatch(pattern, a) == \A k \in FixedAt(pattern) : pattern[k] \in Was(a + k - 1)
Matches(pattern, a) == \A k \in FixedAt(pattern) : Was(a + k - 1) = {pattern[k]}

\* A range that could be read all the time, page for page.
Readable(range) == ~Cut(range.base, range.base + range.size - 1)
Within(pattern, a, range) ==
  a >= range.base /\ a + Len(pattern) <= range.base + range.size
LookedIn(region, options) ==
  /\ "read" \in region.protect
  /\ options.executable_only => "execute" \in region.protect
\* Where a scan had to look: all of the process, or the module where it was known.
Looked(s) ==
  {range \in {IF s.options.whole_process THEN WholeOf(regions[k])
              ELSE Clipped(regions[k], source.module) :
                k \in {j \in DOMAIN regions : LookedIn(regions[j], s.options)}} :
     s.options.whole_process \/ s.known # <<>>}
Possible(s) ==
  {a \in Addrs : MayMatch(s.pattern, a) /\ \E range \in Looked(s) : Within(s.pattern, a, range)}
Standing(s) ==
  {a \in Addrs : /\ Matches(s.pattern, a)
                 /\ \E range \in Looked(s) : Readable(range) /\ Within(s.pattern, a, range)}

\* A scan tells of real matches only, once each and in order, and of every one
\* that was there all the time in a region that could be read; the first is the
\* first, and a match said to be the only one is (PatternScanner.h:74-83).
ScanTellsAll ==
  answer # Nothing /\ answer.op = "scan" =>
    LET hits == answer.bytes
        told == {hits[k] : k \in DOMAIN hits} IN
    /\ told \subseteq Possible(answer)
    /\ \A j, k \in DOMAIN hits : j < k => hits[j] < hits[k]
    /\ CASE answer.options.ask = "all" -> Standing(answer) \subseteq told
         [] answer.options.ask = "first" -> \A a \in Standing(answer) : \E h \in told : h <= a
         [] OTHER -> IF hits = <<>>
                     THEN Cardinality(Possible(answer)) # 1 \/ Standing(answer) = {}
                     ELSE Standing(answer) \subseteq told
=============================================================================
