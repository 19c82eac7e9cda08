------------------------------ MODULE Scanner -------------------------------
(***************************************************************************)
(* What PatternScanner (core/PatternScanner.cpp) looks for and where.  A   *)
(* pattern is a sequence of bytes and AnyByte, not all of it AnyByte; a    *)
(* region and a module are [base, size].                                   *)
(***************************************************************************)
EXTENDS Integers, Sequences, FiniteSetsExt

CONSTANTS AnyByte,    \* a wildcard of a pattern
          ChunkSize   \* kChunkSize: 1 MiB in the code

FixedAt(pattern) == {k \in DOMAIN pattern : pattern[k] # AnyByte}

\* Pattern::Parse, FromBytesAndMask: nothing to look for is refused.
ParsesTo(pattern) == FixedAt(pattern) # {}

Overlap(pattern) == Len(pattern) - 1

MatchesAt(pattern, data, at) ==
  \A k \in FixedAt(pattern) : data[at + k] = pattern[k]

\* Numbers in the order a loop comes to them.
Ascending(S) ==
  CHOOSE seq \in [1 .. Cardinality(S) -> S] :
    /\ {seq[k] : k \in DOMAIN seq} = S
    /\ \A i, j \in DOMAIN seq : i < j => seq[i] < seq[j]

\* memchr jumps from one occurrence of the first fixed byte to the next.
Candidates(pattern, data) ==
  LET first == Min(FixedAt(pattern)) IN
  {at \in 0 .. Len(data) - Len(pattern) : data[at + first] = pattern[first]}

MatchesIn(pattern, data) ==
  Ascending({at \in Candidates(pattern, data) : MatchesAt(pattern, data, at)})

Wanted(region, options) ==
  /\ "read" \in region.protect
  /\ options.executable_only => "execute" \in region.protect

Clipped(region, module) ==
  LET lo == Max({region.base, module.base})
      hi == Min({region.base + region.size, module.base + module.size}) IN
  [base |-> lo, size |-> Max({0, hi - lo})]

WholeOf(region) == [base |-> region.base, size |-> region.size]

\* The readable regions, of the process or clipped to the module: none when
\* the module is not known.
BuildRanges(regions, modules, options) ==
  LET RangeOf(region) == IF options.whole_process THEN WholeOf(region)
                         ELSE Clipped(region, modules[1])
      kept == Ascending({k \in DOMAIN regions : /\ Wanted(regions[k], options)
                                                /\ RangeOf(regions[k]).size > 0}) IN
  IF ~options.whole_process /\ modules = <<>> THEN <<>>
  ELSE [j \in DOMAIN kept |-> RangeOf(regions[kept[j]])]

\* Scan, ScanFirst and ScanUnique differ in how many hits they stop at (0: never).
Cap(options) ==
  CASE options.ask = "first" -> 1 [] options.ask = "unique" -> 2 [] OTHER -> 0

\* Two hits are none for who asked for the only one.
Result(options, hits) ==
  IF options.ask = "unique" /\ Len(hits) > 1 THEN <<>> ELSE hits
=============================================================================
