-------------------------------- MODULE Images --------------------------------
(***************************************************************************)
(* Two kinds of file are read as if they were memory.                      *)
(*                                                                         *)
(* The memory in a minidump (core/DumpMemorySource.cpp).  A file has a     *)
(* list of the ranges it captured, in the order they were written; a full  *)
(* dump packs their bytes one after the other from base on, a triage dump  *)
(* says where each begins.  What was recorded about protection comes       *)
(* beside it, or does not.                                                 *)
(*                                                                         *)
(* A file is [full, listed, base, recorded, bytes].  Offsets are from 0.   *)
(*                                                                         *)
(* A PE file read as if it were loaded (core/PeImage.cpp, behind           *)
(* core/StaticMemorySource.cpp).  An image is [base, headers, size,        *)
(* table, sections, bytes]: where it would be loaded, how much of the file *)
(* is headers, how much address space it takes, where its section table    *)
(* ends, and the sections [rva, virtual, at, raw, protect].                *)
(***************************************************************************)
EXTENDS Integers, Sequences, SequencesExt, TLC

Flags == {"read", "write", "execute"}

\* Packed back to back: the offset accumulates over the ranges.
ParseMemory64List(file) ==
  FoldLeft(LAMBDA found, d :
             IF d.size = 0 THEN found
             ELSE [ranges |-> Append(found.ranges,
                                     [start |-> d.start, size |-> d.size, at |-> found.at]),
                   at |-> found.at + d.size],
           [ranges |-> <<>>, at |-> file.base], file.listed).ranges

ParseMemoryList(file) == SelectSeq(file.listed, LAMBDA d : d.size > 0)

Ranges(file) ==
  SortSeq(IF file.full THEN ParseMemory64List(file) ELSE ParseMemoryList(file),
          LAMBDA a, b : a.start < b.start)

\* Ranges are sorted and apart: the last that starts at or before an address
\* holds it, or none does (0).
FindRange(ranges, address) ==
  LET last == Max({i \in DOMAIN ranges : ranges[i].start <= address} \cup {0}) IN
  IF last > 0 /\ address < ranges[last].start + ranges[last].size THEN last ELSE 0

\* What was recorded of the page a range begins in; without a record, or a
\* stream of them, everything is allowed rather than nothing known of.
ProtectOf(recorded, address) ==
  LET k == FindRange(recorded, address) IN IF k = 0 THEN Flags ELSE recorded[k].protect

DumpRegions(file, ranges) ==
  LET recorded == SortSeq(file.recorded, LAMBDA a, b : a.start < b.start) IN
  [k \in DOMAIN ranges |-> [base |-> ranges[k].start, size |-> ranges[k].size,
                            protect |-> ProtectOf(recorded, ranges[k].start)]]

\* From range to range as long as they touch.  Of a range the file does not
\* have to the end of what is wanted nothing is read.
ReadDump(file, ranges, address, size) ==
  LET From[done \in 0 .. size] ==
        LET k == FindRange(ranges, address + done)
            into == address + done - ranges[k].start
            want == Min({size - done, ranges[k].size - into})
            at == ranges[k].at + into IN
        IF done = size \/ k = 0 THEN <<>>
        ELSE IF at + want > Len(file.bytes) THEN <<>>
        ELSE SubSeq(file.bytes, at + 1, at + want) \o From[done + want] IN
  From[0]

\* Parse: a file without a range in it is refused.
DumpOpens(file) == Ranges(file) # <<>>
-----------------------------------------------------------------------------
(* PE files                                                                *)

\* A section table cut off is refused; a file cut off behind it is not.
ImageOpens(image) == image.table <= Len(image.bytes)

SpanOf(section) == Max({section.virtual, section.raw})

\* The first section that has the address, 0 when none has.
SectionForRva(image, rva) ==
  LET holding == {k \in DOMAIN image.sections :
                    LET s == image.sections[k] IN rva >= s.rva /\ rva < s.rva + SpanOf(s)} IN
  IF holding = {} THEN 0 ELSE Min(holding)

Zeros(n) == [k \in 1 .. n |-> 0]

\* Below the first section the file is mapped as it is.
HeaderSpan(image, rva, size) ==
  LET want == Min({size, image.headers - rva})
      has == Max({0, Min({want, Len(image.bytes) - rva})}) IN
  [bytes |-> SubSeq(image.bytes, rva + 1, rva + has), ends |-> has < want]

\* The part of a section the file has, and zeros to the end of its span.
SectionSpan(image, section, rva, size) ==
  LET into == rva - section.rva
      want == Min({size, SpanOf(section) - into})
      has == Max({0, Min({want, section.raw - into})})
      at == section.at + into IN
  IF has > 0 /\ at + has > Len(image.bytes) THEN [bytes |-> <<>>, ends |-> TRUE]
  ELSE [bytes |-> SubSeq(image.bytes, at + 1, at + has) \o Zeros(want - has),
        ends |-> FALSE]

ReadRva(image, rva, size) ==
  LET From[done \in 0 .. size] ==
        LET cur == rva + done
            k == SectionForRva(image, cur)
            span == IF cur < image.headers THEN HeaderSpan(image, cur, size - done)
                    ELSE IF k = 0 THEN [bytes |-> <<>>, ends |-> TRUE]
                    ELSE SectionSpan(image, image.sections[k], cur, size - done) IN
        IF done = size THEN <<>>
        ELSE IF span.ends THEN span.bytes
        ELSE span.bytes \o From[done + Len(span.bytes)] IN
  From[0]

\* StaticMemorySource: nothing is below the base.
ReadImage(image, address, size) ==
  IF address < image.base THEN <<>> ELSE ReadRva(image, address - image.base, size)

ImageRegions(image) ==
  [k \in DOMAIN image.sections |->
     [base |-> image.base + image.sections[k].rva, size |-> SpanOf(image.sections[k]),
      protect |-> image.sections[k].protect]]
===============================================================================
