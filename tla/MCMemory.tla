------------------------------ MODULE MCMemory ------------------------------
(* Small targets: a process from inside and one from outside, dumps and      *)
(* images, two of which are refused; 1s and 2s are what there is to find.    *)
EXTENDS Memory

RX == {"read", "execute"}
RW == {"read", "write"}
None == [p \in Pages |-> Free]

\* A module of three pages of code and one of data, of which it has half.
Code == <<0, 0, 1, 2, 1, 1, 2, 1, 2, 1>>
Game == [kind |-> "internal", bytes |-> [a \in Addrs |-> Code[a + 1]],
         protect |-> [p \in Pages |-> <<Free, RX, RX, RX, RW>>[p + 1]],
         module |-> [base |-> 2, size |-> 7], listed |-> TRUE]
\* Data beside code, a page nobody may touch, and modules not listed yet.
Starting == [Game EXCEPT !.kind = "external", !.listed = FALSE,
                         !.protect = [p \in Pages |-> <<Free, RX, RW, Free, {}>>[p + 1]]]

\* What a dump program writes: the ranges in some order, and their bytes.
ByteAt(a) == IF a % 3 = 0 THEN 1 ELSE IF a % 3 = 1 THEN 2 ELSE 0
Packed(listed) ==
  FlattenSeq([k \in DOMAIN listed |->
                [j \in 1 .. listed[k].size |-> ByteAt(listed[k].start + j - 1)]])
Captured(listed) == UNION {listed[k].start .. listed[k].start + listed[k].size - 1 :
                             k \in DOMAIN listed}
DumpOf(full, listed, recorded, bytes) ==
  [kind |-> "dump", listed |-> TRUE, module |-> [base |-> 2, size |-> 6], protect |-> None,
   file |-> [full |-> full, listed |-> listed, base |-> Len(bytes) - Len(Packed(listed)),
             recorded |-> recorded, bytes |-> bytes],
   bytes |-> [a \in Addrs |-> IF a \in Captured(listed) THEN ByteAt(a) ELSE Gone]]
Piece(start, size) == [start |-> start, size |-> size]
Head3 == <<7, 7, 7>>
Ordered == <<Piece(8, 2), Piece(4, 0), Piece(2, 4)>>
Full1 == DumpOf(TRUE, Ordered, <<[start |-> 0, size |-> 6, protect |-> RX],
                                 [start |-> 8, size |-> 2, protect |-> RW]>>, Head3 \o Packed(Ordered))
\* Ranges that touch, and one that ends within a page.
Touching == <<Piece(2, 2), Piece(4, 3), Piece(8, 1)>>
Full2 == DumpOf(TRUE, Touching, <<>>, Head3 \o Packed(Touching))
\* The end of the file is gone, and with it the last byte of the last range.
Short == [Full2 EXCEPT !.file.bytes = SubSeq(@, 1, Len(@) - 2),
                       !.bytes = [@ EXCEPT ![8] = Gone, ![6] = Gone]]
Stacks == <<[start |-> 5, size |-> 4, at |-> 6], [start |-> 1, size |-> 2, at |-> 1]>>
Triage == [DumpOf(FALSE, Stacks, <<>>, <<>>) EXCEPT
             !.file.bytes = <<7, ByteAt(1), ByteAt(2), 7, 7, 7,
                              ByteAt(5), ByteAt(6), ByteAt(7), ByteAt(8)>>]
Nowhere == DumpOf(TRUE, <<Piece(4, 0)>>, <<>>, <<>>)

\* What the loader makes of an image: headers, what the file has of each section,
\* and zeros; the rest of a section's last page is nobody's.
Loaded(image, rva) ==
  LET mine == {k \in DOMAIN image.sections :
                 rva \in image.sections[k].rva ..
                           image.sections[k].rva + SpanOf(image.sections[k]) - 1} IN
  IF rva < image.headers
  THEN IF rva + 1 \in DOMAIN image.bytes THEN image.bytes[rva + 1] ELSE Gone
  ELSE IF mine = {} THEN Gone
  ELSE LET s == image.sections[CHOOSE k \in mine : TRUE] IN
       IF rva - s.rva >= s.raw THEN 0
       ELSE IF s.at + rva - s.rva + 1 \in DOMAIN image.bytes
       THEN image.bytes[s.at + rva - s.rva + 1] ELSE Gone
ImageOf(sections, bytes) ==
  LET image == [base |-> 1, headers |-> 2, size |-> 8, table |-> 2, sections |-> sections,
                bytes |-> bytes] IN
  [kind |-> "image", listed |-> TRUE, module |-> [base |-> 1, size |-> 8], protect |-> None,
   file |-> image,
   bytes |-> [a \in Addrs |-> IF a < 1 THEN Gone ELSE Loaded(image, a - 1)]]
Section(rva, virtual, at, raw, flags) ==
  [rva |-> rva, virtual |-> virtual, at |-> at, raw |-> raw, protect |-> flags]
\* A tail of zeros; padding of the file past the section; no file bytes at all.
Image1 == ImageOf(<<Section(2, 3, 2, 2, RX), Section(6, 2, 4, 2, RW)>>, <<9, 9, 1, 2, 1, 2>>)
Image2 == ImageOf(<<Section(2, 2, 3, 4, RX), Section(6, 3, 3, 0, RW)>>, <<9, 9, 9, 1, 1, 2, 1>>)
Image3 == ImageOf(<<Section(2, 4, 2, 3, RX), Section(6, 2, 5, 2, RX)>>, <<9, 9, 2, 1, 2, 1>>)
NoTable == ImageOf(<<>>, <<9>>)

MCSources ==
  {Game, Starting, Full1, Full2, Short, Triage, Nowhere, Image1, Image2, Image3, NoTable}

\* What the proofs take of files is true of these, as far as reads of them go.
ASSUME FilesStandForMemory ==
  \A s \in MCSources : s.kind \in {"dump", "image"} /\ Opens(s) =>
    StandsFor(s, 0 .. Top + 2, 0 .. Top + 3)

MCReads == {<<2, 1>>, <<5, 4>>, <<0, 3>>, <<3, 6>>}
MCStrings == {<<2, 5>>, <<5, 3>>}
MCWrites == {<<4, <<3>>>>, <<5, <<3, 3>>>>, <<7, <<0, 3>>>>}

Options(executable, whole, ask) ==
  [executable_only |-> executable, whole_process |-> whole, ask |-> ask]
MCScans ==
  {<<p, Options(way[1], way[2], "all")>> :
     p \in {<<1, 2>>, <<AnyByte, 1>>},
     way \in {<<TRUE, FALSE>>, <<FALSE, FALSE>>, <<FALSE, TRUE>>}}
  \cup {<<<<2>>, Options(TRUE, FALSE, ask)>> : ask \in {"all", "first", "unique"}}
  \cup {<<<<1, AnyByte, 2>>, Options(FALSE, FALSE, ask)>> : ask \in {"all", "unique"}}
=============================================================================
