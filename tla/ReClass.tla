------------------------------- MODULE ReClass ------------------------------
(* The project for ReClass.NET: emit/src/ReClass.cpp.  A class is a row of    *)
(* nodes without offsets: where a node is follows from what is before it.     *)
EXTENDS Disasm

CONSTANTS
  StemOfProcess     \* the file name made of the name of a process, or of its main module

Node(type, size, name, of) == [type |-> type, size |-> size, name |-> name, of |-> of]

(* Only what has one width has a node of its type.                            *)
Widths ==
  [Bool |-> 1, Int8 |-> 1, UInt8 |-> 1, Int16 |-> 2, UInt16 |-> 2, Int32 |-> 4, UInt32 |-> 4, Int64 |-> 8,
   UInt64 |-> 8, Float |-> 4, Double |-> 8]

TypedNodeFor(property) ==
  /\ ~property.is_bitfield
  /\ property.type.kind \in DOMAIN Widths /\ Widths[property.type.kind] = property.size

(* Bytes as hex nodes, the largest first, each named by where it is.          *)
EmitPadding(at, bytes, of) ==
  LET Chunk(size)  == "Hex" \o ToString(8 * size)
      Pad(from, size) == Node(Chunk(size), size, "pad_" \o ToString(from), of)
      left         == bytes % 8
      rest         == at + bytes - left
      Then(fits, from, size) == IF fits THEN <<Pad(from, size)>> ELSE <<>>
  IN  [i \in 1..bytes \div 8 |-> Pad(at + (8 * (i - 1)), 8)]
      \o Then(left >= 4, rest, 4)
      \o Then(left % 4 >= 2, rest + left - (left % 4), 2)
      \o Then(left % 2 = 1, rest + left - 1, 1)

NodeName(property, used) ==
  LET name  == SanitizeIdentifier(IF property.name = "" THEN "field_" \o ToString(property.offset) ELSE property.name)
      Lines == [n \in Nat |-> IF n = 0 THEN "" ELSE IF n = 1 THEN "_" ELSE IF n = 2 THEN "__" ELSE "___"]
      Candidate(n) == name \o Lines[n]
  IN  Candidate(Min({n \in 0..3 : Candidate(n) \notin used}))

(* Mutant: a member that is over what is there already is put after it.       *)
EmitGroupAnyway(record, state, group) ==
  LET first == group[1]
      at    == Max({first.offset, state.cursor})
      width == Min({Max({Max({group[i].size, 1}) : i \in DOMAIN group}), record.size - at})
  IN  IF at >= record.size THEN state
      ELSE [state EXCEPT !.cursor = at + width, !.used = @ \cup {NodeName(first, state.used)},
              !.nodes = @ \o EmitPadding(state.cursor, at - state.cursor, <<>>) \o EmitPadding(at, width, group)]

(* A group is what is at one offset: as wide as its widest, within the class. *)
(* What begins in what is there already is left out, and what is beyond the   *)
(* end ends it.                                                               *)
EmitGroup(record, state, group) ==
  LET first  == group[1]
      at     == first.offset
      widest == Max({Max({group[i].size, 1}) : i \in DOMAIN group})
      width  == Min({widest, record.size - at})
      padded == state.nodes \o (IF at > state.cursor THEN EmitPadding(state.cursor, at - state.cursor, <<>>) ELSE <<>>)
      name   == NodeName(first, state.used)
      typed  == Len(group) = 1 /\ TypedNodeFor(first) /\ Widths[first.type.kind] = width
  IN  CASE state.ended \/ at < state.cursor -> state
        [] ~state.ended /\ at > record.size -> [state EXCEPT !.ended = TRUE]
        [] at = record.size /\ ~state.ended /\ at >= state.cursor -> [state EXCEPT !.nodes = padded]
        [] OTHER ->
             [state EXCEPT !.cursor = at + width, !.used = @ \cup {name},
                !.nodes = padded \o (IF typed THEN <<Node(first.type.kind, width, name, group)>>
                                     ELSE EmitPadding(at, width, group))]

EmitClass(types, record) ==
  LET begun == [nodes |-> <<>>, cursor |-> 0, used |-> {}, ended |-> FALSE]
      done  == FoldLeft(LAMBDA s, group : EmitGroup(record, s, group), begun, GroupsOf(record.properties))
      name  == IF record.name = "" THEN LeafName(record.path) ELSE record.name
  IN  [name |-> PrefixFor(types, record) \o SanitizeIdentifier(name), path |-> record.path,
       nodes |-> done.nodes \o (IF done.cursor < record.size
                                  THEN EmitPadding(done.cursor, record.size - done.cursor, <<>>) ELSE <<>>)]

-----------------------------------------------------------------------------
(* An archive of one entry that is stored as it is: fields of two and four    *)
(* bytes, the name of the entry, what is in it.                               *)
U16(value)       == <<[width |-> 2, value |-> value]>>
U32(value)       == <<[width |-> 4, value |-> value]>>
Text(width, text) == <<[width |-> width, value |-> text]>>

Extent(fields)   == FoldLeft(LAMBDA sum, f : sum + f.width, 0, fields)
Zeros(n)         == FlattenSeq([i \in 1..n |-> U16(0)])

NameLength == 8                        \* of "data.xml"
Crc32(text) == <<"crc of", text>>

MakeArchive(length, text) ==
  LET sums    == U32(Crc32(text)) \o U32(length) \o U32(length) \o U16(NameLength)
      stored  == U16(20) \o U16(0) \o U16(0) \o U16(0) \o U16(33) \o sums
      name    == Text(NameLength, "data.xml")
      local   == U32("local header") \o stored \o Zeros(1) \o name \o Text(length, text)
      central == U32("central directory") \o U16(20) \o stored \o Zeros(4) \o U32(0) \o U32(0) \o name
      end     == U32("end of central directory") \o Zeros(2) \o U16(1) \o U16(1)
                 \o U32(Extent(central)) \o U32(Extent(local)) \o U16(0)
  IN  local \o central \o end

FileStem(header) ==
  LET source == IF header.source.process # "" THEN header.source.process ELSE header.source.main_module
  IN  IF source = "" THEN "reclass" ELSE StemOfProcess[source]

EmitReClass(dump, accepted) ==
  LET types   == TypesOf(dump, accepted)
      sized   == SelectSeq(types, LAMBDA r : r.size > 0)
      classes == [i \in DOMAIN sized |-> EmitClass(TypesOf(dump, {p.name : p \in ToSet(dump.packages)}), sized[i])]
      length  == 40 + FoldLeft(LAMBDA sum, c : sum + 1 + Len(c.nodes), 0, classes)
  IN  IF sized = <<>> THEN <<>>
      ELSE <<[path |-> FileStem(dump.header) \o ".reclass.xml", is |-> classes],
             [path |-> FileStem(dump.header) \o ".rcnet", is |-> MakeArchive(length, classes)]>>

-----------------------------------------------------------------------------
(* ReClass.NET: it finds the entry of an archive from the end, and the place  *)
(* of each node from the ones before it.                                      *)
At(archive, offset) ==
  LET Ahead(i) == Extent(SubSeq(archive, 1, i - 1))
      found    == {i \in DOMAIN archive : Ahead(i) = offset}
  IN  IF found = {} THEN "nothing" ELSE archive[Min(found)].value

Unpack(archive) ==
  LET end     == Extent(archive) - 22
      central == At(archive, end + 16)
      local   == At(archive, central + 42)
      data    == At(archive, local + 30 + At(archive, local + 26))
  IN  IF /\ At(archive, end) = "end of central directory"
         /\ central \in Nat /\ central + At(archive, end + 12) = end /\ At(archive, central) = "central directory"
         /\ local \in Nat /\ At(archive, local) = "local header"
         /\ At(archive, local + 14) = Crc32(data) /\ At(archive, central + 16) = Crc32(data)
        THEN data ELSE <<>>

PlacedNodes(nodes) ==
  LET Place(state, node) == [at |-> state.at + node.size,
                             nodes |-> Append(state.nodes, [offset |-> state.at] @@ node)]
  IN  FoldLeft(Place, [at |-> 0, nodes |-> <<>>], nodes)

Opened(archive) ==
  LET classes == Unpack(archive)
  IN  [i \in DOMAIN classes |->
         LET placed == PlacedNodes(classes[i].nodes)
         IN  [name |-> classes[i].name, path |-> classes[i].path, size |-> placed.at, nodes |-> placed.nodes]]
=============================================================================
