-------------------------------- MODULE Usmap -------------------------------
(* The mapping file for tools that read assets: emit/src/Usmap.cpp.  It is    *)
(* fields of one, two and four bytes one after another: what a field is       *)
(* follows from the ones before it.                                           *)
EXTENDS Names

CONSTANTS
  Truncated,           \* what is left of the names that are too long
  StemOfProcess,
  kMaxArrayDim, kMaxPropertyCount, kMaxEnumValues, kMaxTypeDepth

kNoName == -1

MapKind ==
  [Bool |-> "Bool", Int8 |-> "Int8", Int16 |-> "Int16", Int32 |-> "Int", Int64 |-> "Int64", UInt8 |-> "Byte",
   UInt16 |-> "UInt16", UInt32 |-> "UInt32", UInt64 |-> "UInt64", Float |-> "Float", Double |-> "Double",
   Name |-> "Name", String |-> "Str", Text |-> "Text", Enum |-> "Enum", Struct |-> "Struct",
   ObjectPtr |-> "Object", ClassPtr |-> "Object", WeakPtr |-> "WeakObject", LazyPtr |-> "LazyObject",
   SoftPtr |-> "SoftObject", SoftClassPtr |-> "SoftObject", Interface |-> "Interface", Array |-> "Array",
   Set |-> "Set", Map |-> "Map", Delegate |-> "Delegate", MulticastDelegate |-> "MulticastDelegate",
   FieldPath |-> "FieldPath", Optional |-> "Optional"]

(* A type nothing is known of but what the engine calls it.                   *)
MapRaw ==
  [BoolProperty |-> "Bool", ByteProperty |-> "Byte", Int8Property |-> "Int8", Int16Property |-> "Int16",
   IntProperty |-> "Int", Int64Property |-> "Int64", UInt16Property |-> "UInt16", UInt32Property |-> "UInt32",
   UInt64Property |-> "UInt64", FloatProperty |-> "Float", DoubleProperty |-> "Double", NameProperty |-> "Name",
   StrProperty |-> "Str", TextProperty |-> "Text", EnumProperty |-> "Enum", StructProperty |-> "Struct",
   ObjectProperty |-> "Object", ObjectPtrProperty |-> "Object", ClassProperty |-> "Object",
   ClassPtrProperty |-> "Object", WeakObjectProperty |-> "WeakObject", LazyObjectProperty |-> "LazyObject",
   SoftObjectProperty |-> "SoftObject", SoftClassProperty |-> "SoftObject", AssetObjectProperty |-> "AssetObject",
   InterfaceProperty |-> "Interface", ArrayProperty |-> "Array", SetProperty |-> "Set", MapProperty |-> "Map",
   DelegateProperty |-> "Delegate", MulticastDelegateProperty |-> "MulticastDelegate",
   MulticastInlineDelegateProperty |-> "MulticastDelegate", MulticastSparseDelegateProperty |-> "MulticastDelegate",
   FieldPathProperty |-> "FieldPath", OptionalProperty |-> "Optional", Utf8StrProperty |-> "Utf8Str",
   AnsiStrProperty |-> "AnsiStr"]

Mapped(type) ==
  CASE type.kind \in DOMAIN MapKind -> MapKind[type.kind]
    [] type.kind \notin DOMAIN MapKind /\ type.raw \in DOMAIN MapRaw -> MapRaw[type.raw]
    [] OTHER -> "none"

-----------------------------------------------------------------------------
(* Writing is done with the names so far and the fields so far.               *)
Field(width, value) == [width |-> width, value |-> value]
Put(state, width, value) == [state EXCEPT !.fields = Append(@, Field(width, value))]

(* A name is written as its place among the names; it gets one the first time.*)
Shortened(name) == IF name \in DOMAIN Truncated THEN Truncated[name] ELSE name

PutName(state, name) ==
  LET short == Shortened(name)
      named == IF short \in ToSet(state.names) THEN state ELSE [state EXCEPT !.names = Append(@, short)]
      place == (CHOOSE i \in DOMAIN named.names : named.names[i] = short) - 1
  IN  IF name = "" THEN Put(state, 4, kNoName) ELSE Put(named, 4, place)

TypeLeaf(path) == IF path = "" THEN "" ELSE LeafName(path)

(* Something is written for every type: what cannot be told is a byte.        *)
RECURSIVE WriteType(_, _, _), WriteInner(_, _, _, _)
WriteInner(state, parent, index, depth) ==
  IF index <= Len(parent.params) THEN WriteType(state, parent.params[index], depth + 1) ELSE Put(state, 1, "Byte")

WriteType(state, type, depth) ==
  LET mapped == Mapped(type)
      tagged == Put(state, 1, mapped)
      stored == IF type.params = <<>> THEN Put(tagged, 1, "Byte") ELSE WriteType(tagged, type.params[1], depth + 1)
  IN  CASE depth > kMaxTypeDepth \/ mapped = "none" -> Put(state, 1, "Byte")
        [] depth <= kMaxTypeDepth /\ mapped = "Enum" -> PutName(stored, TypeLeaf(type.name))
        [] depth <= kMaxTypeDepth /\ mapped = "Struct" -> PutName(tagged, TypeLeaf(type.name))
        [] depth <= kMaxTypeDepth /\ mapped \in {"Array", "Set", "Optional"} -> WriteInner(tagged, type, 1, depth)
        [] depth <= kMaxTypeDepth /\ mapped = "Map" ->
             WriteInner(WriteInner(tagged, type, 1, depth), type, 2, depth)
        [] OTHER -> tagged

NameOf(record) == IF record.name = "" THEN TypeLeaf(record.path) ELSE record.name

WriteEnum(state, enum) ==
  LET count  == Min({Len(enum.values), kMaxEnumValues})
      opened == Put(PutName(state, NameOf(enum)), 1, count)
  IN  FoldLeft(LAMBDA s, v : PutName(s, v.name), opened, SubSeq(enum.values, 1, count))

(* Mutant: a member of several elements takes one slot.                       *)
DimForgotten(property) == 1

(* A member of several elements takes as many slots.                          *)
Dim(property) == Max({1, property.array_dim})

WriteProperty(state, property) ==
  LET dim    == Min({Dim(property), kMaxArrayDim})
      placed == Put(Put(state, 2, Min({state.index, kMaxPropertyCount})), 1, dim)
  IN  [WriteType(PutName(placed, property.name), property.type, 0) EXCEPT !.index = state.index + dim]

WriteStruct(state, record) ==
  LET slots  == FoldLeft(LAMBDA sum, p : sum + Dim(p), 0, record.properties)
      count  == Min({Len(record.properties), kMaxPropertyCount})
      super  == PutName(PutName(state, NameOf(record)), TypeLeaf(record.super))
      opened == Put(Put(super, 2, Min({slots, kMaxPropertyCount})), 2, count)
  IN  FoldLeft(WriteProperty, [opened EXCEPT !.index = 0], SubSeq(record.properties, 1, count))

(* The names are complete when all that uses them is written, and are written *)
(* before it.  The length of what follows is written twice.                   *)
Extent(fields) == FoldLeft(LAMBDA sum, f : sum + f.width, 0, fields)

EmitUsmap(dump, accepted) ==
  LET enums   == SelectSeq(EnumsOf(dump, accepted), LAMBDA e : NameOf(e) # "")
      records == SelectSeq(TypesOf(dump, accepted), LAMBDA r : NameOf(r) # "")
      first   == FoldLeft(WriteEnum, [names |-> <<>>, fields |-> <<>>, index |-> 0], enums)
      second  == FoldLeft(WriteStruct, [first EXCEPT !.fields = <<>>], records)
      Spelled(name) == <<Field(1, Len(name)), Field(Len(name), name)>>
      body    == <<Field(4, Len(second.names))>>
                 \o FlattenSeq([i \in DOMAIN second.names |-> Spelled(second.names[i])])
                 \o <<Field(4, Len(enums))>> \o first.fields
                 \o <<Field(4, Len(records))>> \o second.fields
  IN  <<Field(2, "magic"), Field(1, 0), Field(1, 0), Field(4, Extent(body)), Field(4, Extent(body))>> \o body

-----------------------------------------------------------------------------
(* A reader: it takes fields by their width, in the order the format has      *)
(* them; a field of another width is the end of what it understands.          *)
Take(state, width) ==
  IF state.at <= Len(state.file) /\ state.file[state.at].width = width
    THEN [state EXCEPT !.at = @ + 1, !.value = state.file[state.at].value]
    ELSE [state EXCEPT !.lost = TRUE, !.value = 0]

TakeName(state) ==
  LET taken == Take(state, 4)
  IN  [taken EXCEPT !.value = IF @ = kNoName THEN "" ELSE IF @ + 1 \in DOMAIN state.names THEN state.names[@ + 1] ELSE "?"]

Times(n, Step(_), state) == FoldLeft(LAMBDA s, i : IF s.lost THEN s ELSE Step(s), state, [i \in 1..n |-> i])

RECURSIVE ReadType(_)
ReadType(state) ==
  LET tag    == Take(state, 1)
      kind   == tag.value
      inner  == ReadType(tag)
      named  == TakeName(IF kind = "Enum" THEN inner ELSE tag)
      second == ReadType(inner)
      Type(s, name, params) == [s EXCEPT !.value = [kind |-> kind, name |-> name, params |-> params]]
  IN  CASE tag.lost -> Type(tag, "", <<>>)
        [] ~tag.lost /\ kind = "Enum" -> Type(named, named.value, <<inner.value>>)
        [] ~tag.lost /\ kind = "Struct" -> Type(named, named.value, <<>>)
        [] ~tag.lost /\ kind \in {"Array", "Set", "Optional"} -> Type(inner, "", <<inner.value>>)
        [] ~tag.lost /\ kind = "Map" -> Type(second, "", <<inner.value, second.value>>)
        [] OTHER -> Type(tag, "", <<>>)

ReadProperty(state) ==
  LET index == Take(state, 2) dim == Take(index, 1) name == TakeName(dim) type == ReadType(name)
  IN  [type EXCEPT !.got = Append(@, [index |-> index.value, dim |-> dim.value, name |-> name.value,
                                      type |-> type.value])]

ReadStruct(state) ==
  LET name == TakeName(state) super == TakeName(name) slots == Take(super, 2) count == Take(slots, 2)
      members == Times(count.value, ReadProperty, [count EXCEPT !.got = <<>>])
  IN  [members EXCEPT !.got = Append(state.got, [name |-> name.value, super |-> super.value, slots |-> slots.value,
                                                 properties |-> members.got])]

ReadLabel(state) == LET name == TakeName(state) IN [name EXCEPT !.got = Append(@, name.value)]

ReadEnum(state) ==
  LET name == TakeName(state) count == Take(name, 1) labels == Times(count.value, ReadLabel, [count EXCEPT !.got = <<>>])
  IN  [labels EXCEPT !.got = Append(state.got, [name |-> name.value, labels |-> labels.got])]

ReadSpelling(state) ==
  LET length == Take(state, 1) spelling == Take(length, length.value)
  IN  [spelling EXCEPT !.names = Append(@, spelling.value)]

ReadUsmap(file) ==
  LET begun   == Take([file |-> file, at |-> 5, value |-> 0, lost |-> FALSE, names |-> <<>>, got |-> <<>>], 4)
      count   == Take(begun, 4)
      names   == Times(count.value, ReadSpelling, count)
      enums   == LET n == Take(names, 4) IN Times(n.value, ReadEnum, n)
      structs == LET n == Take(enums, 4) IN Times(n.value, ReadStruct, [n EXCEPT !.got = <<>>])
  IN  [all |-> ~structs.lost /\ structs.at = Len(file) + 1
               /\ \A k \in {4, 5} : file[k].value = Extent(SubSeq(file, 6, Len(file))),
       enums |-> enums.got, structs |-> structs.got]
=============================================================================
