------------------------------- MODULE Disasm -------------------------------
(* What the scripts for disassemblers are made of: emit/src/DisasmCommon.h.   *)
(* The types of some packages under names of one flat space, where each of    *)
(* their members goes, the order they can be defined in, and the functions    *)
(* worth naming.                                                              *)
EXTENDS Names

CONSTANTS
  ENames,     \* the names that begin with an E
  Mangled     \* what is left of how a type reads when it is part of a name

Classes == {"ObjectPtr", "ClassPtr"}
Signed   == {"Int8", "Int16", "Int32", "Int64"}
Unsigned == {"UInt8", "UInt16", "UInt32", "UInt64"}

-----------------------------------------------------------------------------
(* The letter before a name: what the chain of bases comes to.                *)
RECURSIVE PrefixIn(_, _, _)
PrefixIn(types, record, seen) ==
  CASE record.path = "Engine.Actor"      -> "A"
    [] record.path = "CoreUObject.Interface" -> "I"
    [] record.path \notin {"Engine.Actor", "CoreUObject.Interface"}
       /\ record.super \in PathsOf(types) \ seen ->
         PrefixIn(types, FirstOf(types, record.super), seen \cup {record.path})
    [] OTHER -> "U"

PrefixFor(types, record) == IF record.is_class THEN PrefixIn(types, record, {record.path}) ELSE "F"

(* A name nothing else has: with its package when it is taken, then with a    *)
(* number too.                                                                *)
Claim(candidate, path, taken) ==
  IF candidate \notin taken THEN candidate
  ELSE Numbered(candidate \o "_" \o PackageFileStem(path), 2, taken)

NamesFor(candidates, paths, taken) ==
  FoldLeft(LAMBDA names, i : Append(names, Claim(candidates[i], paths[i], taken \cup ToSet(names))),
           <<>>, [i \in DOMAIN paths |-> i])

BuildModel(dump, accepted) ==
  LET types == TypesOf(dump, accepted)
      enums == EnumsOf(dump, accepted)
      Leaf(r) == SanitizeIdentifier(LeafName(r.path))
      Prefixed(r) == PrefixFor(types, r) \o Leaf(r)
      ELeaf(e) == IF Leaf(e) \in ENames THEN Leaf(e) ELSE "E" \o Leaf(e)
      struct_names == NamesFor([i \in DOMAIN types |-> Prefixed(types[i])],
                               [i \in DOMAIN types |-> types[i].path], {})
      enum_names   == NamesFor([i \in DOMAIN enums |-> ELeaf(enums[i])],
                               [i \in DOMAIN enums |-> enums[i].path], ToSet(struct_names))
      NameIn(records, names, path) == names[Min({i \in DOMAIN records : records[i].path = path})]
  IN  [types |-> types, enums |-> enums,
       structs |-> Tabled([p \in PathsOf(types) |-> FirstOf(types, p)]),
       names   |-> Tabled([p \in PathsOf(types) |-> NameIn(types, struct_names, p)]),
       enum_at |-> Tabled([p \in PathsOf(enums) |-> FirstOf(enums, p)]),
       enum_names |-> Tabled([p \in PathsOf(enums) |-> NameIn(enums, enum_names, p)])]

-----------------------------------------------------------------------------
(* Enums are as wide as they say and as their values need; those of an        *)
(* instance fit in four bytes.                                                *)
WidthFromUnderlying(underlying) ==
  CASE underlying \in {"uint16", "int16"} -> 2 [] underlying \in {"uint32", "int32"} -> 4
    [] underlying \in {"uint64", "int64"} -> 8 [] OTHER -> 1

UnderlyingIsSigned(underlying) == underlying \in {"int8", "int16", "int32", "int64"}

EnumWidth(record) ==
  LET Needed(v) ==
        IF UnderlyingIsSigned(record.underlying)
          THEN CASE v \in -128..127 -> 1 [] v \in -32768..32767 /\ v \notin -128..127 -> 2 [] OTHER -> 4
          ELSE CASE v < 0 -> 8 [] v \in 0..255 -> 1 [] v \in 256..65535 -> 2 [] OTHER -> 4
  IN  Max({WidthFromUnderlying(record.underlying)}
          \cup {Needed(record.values[i].value) : i \in DOMAIN record.values})

-----------------------------------------------------------------------------
(* How a type reads.                                                          *)
Described ==
  [Bool |-> "bool", Int8 |-> "int8", Int16 |-> "int16", Int32 |-> "int32", Int64 |-> "int64",
   UInt8 |-> "uint8", UInt16 |-> "uint16", UInt32 |-> "uint32", UInt64 |-> "uint64", Float |-> "float",
   Double |-> "double", Name |-> "FName", String |-> "FString", Text |-> "FText",
   Delegate |-> "FDelegate", MulticastDelegate |-> "FMulticastDelegate", FieldPath |-> "TFieldPath",
   WeakPtr |-> "TWeakObjectPtr", LazyPtr |-> "TLazyObjectPtr", SoftPtr |-> "TSoftObjectPtr",
   SoftClassPtr |-> "TSoftClassPtr", ClassPtr |-> "TSubclassOf", Interface |-> "TScriptInterface",
   Array |-> "TArray", Set |-> "TSet", Map |-> "TMap", Optional |-> "TOptional"]

RECURSIVE Describe(_)
Describe(type) ==
  LET leaf     == IF type.name = "" THEN "?" ELSE LeafName(type.name)
      Inner(i) == IF i <= Len(type.params) THEN Describe(type.params[i]) ELSE "?"
      Around(inside) == Described[type.kind] \o "<" \o inside \o ">"
  IN  CASE type.kind = "Enum" -> leaf
        [] type.kind = "Struct" -> "F" \o leaf
        [] type.kind = "ObjectPtr" -> leaf \o "*"
        [] type.kind \in {"WeakPtr", "LazyPtr", "SoftPtr", "SoftClassPtr", "ClassPtr", "Interface"} -> Around(leaf)
        [] type.kind \in {"Array", "Set", "Optional"} -> Around(Inner(1))
        [] type.kind = "Map" -> Around(Inner(1) \o ", " \o Inner(2))
        [] type.kind = "Unknown" -> IF type.raw = "" THEN "unknown" ELSE type.raw
        [] OTHER -> Described[type.kind]

Mangle(text) == IF text \in DOMAIN Mangled THEN Mangled[text] ELSE text

(* What a comment says of a function.                                         *)
Signature(function) ==
  LET rets   == SelectSeq(function.params, LAMBDA p : p.is_return)
      taken  == SelectSeq(function.params, LAMBDA p : ~p.is_return)
  IN  [returns |-> IF rets = <<>> THEN "void" ELSE Describe(Last(rets).type), name |-> function.name,
       params  |-> [i \in DOMAIN taken |-> <<taken[i].is_out, taken[i].is_const,
                                             Describe(taken[i].type), taken[i].name>>]]

-----------------------------------------------------------------------------
(* A cover of a type by slots, with no gap and no overlap: its base or bytes  *)
(* for it, its members, the bits of a byte as one, and padding.  What begins  *)
(* in what is covered already, or has no size, is left out.                   *)
Slot(is, offset, size, name) ==
  [is |-> is, offset |-> offset, size |-> size, name |-> name, properties |-> <<>>, path |-> ""]

PadTo(layout, target) ==
  IF target <= layout.cursor THEN layout
  ELSE [layout EXCEPT !.cursor = target,
                      !.slots  = Append(@, Slot("padding", layout.cursor, target - layout.cursor,
                                                "pad_" \o ToString(layout.cursor)))]

(* Mutant: a base is embedded whatever its own size is.                       *)
BaseIsThere(model, record) == record.super \in DOMAIN model.structs

BaseIsUsable(model, record) ==
  /\ record.super \in DOMAIN model.structs
  /\ model.structs[record.super].size = record.inherited_size

Inherited(model, record) ==
  LET region == Slot("padding", 0, record.inherited_size, "pad_base")
      base   == [Slot("base", 0, record.inherited_size, "baseclass_0") EXCEPT !.path = record.super]
      empty  == [slots |-> <<>>, cursor |-> 0, used |-> {"baseclass_0"}]
  IN  IF record.inherited_size <= 0 THEN empty
      ELSE [empty EXCEPT !.cursor = record.inherited_size,
                         !.slots  = <<IF BaseIsUsable(model, record) THEN base ELSE region>>]

SizeOf(property) ==
  IF property.size > 0 THEN property.size ELSE property.type.size * Max({1, property.array_dim})

PlaceGroup(layout, group) ==
  LET first  == group[1]
      packed == Len(group) > 1 /\ \A i \in DOMAIN group : group[i].is_bitfield
      size   == IF packed THEN 1 ELSE SizeOf(first)
      name   == Numbered(SanitizeIdentifier(first.name), 1, layout.used)
      padded == PadTo(layout, first.offset)
      slot   == [Slot(IF packed THEN "packed" ELSE "member", first.offset, size, name)
                   EXCEPT !.properties = IF packed THEN group ELSE <<first>>]
  IN  IF first.offset < layout.cursor \/ size <= 0 THEN layout
      ELSE [slots |-> Append(padded.slots, slot), cursor |-> first.offset + size,
            used |-> layout.used \cup {name}]

(* Members by offset, those of one offset in the order of the dump.           *)
GroupsOf(properties) ==
  LET offsets == SetToSortSeq({properties[i].offset : i \in DOMAIN properties}, LAMBDA a, b : a < b)
  IN  [k \in DOMAIN offsets |-> SelectSeq(properties, LAMBDA p : p.offset = offsets[k])]

ComputeLayout(model, record) ==
  LET placed == FoldLeft(PlaceGroup, Inherited(model, record), GroupsOf(record.properties))
      total  == Max({record.size, placed.cursor})
  IN  [slots |-> PadTo(placed, total).slots, total_size |-> total]

Sized(types) == SelectSeq(types, LAMBDA r : r.size > 0)
LaidOut(model, records) == [i \in DOMAIN records |-> ComputeLayout(model, records[i])]

-----------------------------------------------------------------------------
(* The order in which what is embedded comes before what embeds it, whenever  *)
(* there is one.                                                              *)
Dependencies(model, record) ==
  LET base  == IF record.inherited_size > 0 /\ BaseIsUsable(model, record) THEN <<record.super>> ELSE <<>>
      Embeds(p) == /\ p.type.kind = "Struct" /\ p.type.name \in DOMAIN model.structs
                   /\ model.structs[p.type.name].size = p.type.size
      used  == SelectSeq(record.properties, Embeds)
  IN  base \o [i \in DOMAIN used |-> used[i].type.name]

RECURSIVE Visit(_, _, _)
Visit(model, state, path) ==
  IF path \in state.open \cup ToSet(state.ordered) THEN state
  ELSE LET within == FoldLeft(LAMBDA s, dep : Visit(model, s, dep),
                              [state EXCEPT !.open = @ \cup {path}],
                              Dependencies(model, model.structs[path]))
       IN  [within EXCEPT !.ordered = Append(@, path)]

TopoSort(model) ==
  LET paths == [i \in DOMAIN model.types |-> model.types[i].path]
  IN  FoldLeft(LAMBDA s, path : Visit(model, s, path), [open |-> {}, ordered |-> <<>>], paths).ordered

-----------------------------------------------------------------------------
(* What a member is given as: a tag, a length, a name, and how many of what.  *)
(* Bytes are what cannot be named.                                            *)
Spec(tag, length, name) == [tag |-> tag, length |-> length, name |-> name, count |-> 1, of |-> <<>>]
Bytes(length)           == Spec("b", length, "")
Void                    == Spec("p", 8, "")
NoSpec                  == Spec("none", 0, "")
Several(spec, count)    == [Spec("a", count * spec.length, "") EXCEPT !.count = count, !.of = <<spec>>]

Tuple(offset, size, name, spec) == [offset |-> offset, size |-> size, name |-> name, spec |-> spec]
Helper(name, size, members)     == [name |-> name, size |-> size, members |-> members]

OpaqueHelper(label, size) ==
  Helper("Z" \o label \o "_" \o ToString(size), size, <<Tuple(0, size, "pad", Bytes(size))>>)

Int4       == Spec("i", 4, "")
Heap(data) == <<Tuple(0, 8, "Data", data), Tuple(8, 4, "Num", Int4), Tuple(12, 4, "Max", Int4)>>
TwoInts    == <<Tuple(0, 4, "ComparisonIndex", Int4), Tuple(4, 4, "Number", Int4)>>

Integral == {1, 2, 4, 8}

FirstOfEachName(helpers) ==
  FoldLeft(LAMBDA kept, h : IF \E i \in DOMAIN kept : kept[i].name = h.name THEN kept ELSE Append(kept, h),
           <<>>, helpers)

DimOf(property) == Max({1, property.array_dim})

(* The bytes of one element, when the elements are as long as they say or     *)
(* divide the member.                                                         *)
ElementOf(property, size) ==
  IF property.type.size > 0 /\ property.type.size * DimOf(property) = size THEN property.type.size
  ELSE size \div DimOf(property)

-----------------------------------------------------------------------------
(* The functions that are named: native ones that no other native one shares  *)
(* its address with.                                                          *)
FUNC_Native == 1     \* the flag of the model

CollectFunctions(dump, accepted, model) ==
  LET classes == SelectSeq(TypesOf(dump, accepted), LAMBDA r : r.is_class)
      Named(r) == SelectSeq(r.functions, LAMBDA f : f.native_rva # 0 /\ f.flags = FUNC_Native)
      claims  == FlattenSeq([k \in DOMAIN classes |-> [i \in DOMAIN Named(classes[k]) |->
                               [owner |-> classes[k].path, function |-> Named(classes[k])[i]]]])
      At(rva) == SelectSeq(claims, LAMBDA c : c.function.native_rva = rva)
      rvas    == {claims[i].function.native_rva : i \in DOMAIN claims}
      sole    == SetToSortSeq({rva \in rvas : Len(At(rva)) = 1}, LAMBDA a, b : a < b)
      Site(sites, rva) ==
        LET c    == At(rva)[1]
            name == Numbered(model.names[c.owner] \o "_" \o SanitizeIdentifier(c.function.name), 1,
                             {sites[i].name : i \in DOMAIN sites})
        IN  Append(sites, [rva |-> rva, name |-> name, signature |-> Signature(c.function), path |-> c.owner])
  IN  FoldLeft(Site, <<>>, sole)

Preflight(dump, allow_partial) == dump.header.partial => allow_partial
=============================================================================
