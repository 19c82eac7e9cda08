----------------------------- MODULE BinaryNinja ----------------------------
(* The script for Binary Ninja: emit/src/BinaryNinja.cpp, its tables and what *)
(* running it makes of them.                                                  *)
EXTENDS Disasm

Named(helper) == [spec |-> Spec("s", helper.size, helper.name), helpers |-> <<helper>>]
Plain(spec)   == [spec |-> spec, helpers |-> <<>>]
OpaqueAs(label, size) == Named(OpaqueHelper(label, size))

Integer(size) == IF size \in Integral THEN Plain(Spec("i", size, "")) ELSE OpaqueAs("Int", size)

(* An array whose elements can be named points to them: to what a named one   *)
(* is or, when it is a pointer, to what that points to; a number goes by its  *)
(* encoding.                                                                  *)
Encoding(kind, length) == (IF kind \in Signed THEN "i" ELSE "u") \o ToString(length)

RECURSIVE Classify(_, _, _)
ArrayHelper(model, type, size) ==
  LET element == type.params[1]
      inner   == Classify(model, element, element.size)
      spec    == inner.spec
      wide    == ToString(spec.length)
      typed   == CASE spec.tag \in {"s", "e"} -> <<spec.name, spec.name>>
                   [] spec.tag = "i" -> <<(IF element.kind \in Signed THEN "int" ELSE "uint") \o wide,
                                          Encoding(element.kind, spec.length)>>
                   [] spec.tag = "f" -> <<IF spec.length = 4 THEN "float" ELSE "double", "f" \o wide>>
                   [] spec.tag = "p" -> <<IF spec.name = "" THEN "void" ELSE spec.name, spec.name>>
                   [] OTHER -> <<>>
      helper  == Helper("ZTArray_" \o Mangle(typed[1]), 16, Heap(Spec("p", 8, typed[2])))
  IN  IF size # 16 \/ type.params = <<>> THEN OpaqueAs("TArray", size)
      ELSE IF typed = <<>> THEN [OpaqueAs("TArray", size) EXCEPT !.helpers = inner.helpers \o @]
      ELSE [Named(helper) EXCEPT !.helpers = inner.helpers \o @]

(* What of exactly that size stands for a type, and the helpers it needs.     *)
Classify(model, type, size) ==
  CASE size <= 0 -> OpaqueAs("Empty", size)
    [] size > 0 /\ type.kind = "Bool" /\ size = 1 -> Plain(Spec("bool", 1, ""))
    [] size > 0 /\ (type.kind \in Signed \cup Unsigned \/ (type.kind = "Bool" /\ size > 1)) -> Integer(size)
    [] size > 0 /\ type.kind = "Float" ->
         IF size \in {4, 8} THEN Plain(Spec("f", size, "")) ELSE OpaqueAs("Float", size)
    [] size > 0 /\ type.kind = "Double" ->
         IF size = 8 THEN Plain(Spec("f", 8, "")) ELSE OpaqueAs("Double", size)
    [] size > 0 /\ type.kind = "Name" ->
         IF size = 8 THEN Named(Helper("FName", 8, TwoInts)) ELSE OpaqueAs("FName", size)
    [] size > 0 /\ type.kind = "String" ->
         IF size = 16 THEN Named(Helper("FString", 16, Heap(Void))) ELSE OpaqueAs("FString", size)
    [] size > 0 /\ type.kind = "Enum" ->
         IF type.name \in DOMAIN model.enum_at /\ EnumWidth(model.enum_at[type.name]) = size
           THEN Plain(Spec("e", size, model.enum_names[type.name])) ELSE Integer(size)
    [] size > 0 /\ type.kind = "Struct" ->
         IF type.name \in DOMAIN model.structs /\ model.structs[type.name].size = size
           THEN Plain(Spec("s", size, model.names[type.name])) ELSE OpaqueAs("Struct", size)
    [] size > 0 /\ type.kind \in Classes ->
         CASE size # 8 -> OpaqueAs("Ptr", size)
           [] size = 8 /\ type.name \in DOMAIN model.names -> Plain(Spec("p", 8, model.names[type.name]))
           [] OTHER -> Plain(Void)
    [] size > 0 /\ type.kind = "Interface" ->
         IF size = 16 THEN Named(Helper("FScriptInterface", 16, <<Tuple(0, 8, "ObjectPointer", Void),
                                                                  Tuple(8, 8, "InterfacePointer", Void)>>))
         ELSE OpaqueAs("TScriptInterface", size)
    [] size > 0 /\ type.kind = "Array" -> ArrayHelper(model, type, size)
    [] size > 0 /\ type.kind = "Unknown" ->
         OpaqueAs(Mangle(IF type.raw = "" THEN "Unknown" ELSE type.raw), size)
    [] OTHER -> OpaqueAs(Described[type.kind], size)

MemberFor(model, slot) ==
  LET property == slot.properties[1]
      dim      == DimOf(property)
      divides  == dim > 1 /\ slot.size % dim = 0
      given    == Classify(model, property.type, IF divides THEN slot.size \div dim ELSE slot.size)
      Member(name, what) == [what EXCEPT !.spec = Tuple(slot.offset, slot.size, name, what.spec)]
  IN  CASE slot.is = "base"    -> Member(slot.name, Plain(Spec("s", slot.size, model.names[slot.path])))
        [] slot.is = "padding" -> Member(slot.name, Plain(Bytes(slot.size)))
        [] slot.is = "packed"  -> Member("bits_" \o ToString(slot.offset), Plain(Bytes(1)))
        [] OTHER -> Member(slot.name, IF divides THEN [given EXCEPT !.spec = Several(given.spec, dim)] ELSE given)

MembersOf(model, slots) == [k \in DOMAIN slots |-> MemberFor(model, slots[k])]

StructsOf(model, sized, laid, members) ==
  FirstOfEachName(FlattenSeq([i \in DOMAIN members |->
    FlattenSeq([k \in DOMAIN members[i] |-> members[i][k].helpers])]))
  \o [i \in DOMAIN sized |->
        Helper(model.names[sized[i].path], laid[i].total_size,
               [k \in DOMAIN members[i] |-> members[i][k].spec])]

TablesOf(model, sized, laid, sites) ==
  [enums   |-> [i \in DOMAIN model.enums |->
                  [name |-> model.enum_names[model.enums[i].path], width |-> EnumWidth(model.enums[i]),
                   values |-> model.enums[i].values]],
   structs |-> StructsOf(model, sized, laid, [i \in DOMAIN laid |-> MembersOf(model, laid[i].slots)]),
   sites   |-> sites]

EmitBinja(dump, accepted) ==
  LET model == BuildModel(dump, accepted)
      sized == Sized(model.types)
  IN  TablesOf(model, sized, LaidOut(model, sized), CollectFunctions(dump, accepted, model))

-----------------------------------------------------------------------------
(* The script.  A type is there at its width before any has members; the last *)
(* of a name is the one that stays.                                           *)
WidthsOf(tables) ==
  LET all == [i \in DOMAIN tables.enums |-> <<tables.enums[i].name, tables.enums[i].width>>]
             \o [i \in DOMAIN tables.structs |-> <<tables.structs[i].name, tables.structs[i].size>>]
  IN  [name \in {all[i][1] : i \in DOMAIN all} |-> all[Max({i \in DOMAIN all : all[i][1] = name})][2]]

RECURSIVE WidthOf(_, _)
WidthOf(widths, spec) ==
  CASE spec.tag = "a" -> spec.count * WidthOf(widths, spec.of[1])
    [] spec.tag \in {"s", "e"} -> IF spec.name \in DOMAIN widths THEN widths[spec.name] ELSE 0
    [] OTHER -> spec.length

RunBinja(tables) ==
  LET widths == WidthsOf(tables)
      Filled(s) == [k \in DOMAIN s.members |-> [s.members[k] EXCEPT !.size = WidthOf(widths, s.members[k].spec)]]
  IN  [types |-> [i \in DOMAIN tables.structs |->
                    Helper(tables.structs[i].name, tables.structs[i].size, Filled(tables.structs[i]))],
       enums |-> tables.enums, named |-> tables.sites]
=============================================================================
