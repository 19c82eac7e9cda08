------------------------------- MODULE Ghidra -------------------------------
(* The script for Ghidra: emit/src/Ghidra.cpp, what it has in its tables and  *)
(* what running it makes of them.                                             *)
EXTENDS Disasm

(* Containers and engine types are in a table of their own; the first of a    *)
(* name stays.                                                                *)
ArrayHelper(model, type, size) ==
  LET element == type.params[1]
      known   == /\ element.name \in DOMAIN model.names
                 /\ element.kind \in Classes \cup {"Struct"}
                 /\ element.kind = "Struct" => model.structs[element.name].size = element.size
      label   == CASE known -> model.names[element.name]
                   [] ~known /\ element.kind \in Classes \cup {"Struct"} -> "Opaque"
                   [] OTHER -> Mangle(Describe(element))
      pointee == IF known THEN Spec("p", 8, label) ELSE Void
  IN  IF size # 16 \/ type.params = <<>> THEN OpaqueHelper("TArray", size)
      ELSE Helper("ZTArray_" \o label, 16, Heap(pointee))

HelperFor(model, type, size) ==
  CASE type.kind = "Array" -> ArrayHelper(model, type, size)
    [] type.kind = "Name" /\ size = 8 -> Helper("ZFName", 8, TwoInts)
    [] type.kind = "String" /\ size = 16 -> Helper("ZFString", 16, Heap(Void))
    [] OTHER -> OpaqueHelper(Described[type.kind], size)

IntegerSpec(size, tag) == IF size \in Integral THEN Spec(tag, size, "") ELSE NoSpec

(* What of exactly that size stands for a type.                               *)
SpecFor(model, type, size) ==
  CASE size <= 0 \/ type.kind = "Unknown" -> NoSpec
    [] type.kind = "Bool" /\ size = 1 -> Spec("bool", 1, "")
    [] type.kind \in Signed \cup Unsigned \/ (type.kind = "Bool" /\ size > 1) -> IntegerSpec(size, "i")
    [] type.kind \in {"Float", "Double"} ->
         IF size = (IF type.kind = "Float" THEN 4 ELSE 8) THEN Spec("f", size, "") ELSE NoSpec
    [] type.kind = "Enum" ->
         IF type.name \in DOMAIN model.enum_at /\ EnumWidth(model.enum_at[type.name]) = size
           THEN Spec("e", size, model.enum_names[type.name]) ELSE IntegerSpec(size, "i")
    [] type.kind = "Struct" ->
         IF type.name \in DOMAIN model.structs /\ model.structs[type.name].size = size
           THEN Spec("s", size, model.names[type.name]) ELSE NoSpec
    [] type.kind \in Classes ->
         IF size # 8 THEN NoSpec
         ELSE IF type.name \in DOMAIN model.names THEN Spec("p", 8, model.names[type.name]) ELSE Void
    [] OTHER -> Spec("s", size, HelperFor(model, type, size).name)

NeedsHelper(type, size) ==
  size > 0 /\ type.kind \notin Signed \cup Unsigned \cup Classes
                             \cup {"Unknown", "Bool", "Float", "Double", "Enum", "Struct"}

SlotTuple(model, slot) ==
  LET property == slot.properties[1]
      dim      == DimOf(property)
      element  == ElementOf(property, slot.size)
      spec     == IF element > 0 /\ element * dim = slot.size THEN SpecFor(model, property.type, element)
                  ELSE NoSpec
      given    == CASE slot.is = "base"    -> Spec("s", slot.size, model.names[slot.path])
                    [] slot.is = "padding" -> Bytes(slot.size)
                    [] slot.is = "packed"  -> Spec("i", 1, "")
                    [] slot.is = "member" /\ spec = NoSpec -> Bytes(slot.size)
                    [] slot.is = "member" /\ spec # NoSpec /\ dim = 1 -> spec
                    [] OTHER -> Several(spec, dim)
  IN  Tuple(slot.offset, slot.size, slot.name, given)

HelpersOf(model, slots) ==
  LET Uses(slot) == LET p == slot.properties[1]
                        element == ElementOf(p, slot.size)
                    IN  IF slot.is = "member" /\ element * DimOf(p) = slot.size
                           /\ NeedsHelper(p.type, element)
                          THEN <<HelperFor(model, p.type, element)>> ELSE <<>>
  IN  FlattenSeq([i \in DOMAIN slots |-> Uses(slots[i])])

(* The values of an enum, under names of their own.                           *)
EnumEntries(record) ==
  FoldLeft(LAMBDA entries, v :
             Append(entries, <<Numbered(SanitizeIdentifier(v.name), 1, {e[1] : e \in ToSet(entries)}), v.value>>),
           <<>>, record.values)

Entry(model, record, laid) ==
  Helper(model.names[record.path], laid.total_size,
         [k \in DOMAIN laid.slots |-> SlotTuple(model, laid.slots[k])])

TablesOf(model, sized, laid, sites) ==
  [enums   |-> [i \in DOMAIN model.enums |->
                  [name |-> model.enum_names[model.enums[i].path], width |-> EnumWidth(model.enums[i]),
                   values |-> EnumEntries(model.enums[i])]],
   helpers |-> FirstOfEachName(FlattenSeq([i \in DOMAIN laid |-> HelpersOf(model, laid[i].slots)])),
   structs |-> [i \in DOMAIN sized |-> Entry(model, sized[i], laid[i])],
   sites   |-> sites]

EmitGhidra(dump, accepted) ==
  LET model == BuildModel(dump, accepted)
      sized == Sized(model.types)
  IN  TablesOf(model, sized, LaidOut(model, sized), CollectFunctions(dump, accepted, model))

-----------------------------------------------------------------------------
(* The script.  Enums and, at their full sizes, all structures are there      *)
(* before any has a member; a member takes as many bytes as what it is.       *)
Registry(tables) ==
  LET structures == tables.helpers \o tables.structs
  IN  [sizes |-> [name \in {structures[i].name : i \in DOMAIN structures} |->
                    structures[Max({i \in DOMAIN structures : structures[i].name = name})].size],
       enums |-> [name \in {tables.enums[i].name : i \in DOMAIN tables.enums} |->
                    (CHOOSE e \in ToSet(tables.enums) : e.name = name).width]]

RECURSIVE Resolve(_, _)
Resolve(registry, spec) ==
  CASE spec.tag \in {"b", "i", "f", "bool", "p"} -> spec.length
    [] spec.tag \in {"s", "e"} ->
         CASE spec.name \in DOMAIN registry.sizes -> registry.sizes[spec.name]
           [] spec.name \in DOMAIN registry.enums \ DOMAIN registry.sizes -> registry.enums[spec.name]
           [] OTHER -> 0
    [] spec.tag = "a" -> spec.count * Resolve(registry, spec.of[1])
    [] OTHER -> 0

FillStructs(tables) ==
  LET registry   == Registry(tables)
      structures == tables.helpers \o tables.structs
      Filled(s)  == [k \in DOMAIN s.members |->
                       [s.members[k] EXCEPT !.size = Resolve(registry, s.members[k].spec)]]
  IN  [i \in DOMAIN structures |-> Helper(structures[i].name, structures[i].size, Filled(structures[i]))]

(* What the script leaves in the program: the members of each type with the   *)
(* bytes they take up, what could not be placed (0), and the names of         *)
(* addresses.                                                                 *)
RunGhidra(tables) ==
  [types |-> FillStructs(tables), enums |-> tables.enums, named |-> tables.sites]
=============================================================================
