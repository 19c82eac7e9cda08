------------------------------- MODULE Reflect -------------------------------
(***************************************************************************)
(* Reflect and BuildDump (DumpBuilder.cpp): derive everything needed to    *)
(* walk a target, one layout after another, then walk its objects into a   *)
(* dump. The target is a live game and is never stopped: between any two   *)
(* steps it may collect objects and load new ones.                         *)
(***************************************************************************)
EXTENDS UnrealFunctions

CONSTANTS
  FirstGames, \* the games a reader may attach to
  Image(_),   \* the memory of each
  Later(_),   \* what each may turn into while it is read
  Truth(_), Described(_),   \* where the members of each really lie; what it declares
  DataBlock, DataSize,  \* the writable data of the executable
  CodeBlocks, \* the addresses inside executable sections
  Hint(_)     \* where a resolver hook says the array is, if one is set

VARIABLES
  game,    \* the state of the target
  memory,  \* its memory
  first,   \* the state it was in when the array was found
  stage,   \* what Reflect derives next, or how far BuildDump is
  refl,    \* what is derived: struct Reflection
  cursor,  \* the slot BuildDump is at
  dump     \* the records collected, in order

vars == <<game, memory, first, stage, refl, cursor, dump>>

NoReflection ==
  [array |-> NoArray, object |-> NoObjectLayout, struct |-> NoStructLayout,
   property |-> NoPropertyLayout, class |-> NoClassLayout,
   subclass |-> NoSubclassLayout, function |-> NoFunctionLayout, enum |-> NoEnumLayout]

Init ==
  /\ game \in FirstGames /\ first = game /\ memory = Image(game)
  /\ stage = "array" /\ refl = NoReflection /\ cursor = 0 /\ dump = <<>>

-----------------------------------------------------------------------------
(* Reflect: each layout rests on those before it, and the first three and  *)
(* the properties are required.                                            *)

\* What a stage derives is kept even when it ends the reflection.
Derive(then, key, value, required) ==
  /\ refl' = [refl EXCEPT ![key] = value]
  /\ stage' = IF required THEN then ELSE "invalid"
  /\ UNCHANGED <<game, memory, cursor, dump>>

FindArray ==
  /\ stage = "array"
  /\ \E array \in {FindObjectArray(memory, DataBlock, DataSize, Hint(game))} :
       Derive("object", "array", array, array.inner # Unknown)
  /\ first' = game

ObjectStage ==
  /\ stage = "object"
  /\ \E layout \in {DeriveObjectLayout(memory, refl.array)} :
       Derive("struct", "object", layout, ObjectLayoutValid(layout))
  /\ UNCHANGED first

StructStage ==
  /\ stage = "struct"
  /\ \E layout \in {DeriveStructLayout(memory, refl.array, refl.object)} :
       Derive("property", "struct", layout, StructLayoutValid(layout))
  /\ UNCHANGED first

PropertyStage ==
  /\ stage = "property"
  /\ \E layout \in {DerivePropertyLayout(memory, refl.array, refl.object, refl.struct)} :
       Derive("class", "property", layout, PropertyLayoutValid(layout))
  /\ UNCHANGED first

ClassStage ==
  /\ stage = "class"
  /\ Derive("subclass", "class",
            DeriveClassLayout(memory, refl.array, refl.object, refl.struct), TRUE)
  /\ UNCHANGED first

SubclassStage ==
  /\ stage = "subclass"
  /\ Derive("function", "subclass",
            DeriveSubclassLayout(memory, refl.array, refl.object, refl.struct,
                                 refl.property), TRUE)
  /\ UNCHANGED first

FunctionStage ==
  /\ stage = "function"
  /\ Derive("enum", "function",
            DeriveFunctionLayout(memory, refl.array, refl.object, refl.struct,
                                 CodeBlocks), TRUE)
  /\ UNCHANGED first

EnumStage ==
  /\ stage = "enum"
  /\ Derive("walk", "enum",
            DeriveEnumLayout(memory, refl.array, refl.object), TRUE)
  /\ UNCHANGED first

-----------------------------------------------------------------------------
(* Types                                                                   *)

NoType == [raw |-> NoText, ref |-> <<>>, params |-> <<>>]

PathOf(object) == GetObjectPathName(memory, refl.object, object)
KindOf(object) == ClassifyObject(memory, refl.object, refl.struct, object)

\* Only when the target really is of the kind expected, by the super chain
\* of its class: silence beats a wrong name.
ReferencedObject(field, slot, kind) ==
  LET target == Pointer(memory, field, slot) IN
  IF slot # Unknown /\ IsArrayObject(memory, refl.array, target) /\ KindOf(target) = kind
    THEN PathOf(target) ELSE <<>>

\* An inner property is outside the array, or in it before 4.25.
InnerProperty(field, slot) ==
  LET inner == Pointer(memory, field, slot) IN
  IF slot # Unknown /\ inner # Null
     /\ IsArrayObject(memory, refl.array, inner) = refl.property.uproperty
    THEN inner ELSE Null

InnerSlots(raw) ==
  CASE raw = "EnumProperty" -> <<"enum_underlying">>
    [] raw \in {"ArrayProperty", "OptionalProperty"} -> <<"array_inner">>
    [] raw = "SetProperty" -> <<"set_element">>
    [] raw = "MapProperty" -> <<"map_key", "map_value">>
    [] OTHER -> <<>>

Reference(field, raw) ==
  LET slots == refl.subclass
      meta == ReferencedObject(field, slots["class_meta_class"], "Class")
      class == ReferencedObject(field, slots["object_property_class"], "Class") IN
  CASE raw \in ObjectTypes -> class
    [] raw \in ClassTypes -> IF meta # <<>> THEN meta ELSE class
    [] raw = "StructProperty" -> ReferencedObject(field, slots["struct_struct"], "ScriptStruct")
    [] raw = "EnumProperty" -> ReferencedObject(field, slots["enum_enum"], "Enum")
    [] raw = "ByteProperty" -> ReferencedObject(field, slots["byte_enum"], "Enum")
    [] raw = "InterfaceProperty" -> ReferencedObject(field, slots["interface_class"], "Class")
    [] raw \in DelegateTypes ->
         ReferencedObject(field, slots["delegate_signature"], "Function")
    [] OTHER -> <<>>

MaxTypeDepth == 8

\* An inner type that does not resolve is dropped, not named Unknown.
RECURSIVE ResolveType(_, _)
ResolveType(field, depth) ==
  LET raw == GetPropertyTypeName(memory, refl.property, field)
      slots == InnerSlots(raw)
      inner == [k \in DOMAIN slots |->
                  ResolveType(InnerProperty(field, refl.subclass[slots[k]]), depth + 1)] IN
  IF field = Null \/ depth > MaxTypeDepth THEN NoType
  ELSE [raw |-> raw, ref |-> Reference(field, raw),
        params |-> SelectSeq(inner, LAMBDA t : t.raw # NoText)]

\* The mask of a packed bool; a native one fills its byte.
Bitfield(field) ==
  LET mask == FieldMask(Dword(memory, field, refl.subclass["bool_masks"])) IN
  IF refl.subclass["bool_masks"] = Unknown
     \/ GetPropertyTypeName(memory, refl.property, field) # "BoolProperty"
     \/ mask \in {0, 255}
  THEN 0 ELSE mask

-----------------------------------------------------------------------------
(* BuildDump                                                               *)

Read(field, at) == IF at = Unknown THEN 0 ELSE Dword(memory, field, at)

PropertyRecord(field) ==
  LET dim == IF refl.property.array_dim = Unknown THEN 1
             ELSE Most({1, Dword(memory, field, refl.property.array_dim)}) IN
  [name |-> Name(memory, field, refl.property.name),
   offset |-> Read(field, refl.property.offset_internal),
   size |-> Read(field, refl.property.element_size) * dim,
   flags |-> Read(field, refl.property.property_flags),
   type |-> ResolveType(field, 0), mask |-> Bitfield(field)]

Records(list) == [k \in DOMAIN list |-> PropertyRecord(list[k])]

Parm == 128   \* property_flags::kParm
FunctionRecord(function) ==
  LET fields == GetChildProperties(memory, refl.struct, refl.property, function)
      params == SelectSeq(Records(fields), LAMBDA p : (p.flags \div Parm) % 2 = 1)
      native == Pointer(memory, function, refl.function.native_func) IN
  [name |-> GetObjectName(memory, refl.object, function),
   flags |-> Read(function, refl.function.function_flags),
   native |-> IF refl.function.native_func = Unknown THEN Null ELSE native,
   params |-> params]

\* The C++ prefix is settled by the first ancestor that decides it.
Prefix(object) ==
  LET chain == Follow(memory, object, refl.struct.super_struct)
      paths == {PathOf(chain[k]) : k \in DOMAIN chain} IN
  IF <<"/Script/Engine", "Actor">> \in paths THEN "A"
  ELSE IF <<"/Script/CoreUObject", "Interface">> \in paths THEN "I" ELSE "U"

StructRecord(object, kind) ==
  LET super == GetSuperStruct(memory, refl.struct, object)
      is_class == kind = "Class"
      fields == GetChildProperties(memory, refl.struct, refl.property, object)
      functions == GetClassFunctions(memory, refl.array, refl.object, refl.struct,
                                     refl.function, object) IN
  [path |-> PathOf(object), kind |-> kind,
   size |-> GetPropertiesSize(memory, refl.struct, object),
   alignment |-> GetMinAlignment(memory, refl.struct, object),
   prefix |-> IF is_class THEN Prefix(object) ELSE "F",
   interfaces |-> {PathOf(i) : i \in
                   GetClassInterfaces(memory, refl.array, refl.class, object)},
   super |-> IF super = Null THEN <<>> ELSE PathOf(super),
   inherited |-> IF super = Null THEN 0 ELSE GetPropertiesSize(memory, refl.struct, super),
   properties |-> Records(fields),
   functions |-> IF is_class /\ FunctionLayoutValid(refl.function)
                 THEN [k \in DOMAIN functions |-> FunctionRecord(functions[k])] ELSE <<>>]

EnumRecord(object) ==
  [path |-> PathOf(object), kind |-> "Enum",
   values |-> GetEnumValues(memory, refl.enum, object), underlying |-> "uint8"]

\* What the object in a slot adds to the dump: a type, unless it is a default
\* object or has no path.
RecordsOf(object) ==
  LET kind == KindOf(object)
      path == PathOf(object) IN
  IF object = Null \/ kind \notin {"Class", "ScriptStruct", "Enum"} \/ path = <<>>
     \/ path[Len(path)] \in DefaultNames
  THEN <<>>
  ELSE IF kind = "Enum" THEN <<EnumRecord(object)>> ELSE <<StructRecord(object, kind)>>

WalkObject ==
  /\ stage = "walk" /\ cursor < refl.array.num_elements
  /\ dump' = dump \o RecordsOf(ObjectAt(memory, refl.array, cursor))
  /\ cursor' = cursor + 1
  /\ UNCHANGED <<game, memory, first, stage, refl>>

WalkEnds ==
  /\ stage = "walk" /\ cursor = refl.array.num_elements
  /\ stage' = "widths"
  /\ UNCHANGED <<game, memory, first, refl, cursor, dump>>

\* How wide an enum is stored: what a property using it says, and when its
\* own values do not fit that, what they need.
Integer == [ByteProperty |-> "uint8", Int8Property |-> "int8", Int16Property |-> "int16",
            IntProperty |-> "int32", Int64Property |-> "int64",
            UInt16Property |-> "uint16", UInt32Property |-> "uint32",
            UInt64Property |-> "uint64"]

Fits(underlying, v) ==
  CASE underlying = "int8" -> v \in -128 .. 127
    [] underlying = "int16" -> v \in -32768 .. 32767
    [] underlying = "uint8" -> v \in 0 .. 255
    [] underlying = "uint16" -> v \in 0 .. 65535
    [] underlying = "uint32" -> v >= 0
    [] OTHER -> TRUE

Needed(values) ==
  LET Magnitude(v) == IF v < 0 THEN -v ELSE v
      widest == Most({Magnitude(values[k][2]) : k \in DOMAIN values})
      negative == \E k \in DOMAIN values : values[k][2] < 0 IN
  IF negative
  THEN IF widest <= 127 THEN "int8" ELSE IF widest <= 32767 THEN "int16" ELSE "int32"
  ELSE IF widest <= 255 THEN "uint8" ELSE IF widest <= 65535 THEN "uint16" ELSE "uint32"

TypesOf(record) ==
  LET lists == IF record.kind = "Enum" THEN {}
               ELSE {record.properties}
                    \cup {record.functions[k].params : k \in DOMAIN record.functions} IN
  UNION {{list[k].type : k \in DOMAIN list} : list \in lists}

RECURSIVE Nested(_)
Nested(type) == {type} \cup UNION {Nested(type.params[k]) : k \in DOMAIN type.params}

Uses(path) ==
  {t \in UNION {Nested(type) : type \in UNION {TypesOf(dump[d]) : d \in DOMAIN dump}} :
     t.raw \in {"EnumProperty", "ByteProperty"} /\ t.ref = path /\ t.params # <<>>}

\* Of several uses the first wins; the uses of an instance agree.
Underlying(record) ==
  LET used == {t.params[1].raw : t \in Uses(record.path)} \cap DOMAIN Integer
      stored == IF used = {} THEN "uint8" ELSE Integer[CHOOSE raw \in used : TRUE] IN
  IF \A k \in DOMAIN record.values : Fits(stored, record.values[k][2]) THEN stored
  ELSE Needed(record.values)

Widths ==
  /\ stage = "widths"
  /\ dump' = [d \in DOMAIN dump |->
                IF dump[d].kind = "Enum"
                THEN [dump[d] EXCEPT !.underlying = Underlying(dump[d])] ELSE dump[d]]
  /\ stage' = "done"
  /\ UNCHANGED <<game, memory, first, refl, cursor>>

-----------------------------------------------------------------------------
(* The target                                                              *)

Changes(next) ==
  /\ stage \notin {"done", "invalid"}
  /\ game' = next /\ memory' = Image(next)
  /\ UNCHANGED <<first, stage, refl, cursor, dump>>

\* A group of objects nothing refers to is freed: their slots read null and
\* their blocks are gone.
Collect == \E next \in Later(game) : Changes(next) /\ ~(DOMAIN memory \subseteq DOMAIN memory')

\* New objects take new slots, and the count of the array grows.
Load == \E next \in Later(game) : Changes(next) /\ DOMAIN memory \subseteq DOMAIN memory'

Finished == stage \in {"done", "invalid"} /\ UNCHANGED vars

Next ==
  \/ FindArray \/ ObjectStage \/ StructStage \/ PropertyStage
  \/ ClassStage \/ SubclassStage \/ FunctionStage \/ EnumStage
  \/ WalkObject \/ WalkEnds \/ Widths
  \/ Collect \/ Load \/ Finished

Spec == Init /\ [][Next]_vars

-----------------------------------------------------------------------------
(* Properties                                                              *)

Derived == stage \in {"walk", "widths", "done"}

\* Silence beats a wrong answer: an offset that any derivation accepts is the
\* one the build uses, whatever the target did meanwhile, and one that is not
\* established stays what it was.
LayoutIsTrue ==
  LET true == Truth(game) IN
  \A key \in DOMAIN true : \A member \in DOMAIN true[key] :
    refl[key][member] \in {NoReflection[key][member], true[key][member]}

\* Of a game as the derivations describe one, nothing stays unknown: Reflect
\* does not give up, and every optional layout is found as well.
NothingMissed ==
  LET true == Truth(game) IN
  /\ stage # "invalid"
  /\ Derived => \A key \in DOMAIN true : \A member \in DOMAIN true[key] :
       refl[key][member] = true[key][member]

\* What the dump says of a type is what the game declares, for every member,
\* type, mask, function and value, and how an enum is stored; objects that
\* come and go while it is read change nothing it says of the others.
\* A type that lives from the moment the array was found until the dump is
\* done is in it, once; default objects, packages and functions are not.
DumpTellsTruth ==
  stage = "done" =>
    /\ \A d \in DOMAIN dump : dump[d] \in Described(first)
    /\ \A type \in Described(first) \cap Described(game) :
         \E d \in DOMAIN dump : dump[d].path = type.path
    /\ \A c, d \in DOMAIN dump : dump[c].path = dump[d].path => c = d
=============================================================================
