---------------------------- MODULE UnrealMembers ----------------------------
(***************************************************************************)
(* The layouts of properties (PropertyLayout.cpp) and of what their types  *)
(* point at (TypeResolver.cpp).                                            *)
(***************************************************************************)
EXTENDS UnrealLayouts

CONSTANTS
  PropertyTypes,      \* the names that end in Property and are longer
  MinStructs,         \* structs below which properties are not derived (16)
  MinPropertyClasses, \* property classes below which they are not (8)
  MinPropertiesSeen,  \* properties the chains must reach (32)
  MinProperties,      \* properties collected below which it stops (64)
  MinFieldNames,      \* distinct names a name slot must show (8)
  MinFlagWords,       \* distinct flag words that make a flags field (4)
  MinSlotSamples      \* samples below which a slot is not derived (8)

-----------------------------------------------------------------------------
(* Properties                                                              *)

FieldOffsets == {2 * k : k \in 0 .. 14}

NoPropertyLayout == [uproperty |-> FALSE, class_private |-> Unknown,
  next |-> Unknown, name |-> Unknown, class_name_offset |-> 0,
  property_classes |-> {}, array_dim |-> Unknown, element_size |-> Unknown,
  property_flags |-> Unknown, offset_internal |-> Unknown, earned |-> FALSE]

PropertyLayoutValid(layout) ==
  Unknown \notin {layout.class_private, layout.next, layout.name,
                  layout.offset_internal, layout.element_size}

GetPropertyTypeName(mem, layout, field) ==
  LET class == Pointer(mem, field, layout.class_private) IN
  IF field = Null \/ layout.class_private = Unknown \/ class = Null THEN NoText
  ELSE Name(mem, class, layout.class_name_offset)

\* The list a struct declares. Before 4.25 it is Children, which carries
\* functions and enums too: an entry counts when its class is a property class.
GetChildProperties(mem, struct_layout, layout, structure) ==
  LET head == IF layout.uproperty THEN struct_layout.children
              ELSE struct_layout.child_properties
      list == Follow(mem, Pointer(mem, structure, head), layout.next)
      IsProperty(object) ==
        \/ ~layout.uproperty
        \/ Pointer(mem, object, layout.class_private) \in layout.property_classes IN
  IF Unknown \in {head, layout.next} THEN <<>>
  ELSE SelectSeq(list, IsProperty)

NumericOffsets(first) == first .. 28

\* Every property of the samples, with the size of the struct it belongs to.
Owned(mem, struct_layout, layout, samples) ==
  UNION {LET list == GetChildProperties(mem, struct_layout, layout, samples[k].structure) IN
         {[field |-> list[i], owner_size |-> samples[k].size] : i \in DOMAIN list} :
         k \in DOMAIN samples}

ArrayDim(mem, properties, first) ==
  LET Value(p, o) == Dword(mem, p.field, o)
      total == Cardinality(properties)
      ones == Tabled([o \in NumericOffsets(first) |->
                 Cardinality({p \in properties : Value(p, o) = 1})])
      sane == {o \in NumericOffsets(first) :
                 /\ Cardinality({p \in properties : Value(p, o) \in 1 .. 4096})
                      >= (total * 95) \div 100
                 /\ ones[o] >= (total * 85) \div 100} IN
  Strongest(sane, ones)

ElementSize(mem, properties, first, array_dim) ==
  LET offsets == NumericOffsets(first) \ {array_dim}
      plausible == Tabled([o \in offsets |-> Cardinality({p \in properties :
                      /\ Dword(mem, p.field, o) > 0
                      /\ Dword(mem, p.field, o) <= p.owner_size})])
      best == Strongest(offsets, plausible) IN
  IF best # Unknown /\ plausible[best] >= (Cardinality(properties) * 9) \div 10
    THEN best ELSE Unknown

PropertyFlags(mem, properties, element_size) ==
  LET at == element_size + 1
      words == {<<Dword(mem, p.field, at), Dword(mem, p.field, at + 1)>> : p \in properties} IN
  IF element_size # Unknown /\ Cardinality(words) > MinFlagWords THEN at ELSE Unknown

\* One struct's properties tile it: mostly distinct places, the last ending
\* inside the struct and past its middle.
Tiled(mem, layout, fields, size, o) ==
  LET At(k) == Dword(mem, fields[k], o)
      Element(k) == Dword(mem, fields[k], layout.element_size)
      Dim(k) == IF layout.array_dim = Unknown THEN 1
                ELSE Dword(mem, fields[k], layout.array_dim)
      End(k) == At(k) + Element(k) * Dim(k) IN
  /\ \A k \in DOMAIN fields : At(k) >= 0 /\ Element(k) > 0 /\ Dim(k) > 0
                              /\ At(k) <= size /\ End(k) <= size
  /\ Cardinality({At(k) : k \in DOMAIN fields}) * 2 >= Len(fields)
  /\ Most({End(k) : k \in DOMAIN fields}) * 2 >= size

\* Judged by how far the best is ahead of the next, not by a flat threshold.
OffsetInternal(mem, struct_layout, layout, samples, first) ==
  LET offsets == NumericOffsets(first)
                 \ ({layout.array_dim, layout.element_size}
                    \cup (IF layout.property_flags = Unknown THEN {}
                          ELSE {layout.property_flags, layout.property_flags + 1}))
      fields == Tabled([k \in DOMAIN samples |->
                   GetChildProperties(mem, struct_layout, layout, samples[k].structure)])
      considered == {k \in DOMAIN samples : Len(fields[k]) >= 2}
      tiled == Tabled([o \in offsets |-> Cardinality({k \in considered :
                  Tiled(mem, layout, fields[k], samples[k].size, o)})])
      best == Strongest(offsets, tiled)
      second == Most({0} \cup {tiled[o] : o \in offsets \ {best}}) IN
  IF /\ best # Unknown
     /\ tiled[best] * 4 >= Cardinality(considered) * 3
     /\ second * 10 < tiled[best] * 6
  THEN best ELSE Unknown

\* FVector's layout is fixed by the engine: three components filling it.
VectorChecks(mem, array, object_layout, struct_layout, layout) ==
  LET vector == FindObjectByPath(mem, array, object_layout, <<"/Script/CoreUObject", "Vector">>)
      fields == GetChildProperties(mem, struct_layout, layout, vector)
      At(k) == Dword(mem, fields[k], layout.offset_internal)
      Size(k) == Dword(mem, fields[k], layout.element_size) IN
  /\ vector # Null /\ PropertyLayoutValid(layout) /\ Len(fields) = 3
  /\ At(1) = 0 /\ \A k \in 1 .. 3 : Size(k) > 0
  /\ \A k \in 1 .. 2 : At(k + 1) = At(k) + Size(k)
  /\ At(3) + Size(3) = GetPropertiesSize(mem, struct_layout, vector)

DeriveNumericMembers(mem, array, object_layout, struct_layout, samples, first, layout) ==
  LET properties == Owned(mem, struct_layout, layout, samples)
      dim == ArrayDim(mem, properties, first)
      size == ElementSize(mem, properties, first, dim)
      sized == [layout EXCEPT !.array_dim = dim, !.element_size = size,
                  !.property_flags = PropertyFlags(mem, properties, size)]
      placed == [sized EXCEPT !.offset_internal =
                   IF size = Unknown THEN Unknown
                   ELSE OffsetInternal(mem, struct_layout, sized, samples, first)] IN
  [placed EXCEPT !.earned =
     VectorChecks(mem, array, object_layout, struct_layout, placed)]

\* The structs that declare something: those whose list begins in heads.
StructSamples(mem, array, object_layout, struct_layout, head, heads) ==
  LET structs == SelectSeq(Objects(mem, array), LAMBDA o :
        /\ GetClassName(mem, object_layout, o) \in {"Class", "ScriptStruct"}
        /\ Pointer(mem, o, head) \in heads
        /\ GetPropertiesSize(mem, struct_layout, o) > 0) IN
  [k \in DOMAIN structs |->
     [structure |-> structs[k], head |-> Pointer(mem, structs[k], head),
      size |-> GetPropertiesSize(mem, struct_layout, structs[k])]]

\* 4.24 and earlier: properties are objects, told from the functions that
\* share their list by their class descending from the class named Property.
PropertyClasses(mem, array, object_layout, struct_layout) ==
  LET property == FindObjectByPath(mem, array, object_layout,
                                   <<"/Script/CoreUObject", "Property">>)
      all == Objects(mem, array) IN
  IF property = Null THEN {}
  ELSE {c \in {all[k] : k \in DOMAIN all} :
          /\ GetClassName(mem, object_layout, c) = "Class"
          /\ LET chain == Follow(mem, c, struct_layout.super_struct) IN
             property \in {chain[k] : k \in DOMAIN chain}}

\* A link stays in the array and ends. saw_property counts the properties the
\* chains reach, the heads they start from included.
UFieldNext(mem, array, object_layout, struct_layout, layout, samples) ==
  LET offsets == {o \in FieldOffsets : o >= object_layout.outer + 2}
                 \ {struct_layout.super_struct, struct_layout.children}
      Chain(k, o) == Follow(mem, samples[k].head, o)
      Inside(chain, i) == \A j \in 2 .. i : IsArrayObject(mem, array, chain[j])
      Good(k, o) == LET chain == Chain(k, o) IN
        StoppedBy(mem, chain, o) = Null /\ Inside(chain, Len(chain))
      SawProperty(k, o) == LET chain == Chain(k, o) IN
        Cardinality({i \in DOMAIN chain : Inside(chain, i) /\
          Pointer(mem, chain[i], layout.class_private) \in layout.property_classes})
      Saw[k \in 0 .. Len(samples), o \in offsets] ==
        IF k = 0 THEN 0 ELSE Saw[k - 1, o] + SawProperty(k, o) IN
  LeastOrUnknown({o \in offsets :
    /\ Cardinality({k \in DOMAIN samples : Good(k, o)}) >= (Len(samples) * 9) \div 10
    /\ Saw[Len(samples), o] >= MinPropertiesSeen})

DeriveUPropertyLayout(mem, array, object_layout, struct_layout) ==
  LET classes == PropertyClasses(mem, array, object_layout, struct_layout)
      start == [NoPropertyLayout EXCEPT !.uproperty = TRUE,
                  !.class_private = object_layout.class,
                  !.name = object_layout.name,
                  !.class_name_offset = object_layout.name,
                  !.property_classes = classes]
      objects == Objects(mem, array)
      samples == StructSamples(mem, array, object_layout, struct_layout,
                   struct_layout.children,
                   {o \in {objects[k] : k \in DOMAIN objects} : IsArrayObject(mem, array, o)})
      next == UFieldNext(mem, array, object_layout, struct_layout, start, samples)
      linked == [start EXCEPT !.next = next] IN
  IF Cardinality(classes) < MinPropertyClasses \/ Len(samples) < MinStructs
     \/ next = Unknown
     \/ Cardinality(Owned(mem, struct_layout, linked, samples)) < MinProperties
  THEN linked
  ELSE DeriveNumericMembers(mem, array, object_layout, struct_layout, samples,
                            next + 2, linked)

\* 4.25 and later: an FField's class begins with the name of its type.
TypeNamed(mem, field, o) ==
  LET class == Pointer(mem, field, o) IN
  class \notin {Null, Wild} /\ Name(mem, class, 0) \in PropertyTypes

FieldClassPrivate(mem, samples) ==
  LeastOrUnknown({o \in FieldOffsets :
    Cardinality({k \in DOMAIN samples : TypeNamed(mem, samples[k].head, o)})
      >= (Len(samples) * 3) \div 4})

FieldName(mem, samples, class_private) ==
  LET offsets == (2 .. 28) \ {class_private}
      named == Tabled([o \in offsets |-> {k \in DOMAIN samples :
                  Name(mem, samples[k].head, o) # NoText}])
      distinct == Tabled([o \in offsets |->
                     Cardinality({Name(mem, samples[k].head, o) : k \in named[o]})])
      best == Strongest({o \in offsets :
                Cardinality(named[o]) >= (Len(samples) * 3) \div 4}, distinct) IN
  IF best # Unknown /\ distinct[best] >= MinFieldNames THEN best ELSE Unknown

FieldNext(mem, samples, class_private) ==
  LET Good(k, o) == LET chain == Follow(mem, samples[k].head, o) IN
        /\ StoppedBy(mem, chain, o) = Null
        /\ \A i \in 2 .. Len(chain) : TypeNamed(mem, chain[i], class_private) IN
  LeastOrUnknown({o \in FieldOffsets \ {0, class_private} :
    Cardinality({k \in DOMAIN samples : Good(k, o)}) >= (Len(samples) * 9) \div 10})

DerivePropertyLayout(mem, array, object_layout, struct_layout) ==
  LET samples == StructSamples(mem, array, object_layout, struct_layout,
                               struct_layout.child_properties, DOMAIN mem)
      class_private == FieldClassPrivate(mem, samples)
      name == FieldName(mem, samples, class_private)
      next == FieldNext(mem, samples, class_private)
      linked == [NoPropertyLayout EXCEPT !.class_private = class_private,
                   !.name = name, !.next = next] IN
  IF ~StructLayoutValid(struct_layout) THEN NoPropertyLayout
  ELSE IF struct_layout.child_properties = Unknown THEN
    IF struct_layout.children = Unknown THEN NoPropertyLayout
    ELSE DeriveUPropertyLayout(mem, array, object_layout, struct_layout)
  ELSE IF Len(samples) < MinStructs \/ class_private = Unknown THEN NoPropertyLayout
  ELSE IF next = Unknown THEN linked
  ELSE DeriveNumericMembers(mem, array, object_layout, struct_layout, samples,
                            Most({next, name}) + 2, linked)

-----------------------------------------------------------------------------
(* What a property's type points at                                        *)

ObjectTypes == {"ObjectProperty", "ObjectPtrProperty", "WeakObjectProperty",
                "LazyObjectProperty", "SoftObjectProperty"}
ClassTypes == {"ClassProperty", "SoftClassProperty"}
NumericTypes == {"ByteProperty", "Int8Property", "Int16Property", "IntProperty",
                 "Int64Property", "UInt16Property", "UInt32Property", "UInt64Property"}
DelegateTypes == {"DelegateProperty", "MulticastDelegateProperty",
                  "MulticastInlineDelegateProperty", "MulticastSparseDelegateProperty"}

SlotNames == {"object_property_class", "class_meta_class", "struct_struct",
              "array_inner", "set_element", "map_key", "map_value",
              "enum_underlying", "enum_enum", "byte_enum", "interface_class",
              "delegate_signature"}
NoSubclassLayout == [s \in SlotNames \cup {"bool_masks"} |-> Unknown]

AllProperties(mem, array, object_layout, struct_layout, layout) ==
  LET objects == Objects(mem, array)
      structs == {o \in {objects[k] : k \in DOMAIN objects} :
                    GetClassName(mem, object_layout, o) \in {"Class", "ScriptStruct"}} IN
  UNION {LET list == GetChildProperties(mem, struct_layout, layout, s) IN
         {list[k] : k \in DOMAIN list} : s \in structs}

\* Nothing before the last member of a property belongs to its subclass.
SubclassOffsets(layout) ==
  LET last == Most({layout.offset_internal, layout.element_size, layout.array_dim,
                    layout.property_flags + 1}) IN
  {2 * k : k \in (last + 2) \div 2 .. 32}

\* Mutant: outside the array whatever the era.
IsOutsideField(mem, array, layout, target) ==
  /\ Mapped(mem, target) /\ ~IsArrayObject(mem, array, target)
  /\ GetPropertyTypeName(mem, layout, target) \in PropertyTypes \cup {"Property"}

IsPropertyField(mem, array, layout, target) ==
  /\ Mapped(mem, target)
  /\ IsArrayObject(mem, array, target) = layout.uproperty
  /\ GetPropertyTypeName(mem, layout, target) \in PropertyTypes \cup {"Property"}

\* What the pointer of each slot must lead to, and which types have the slot.
SlotTypes(slot) ==
  CASE slot = "object_property_class" -> ObjectTypes \cup ClassTypes
    [] slot = "class_meta_class" -> ClassTypes
    [] slot = "struct_struct" -> {"StructProperty"}
    [] slot = "array_inner" -> {"ArrayProperty"}
    [] slot = "set_element" -> {"SetProperty"}
    [] slot \in {"map_key", "map_value"} -> {"MapProperty"}
    [] slot \in {"enum_underlying", "enum_enum"} -> {"EnumProperty"}
    [] slot = "byte_enum" -> {"ByteProperty"}
    [] slot = "interface_class" -> {"InterfaceProperty"}
    [] slot = "delegate_signature" -> DelegateTypes

SlotKind(slot) ==
  CASE slot \in {"object_property_class", "class_meta_class", "interface_class"} -> "Class"
    [] slot = "struct_struct" -> "ScriptStruct"
    [] slot \in {"enum_enum", "byte_enum"} -> "Enum"
    [] slot = "delegate_signature" -> "Function"
    [] OTHER -> "Field"

\* Mutant: any property will do as what an enum is stored in.
SlotAcceptsAny(mem, array, object_layout, layout, slot, target) ==
  IF SlotKind(slot) = "Field" THEN IsPropertyField(mem, array, layout, target)
  ELSE IsArrayObject(mem, array, target)
       /\ GetClassName(mem, object_layout, target) = SlotKind(slot)

SlotAccepts(mem, array, object_layout, layout, slot, target) ==
  IF SlotKind(slot) = "Field"
  THEN /\ IsPropertyField(mem, array, layout, target)
       /\ slot = "enum_underlying" => GetPropertyTypeName(mem, layout, target) \in NumericTypes
  ELSE IsArrayObject(mem, array, target)
       /\ GetClassName(mem, object_layout, target) = SlotKind(slot)

\* The lowest offset nearly every sample agrees on; the second where a type
\* has two members of the same shape (the key before the value).
DeriveSlot(mem, array, object_layout, layout, fields, slot) ==
  LET samples == {f \in fields : GetPropertyTypeName(mem, layout, f) \in SlotTypes(slot)}
      qualifying == {o \in SubclassOffsets(layout) :
        Cardinality({f \in samples :
          SlotAccepts(mem, array, object_layout, layout, slot, Pointer(mem, f, o))}) * 10
        >= Cardinality(samples) * 9}
      second == qualifying \ {LeastOrUnknown(qualifying)} IN
  IF Cardinality(samples) < MinSlotSamples THEN Unknown
  ELSE LeastOrUnknown(IF slot \in {"class_meta_class", "map_value"} THEN second ELSE qualifying)

ByteMask(word) == (word \div 65536) % 256
FieldMask(word) == (word \div 16777216) % 256
SingleBits == {1, 2, 4, 8, 16, 32, 64, 128}

\* Both shapes must turn up, full masks and single bits.
BoolMasks(mem, layout, bools) ==
  LET Word(f, o) == Dword(mem, f, o)
      valid == Tabled([o \in Least(SubclassOffsets(layout)) .. 64 |->
        {f \in bools : {ByteMask(Word(f, o)), FieldMask(Word(f, o))}
                       \subseteq SingleBits \cup {255}}]) IN
  IF Cardinality(bools) < MinSlotSamples THEN Unknown
  ELSE LeastOrUnknown({o \in DOMAIN valid :
         /\ Cardinality(valid[o]) * 10 >= Cardinality(bools) * 9
         /\ \E f \in valid[o] : FieldMask(Word(f, o)) = 255
         /\ \E f \in valid[o] : FieldMask(Word(f, o)) # 255})

DeriveSubclassLayout(mem, array, object_layout, struct_layout, layout) ==
  LET fields == AllProperties(mem, array, object_layout, struct_layout, layout)
      bools == {f \in fields : GetPropertyTypeName(mem, layout, f) = "BoolProperty"} IN
  IF ~PropertyLayoutValid(layout) THEN NoSubclassLayout
  ELSE [s \in SlotNames \cup {"bool_masks"} |->
          IF s = "bool_masks" THEN BoolMasks(mem, layout, bools)
          ELSE DeriveSlot(mem, array, object_layout, layout, fields, s)]
=============================================================================
