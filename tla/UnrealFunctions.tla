--------------------------- MODULE UnrealFunctions ---------------------------
(***************************************************************************)
(* The layouts of UClass (ClassLayout.cpp), UFunction (FunctionLayout.cpp) *)
(* and UEnum (EnumLayout.cpp), and the accessors that read a target        *)
(* through them.                                                           *)
(***************************************************************************)
EXTENDS UnrealMembers

CONSTANTS
  DefaultNames,       \* the names that begin with Default__
  MinClassSamples,    \* classes below which UClass is not derived (32)
  MinInterfaceClasses,\* classes with interfaces that settle the array (8)
  MinFunctions,       \* functions below which UFunction is not (32)
  MinFlagValues,      \* distinct values that make function flags (8)
  MinEnums            \* enums below which UEnum is not derived (8)

Elements(s) == {s[k] : k \in DOMAIN s}

\* The list heads, which other members are told from.
HeadsOf(struct_layout) ==
  {struct_layout.super_struct, struct_layout.children, struct_layout.child_properties}

-----------------------------------------------------------------------------
(* UClass                                                                  *)

NoClassLayout == [class_default_object |-> Unknown, interfaces |-> Unknown,
                  interface_stride |-> 0]

ClassOffsets(struct_layout) ==
  {o \in struct_layout.properties_size .. 120 : (o - struct_layout.properties_size) % 2 = 0}

ClassSamples(mem, array, object_layout, struct_layout) ==
  {o \in Elements(Objects(mem, array)) :
     ClassifyObject(mem, object_layout, struct_layout, o) = "Class"}

\* The default object is an instance of this very class: a loop nothing else
\* closes. Its name is the independent test.
DefaultObjectOffset(mem, array, object_layout, struct_layout, classes) ==
  LET offsets == ClassOffsets(struct_layout) \ HeadsOf(struct_layout)
      nonnull == Tabled([o \in offsets |-> {c \in classes : Pointer(mem, c, o) # Null}])
      loops == Tabled([o \in offsets |-> {c \in nonnull[o] :
                  /\ IsArrayObject(mem, array, Pointer(mem, c, o))
                  /\ GetObjectClass(mem, object_layout, Pointer(mem, c, o)) = c}])
      prefixed == Tabled([o \in offsets |-> {c \in loops[o] :
                     GetObjectName(mem, object_layout, Pointer(mem, c, o)) \in DefaultNames}]) IN
  Strongest({o \in offsets :
               /\ Cardinality(nonnull[o]) >= (Cardinality(classes) * 3) \div 4
               /\ loops[o] = nonnull[o]
               /\ Cardinality(prefixed[o]) >= (Cardinality(loops[o]) * 9) \div 10},
            [o \in offsets |-> Cardinality(loops[o])])

\* Every element of the array a class lists as its interfaces, at one stride.
InterfacesAt(mem, klass, o, stride) ==
  {Pointer(mem, Pointer(mem, klass, o), i * stride) : i \in 0 .. Dword(mem, klass, o + 2) - 1}

IsInterface(mem, array, object_layout, struct_layout, interface, entry) ==
  /\ IsArrayObject(mem, array, entry)
  /\ ClassifyObject(mem, object_layout, struct_layout, entry) = "Class"
  /\ interface \in Elements(Follow(mem, entry, struct_layout.super_struct))

\* One class that contradicts an offset disqualifies it.
DeriveInterfaces(mem, array, object_layout, struct_layout, classes, layout) ==
  LET interface == FindObjectByPath(mem, array, object_layout,
                                    <<"/Script/CoreUObject", "Interface">>)
      Empty(c, o) == Dword(mem, c, o + 2) = 0 /\ Pointer(mem, c, o) = Null
      Lists(c, o, s) ==
        /\ Dword(mem, c, o + 2) \in 1 .. 256
        /\ Dword(mem, c, o + 3) >= Dword(mem, c, o + 2)
        /\ Pointer(mem, c, o) # Null
        /\ \A entry \in InterfacesAt(mem, c, o, s) :
             IsInterface(mem, array, object_layout, struct_layout, interface, entry)
      offsets == ClassOffsets(struct_layout) \ {layout.class_default_object}
      Listing(o) == {c \in classes : ~Empty(c, o)}
      fits == {os \in offsets \X {4, 6, 3} :
                 /\ Cardinality(Listing(os[1])) >= MinInterfaceClasses
                 /\ \A c \in Listing(os[1]) : Lists(c, os[1], os[2])}
      most == Most({0} \cup {Cardinality(Listing(os[1])) : os \in fits})
      at == Least({os[1] : os \in {f \in fits : Cardinality(Listing(f[1])) = most}})
      strides == {os[2] : os \in {f \in fits : f[1] = at}} IN
  IF interface = Null \/ fits = {} THEN layout
  ELSE [layout EXCEPT !.interfaces = at,
          !.interface_stride = CHOOSE s \in strides : 4 \in strides => s = 4]

DeriveClassLayout(mem, array, object_layout, struct_layout) ==
  LET classes == ClassSamples(mem, array, object_layout, struct_layout)
      default == DefaultObjectOffset(mem, array, object_layout, struct_layout, classes) IN
  IF Cardinality(classes) < MinClassSamples \/ default = Unknown THEN NoClassLayout
  ELSE DeriveInterfaces(mem, array, object_layout, struct_layout, classes,
                        [NoClassLayout EXCEPT !.class_default_object = default])

\* Checked again when read: a live target resizes the array.
GetClassInterfaces(mem, array, layout, klass) ==
  LET count == Dword(mem, klass, layout.interfaces + 2) IN
  IF layout.interfaces = Unknown \/ layout.interface_stride = 0
     \/ Pointer(mem, klass, layout.interfaces) = Null \/ count \notin 1 .. 256
  THEN {}
  ELSE {entry \in InterfacesAt(mem, klass, layout.interfaces, layout.interface_stride) :
          IsArrayObject(mem, array, entry)}

-----------------------------------------------------------------------------
(* UFunction                                                               *)

NoFunctionLayout == [field_next |-> Unknown, function_flags |-> Unknown,
                     native_func |-> Unknown]

FunctionLayoutValid(layout) == Unknown \notin {layout.field_next, layout.function_flags}

FunctionOffsets(struct_layout) == struct_layout.properties_size .. 56

\* How many lists are clean by the link at o, and how many links they follow.
ChainQuality(mem, array, struct_layout, classes, o) ==
  LET Chain(c) == Follow(mem, Pointer(mem, c, struct_layout.children), o)
      sane == {c \in classes : LET chain == Chain(c) IN
                 /\ StoppedBy(mem, chain, o) = Null
                 /\ \A i \in 2 .. Len(chain) : IsArrayObject(mem, array, chain[i])} IN
  [sane |-> Cardinality(sane),
   links |-> Cardinality(UNION {{<<c, i>> : i \in 2 .. Len(Chain(c))} : c \in sane})]

\* The link must link: a slot that is always null ends every list cleanly.
FunctionNext(mem, array, object_layout, struct_layout, classes) ==
  LET anchored == struct_layout.object_size \div 4
      offsets == {o \in {2 * k : k \in 0 .. 28} : o >= object_layout.outer + 2}
                 \ HeadsOf(struct_layout)
      quality == Tabled([o \in offsets \cup {anchored} |->
                   ChainQuality(mem, array, struct_layout, classes, o)])
      links == Tabled([o \in offsets |-> quality[o].links])
      Clean(o) == quality[o].sane >= (Cardinality(classes) * 9) \div 10 IN
  IF classes = {} THEN Unknown
  ELSE IF /\ struct_layout.object_size > 0 /\ anchored \notin HeadsOf(struct_layout)
          /\ Clean(anchored) /\ quality[anchored].links > 0
  THEN anchored
  ELSE Strongest({o \in offsets : Clean(o)}, links)

Bit(word, n) == (word \div 2^n) % 2
OneAccess(word) == Bit(word, 17) + Bit(word, 18) + Bit(word, 19) = 1

\* One access specifier each, and values that differ across the target.
FunctionFlags(mem, struct_layout, functions) ==
  LET offsets == FunctionOffsets(struct_layout)
      Holding(o, w) == {f \in functions : Dword(mem, f, o) = w}
      Words(o) == {Dword(mem, f, o) : f \in functions}
      diverse == {o \in offsets :
                    /\ Cardinality(Words(o)) >= MinFlagValues
                    /\ \A w \in Words(o) : Cardinality(Holding(o, w)) * 2
                                             < Cardinality(functions)}
      hits == Tabled([o \in offsets |-> Cardinality({f \in functions : OneAccess(Dword(mem, f, o))})])
      best == Strongest(diverse, hits) IN
  IF best # Unknown /\ hits[best] >= (Cardinality(functions) * 9) \div 10
    THEN best ELSE Unknown

\* Func points somewhere different per function; a shared thunk does not.
NativeFunc(mem, struct_layout, functions, code) ==
  LET offsets == ClassOffsets(struct_layout) \cap (0 .. 56)
      Hits(o) == {f \in functions : Pointer(mem, f, o) \in code}
      distinct == Tabled([o \in offsets |-> Cardinality({Pointer(mem, f, o) : f \in Hits(o)})])
      best == Strongest({o \in offsets :
                Cardinality(Hits(o)) >= (Cardinality(functions) * 9) \div 10}, distinct) IN
  IF best # Unknown /\ distinct[best] >= Cardinality(functions) \div 8
    THEN best ELSE Unknown

DeriveFunctionLayout(mem, array, object_layout, struct_layout, code) ==
  LET objects == Elements(Objects(mem, array))
      functions == {o \in objects : GetClassName(mem, object_layout, o) = "Function"}
      classes == {o \in objects :
                    /\ GetClassName(mem, object_layout, o) = "Class"
                    /\ IsArrayObject(mem, array, Pointer(mem, o, struct_layout.children))} IN
  IF ~StructLayoutValid(struct_layout) \/ struct_layout.children = Unknown
     \/ Cardinality(functions) < MinFunctions
  THEN NoFunctionLayout
  ELSE [field_next |-> FunctionNext(mem, array, object_layout, struct_layout, classes),
        function_flags |-> FunctionFlags(mem, struct_layout, functions),
        native_func |-> NativeFunc(mem, struct_layout, functions, code)]

\* Mutant: whatever the list carries.
GetClassChildren(mem, array, object_layout, struct_layout, layout, klass) ==
  LET list == Follow(mem, Pointer(mem, klass, struct_layout.children), layout.field_next) IN
  IF Unknown \in {struct_layout.children, layout.field_next} THEN <<>> ELSE list

\* Children carries enums and structs too, so each entry is classified.
GetClassFunctions(mem, array, object_layout, struct_layout, layout, klass) ==
  LET list == Follow(mem, Pointer(mem, klass, struct_layout.children), layout.field_next)
      strays == {k \in DOMAIN list : ~IsArrayObject(mem, array, list[k])} IN
  IF Unknown \in {struct_layout.children, layout.field_next} THEN <<>>
  ELSE SelectSeq(IF strays = {} THEN list ELSE SubSeq(list, 1, Least(strays)),
         LAMBDA o : ClassifyObject(mem, object_layout, struct_layout, o) = "Function")

-----------------------------------------------------------------------------
(* UEnum                                                                   *)

NoEnumLayout == [names_array |-> Unknown, pair_stride |-> 4, split_arrays |-> FALSE]

EnumOffsets(object_layout) == {o \in {2 * k : k \in 0 .. 24} : o >= object_layout.outer + 2}

\* The first entries, up to four, must resolve.
EntriesResolve(mem, data, stride, count) ==
  \A i \in 0 .. Least({count, 4}) - 1 : Name(mem, data, i * stride) # NoText

\* A pointer with its low bit set; blocks are aligned, so none other has it.
Tagged(mem, at, o) ==
  LET low == Dword(mem, at, o) IN
  IF low % 2 = 1 /\ low - 1 \in DOMAIN mem /\ Dword(mem, at, o + 1) = PointerHigh
    THEN low - 1 ELSE Null

PairedNames(mem, e, o, stride) ==
  LET count == Dword(mem, e, o + 2) IN
  /\ count > 0 /\ Dword(mem, e, o + 3) >= count
  /\ Pointer(mem, e, o) \notin {Null, Wild}
  /\ EntriesResolve(mem, Pointer(mem, e, o), stride, count)

SplitNames(mem, e, o) ==
  /\ Dword(mem, e, o + 4) > 0
  /\ Null \notin {Tagged(mem, e, o), Tagged(mem, e, o + 2)}
  /\ EntriesResolve(mem, Tagged(mem, e, o), 2, Dword(mem, e, o + 4))

\* Only when the pairs are not found: the shape of 5.7, two tagged pointers.
DeriveSplitEnumArrays(mem, object_layout, enums) ==
  LET hits == Tabled([o \in EnumOffsets(object_layout) |->
                 Cardinality({e \in enums : SplitNames(mem, e, o)})])
      best == Strongest(DOMAIN hits, hits) IN
  IF best = Unknown \/ hits[best] < Cardinality(enums) \div 2 THEN NoEnumLayout
  ELSE [NoEnumLayout EXCEPT !.names_array = best, !.split_arrays = TRUE]

DeriveEnumLayout(mem, array, object_layout) ==
  LET enums == {o \in Elements(Objects(mem, array)) :
                  GetClassName(mem, object_layout, o) = "Enum"}
      \* both strides of one offset are tried before the next offset
      probes == {10 * o + s : o \in EnumOffsets(object_layout), s \in {4, 6}}
      hits == Tabled([p \in probes |->
                 Cardinality({e \in enums : PairedNames(mem, e, p \div 10, p % 10)})])
      best == Strongest(probes, hits) IN
  IF Cardinality(enums) < MinEnums THEN NoEnumLayout
  ELSE IF best = Unknown \/ hits[best] < (Cardinality(enums) * 3) \div 4
  THEN DeriveSplitEnumArrays(mem, object_layout, enums)
  ELSE [NoEnumLayout EXCEPT !.names_array = best \div 10, !.pair_stride = best % 10]

GetEnumValues(mem, layout, e) ==
  LET at == layout.names_array
      names == IF layout.split_arrays THEN Tagged(mem, e, at) ELSE Pointer(mem, e, at)
      count == Dword(mem, e, IF layout.split_arrays THEN at + 4 ELSE at + 2)
      Entry(i) ==
        IF layout.split_arrays
        THEN <<Name(mem, names, 2 * i), Dword(mem, Tagged(mem, e, at + 2), 2 * i)>>
        ELSE <<Name(mem, names, i * layout.pair_stride),
               Dword(mem, names, (i + 1) * layout.pair_stride - 2)>> IN
  IF at = Unknown \/ count <= 0 \/ names = Null
     \/ (layout.split_arrays /\ Tagged(mem, e, at + 2) = Null)
  THEN <<>>
  ELSE SelectSeq([i \in 1 .. count |-> Entry(i - 1)], LAMBDA pair : pair[1] # NoText)
=============================================================================
