------------------------------ MODULE UnrealGame ------------------------------
(***************************************************************************)
(* The other side: what a small Unreal game declares, and where a build of *)
(* the engine keeps it, written from what src/engine expects of one.       *)
(*                                                                         *)
(* A build is a record: tail, the dwords a fork appends to UObject; chain, *)
(* whether UStruct inherits FStructBaseChain; ffield, whether properties   *)
(* are FFields (4.25) or objects; counters, where the array keeps its      *)
(* counts; narrow, whether an alignment shares its dword; split, whether   *)
(* enums keep two arrays (5.7); pair, the dwords of an enum entry; decoy,  *)
(* whether the data holds what resembles an array; trailing, whether some  *)
(* array property ends its struct.                                         *)
(*                                                                         *)
(* MemoryOf lays the objects of the game out the way its build does,       *)
(* LayoutOf says where the members lie, and RecordsOf what a true dump of  *)
(* the game would hold.                                                    *)
(***************************************************************************)
EXTENDS Integers, Sequences, FiniteSets, SequencesExt

CONSTANTS High, Names   \* the high half of an address; the name pool

InOrder(S) == FoldSet(LAMBDA x, s : Append(s, x), <<>>, S)

Code(n) == 1000 + 8 * n   \* where the n-th function begins

\* Where a build keeps its members, in dwords.
Places(b) ==
  LET object == 10 + b.tail
      super == object + 2 + (IF b.chain THEN 4 ELSE 0)
      size == super + (IF b.ffield THEN 6 ELSE 4)
      own == size + 14
      field == IF b.ffield THEN 14 ELSE object + 2 IN
  [index |-> 3, class |-> 4, name |-> 6, outer |-> 8, object |-> object,
   next |-> object, super |-> super, children |-> super + 2,
   child_properties |-> IF b.ffield THEN super + 4 ELSE -1,
   size |-> size, align |-> size + 1, script |-> size + 2, link |-> size + 6,
   cdo |-> own + 2, interfaces |-> own + 4,
   flags |-> own, decoy |-> own + 2, thunk |-> own + 4, func |-> own + 6,
   names |-> object + 6,
   f_class |-> IF b.ffield THEN 2 ELSE 4, f_next |-> IF b.ffield THEN 8 ELSE object,
   f_name |-> IF b.ffield THEN 10 ELSE 6,
   dim |-> field, esize |-> field + 1, pflags |-> field + 2, rep |-> field + 4,
   offset |-> field + 5, plink |-> field + 8, slot |-> field + 16]

-----------------------------------------------------------------------------
(* What the game declares                                                  *)

Core == <<"/Script/CoreUObject">>
Engine == <<"/Script/Engine">>
Door == <<"/Game/Door">>

Native ==
  [Object |-> "", Field |-> "Object", Struct |-> "Field", Class |-> "Struct",
   ScriptStruct |-> "Struct", Function |-> "Struct", Enum |-> "Field",
   Package |-> "Object", Interface |-> "Object",
   BlueprintGeneratedClass |-> "Class", Actor |-> "Object", Usable |-> "Interface",
   Pawn |-> "Actor", Weapon |-> "Object", Widget |-> "Object"]
HomeOf(name) ==
  IF name \in {"Actor", "Usable", "Pawn", "Weapon", "Widget"} THEN Engine ELSE Core

PropertyClass == {"FloatProperty", "IntProperty", "ByteProperty", "BoolProperty",
                  "EnumProperty", "ArrayProperty", "StructProperty", "ObjectProperty"}

P(name, type, at, size) ==
  [name |-> name, type |-> type, at |-> at, size |-> size, ref |-> <<>>,
   inner |-> "", mask |-> 255, flags |-> at + 5]
Of(p, ref) == [p EXCEPT !.ref = ref]
Holding(p, inner) == [p EXCEPT !.inner = inner]
Packed(p, mask) == [p EXCEPT !.mask = mask]
Param(p) == [p EXCEPT !.flags = 128]

Size(b) == 4 * Places(b).object   \* sizeof(UObject)

\* The properties of each struct and class, by its path.
DeclaredFrom(b, s) ==
  [actor |-> <<P("Health", "FloatProperty", s, 4),
               Holding(Of(P("Mode", "EnumProperty", s + 4, 1), Engine \o <<"EMode">>), "ByteProperty"),
               Packed(P("bHidden", "BoolProperty", s + 5, 1), 4),
               P("bNative", "BoolProperty", s + 6, 1),
               Holding(P("Items", "ArrayProperty", s + 8, 16), "IntProperty"),
               Of(P("Home", "StructProperty", s + 24, 12), Core \o <<"Vector">>),
               Of(P("Owner", "ObjectProperty", s + 40, 8), Engine \o <<"Actor">>)>>,
   door |-> <<P("Angle", "FloatProperty", s + 48, 4)>>,
   pawn |-> <<P("Speed", "FloatProperty", s + 48, 4)>>,
   weapon |-> <<P("Ammo", "IntProperty", s, 4)>>,
   widget |-> <<P("Rank", "IntProperty", s, 4)>>,
   vector |-> <<P("X", "FloatProperty", 0, 4), P("Y", "FloatProperty", 4, 4),
                P("Z", "FloatProperty", 8, 4)>>,
   hit |-> <<Of(P("Where", "StructProperty", 0, 12), Core \o <<"Vector">>),
             P("Damage", "FloatProperty", 12, 4),
             Of(P("Who", "ObjectProperty", 16, 8), Engine \o <<"Actor">>)>>,
   span |-> <<P("Lo", "IntProperty", 0, 4), P("Hi", "IntProperty", 4, 4)>>,
   slot |-> LET kind == Holding(Of(P("Kind", "EnumProperty", 0, 1), Engine \o <<"EKind">>),
                                "ByteProperty")
                tags == Holding(P("Tags", "ArrayProperty", 8, 16), "IntProperty") IN
            IF b.trailing THEN <<kind, tags>>
            ELSE <<kind, tags, P("Count", "IntProperty", 24, 4)>>,
   takehit |-> <<Param(P("Amount", "FloatProperty", 0, 4))>>,
   none |-> <<>>]
Declared(b) == DeclaredFrom(b, Size(b))

Thing == [path |-> <<>>, class |-> "", super |-> <<>>, size |-> 0, align |-> 0,
          kids |-> <<>>, declares |-> "none", values |-> <<>>, flags |-> 0,
          native |-> 0, usable |-> FALSE, cdo |-> <<>>, field |-> <<>>]

\* The functions, each <<class, name>>; the first takes a parameter and the
\* last is script, with no native code.
Functions ==
  <<<<"Actor", "TakeHit">>, <<"Actor", "Use">>, <<"Actor", "Open">>, <<"Actor", "Close">>,
    <<"Actor", "Tick">>, <<"Actor", "Begin">>, <<"Weapon", "Fire">>, <<"Weapon", "Reload">>,
    <<"Widget", "Draw">>, <<"Widget", "Move">>>>

FunctionPath(k) == Engine \o Functions[k]
KidsOf(name) ==
  [i \in DOMAIN SelectSeq(Functions, LAMBDA f : f[1] = name) |->
     Engine \o SelectSeq(Functions, LAMBDA f : f[1] = name)[i]]

NativeClass(b, name, super) ==
  LET home == HomeOf(name)
      s == Size(b) IN
  [Thing EXCEPT !.path = home \o <<name>>, !.class = "Class",
     !.super = IF super = "" THEN <<>> ELSE HomeOf(super) \o <<super>>,
     !.size = CASE name = "Actor" -> s + 48 [] name = "Pawn" -> s + 56
                [] name \in {"Weapon", "Widget"} -> s + 8
                [] name \in {"Object", "Interface", "Usable", "Package"} -> s
                [] OTHER -> s + 16,
     !.align = 8, !.cdo = home \o <<"Default__" \o name>>,
     !.usable = name = "Actor", !.kids = KidsOf(name),
     !.declares = CASE name = "Actor" -> "actor" [] name = "Pawn" -> "pawn"
                    [] name = "Weapon" -> "weapon" [] name = "Widget" -> "widget"
                    [] OTHER -> "none"]

FunctionOf(k) ==
  [Thing EXCEPT !.path = FunctionPath(k), !.class = "Function",
     !.size = 8, !.align = 8, !.declares = IF k = 1 THEN "takehit" ELSE "none",
     \* one access bit each, and the rest differs
     !.flags = 2^(17 + (k % 3)) + 1024 * k,
     !.native = IF k = 10 THEN 0 ELSE Code(20 + k)]

EnumOf(name, values) ==
  [Thing EXCEPT !.path = Engine \o <<name>>, !.class = "Enum", !.values = values]

StructOf(home, name, size, declares) ==
  [Thing EXCEPT !.path = home \o <<name>>, !.class = "ScriptStruct", !.size = size,
     !.align = 4, !.declares = declares]

Classes(b) ==
  LET order == InOrder(DOMAIN Native)
      classes == [k \in DOMAIN order |-> NativeClass(b, order[k], Native[order[k]])]
      property == [Thing EXCEPT !.path = Core \o <<"Property">>, !.class = "Class",
                     !.super = Core \o <<"Field">>, !.size = Size(b) + 24, !.align = 8,
                     !.cdo = Core \o <<"Default__Property">>]
      types == InOrder(PropertyClass)
      properties == [k \in DOMAIN types |->
                       [property EXCEPT !.path = Core \o <<types[k]>>,
                          !.super = Core \o <<"Property">>, !.size = Size(b) + 32,
                          !.cdo = Core \o <<"Default__" \o types[k]>>]] IN
  classes
  \o (IF b.ffield THEN <<>> ELSE <<property>> \o properties)

\* A Blueprint class: its meta-class derives from Class and shares no name
\* with it. The group is collected and loaded as one.
Blueprint(b, name) ==
  <<[Thing EXCEPT !.path = Door \o <<name>>, !.class = "BlueprintGeneratedClass",
       !.super = Engine \o <<"Actor">>, !.size = Size(b) + 56, !.align = 8,
       !.declares = "door", !.cdo = Door \o <<"Default__" \o name>>],
    [Thing EXCEPT !.path = Door \o <<"Default__" \o name>>, !.class = name]>>

PermanentWith(b, classes) ==
  LET packages == [k \in 1 .. 3 |-> [Thing EXCEPT !.path = <<Core, Engine, Door>>[k],
                                       !.class = "Package"]]
      defaults == [k \in DOMAIN classes |->
                     [Thing EXCEPT !.path = classes[k].cdo, !.class = Last(classes[k].path)]] IN
  packages \o classes \o defaults
  \o <<StructOf(Core, "Vector", 12, "vector"), StructOf(Engine, "Hit", 24, "hit"),
       StructOf(Core, "Span", 8, "span"),
       StructOf(Engine, "Slot", IF b.trailing THEN 24 ELSE 28, "slot"),
       EnumOf("EMode", <<<<"Idle", 0>>, <<"Run", 1>>, <<"Wait", 2>>>>),
       EnumOf("EKind", <<<<"Low", 0>>, <<"High", 300>>>>)>>
  \o [k \in DOMAIN Functions |-> FunctionOf(k)]
Permanent(b) == PermanentWith(b, Classes(b))

\* Before 4.25 a property is an object too, and so is the one it holds.
ThingsOf(owner, list) ==
  LET Field(k) == [Thing EXCEPT !.path = owner.path \o <<list[k].name>>,
                     !.class = list[k].type, !.field = <<list[k]>>]
      Inner(k) == [Thing EXCEPT !.path = owner.path \o <<list[k].name, "Inner">>,
                     !.class = list[k].inner, !.field = <<P("Inner", list[k].inner, 0, 1)>>] IN
  FlattenSeq([k \in DOMAIN list |->
    IF list[k].inner = "" THEN <<Field(k)>> ELSE <<Field(k), Inner(k)>>])
FieldThings(b, owner) == ThingsOf(owner, Declared(b)[owner.declares])

WithFields(b, things) ==
  IF b.ffield THEN things
  ELSE things \o FlattenSeq([k \in DOMAIN things |-> FieldThings(b, things[k])])

\* The slots of a game: what was collected leaves holes.
Kept(things, gone) == IF gone THEN [k \in DOMAIN things |-> Thing] ELSE things
Slots(g) ==
  LET Group(name) == WithFields(g.build, Blueprint(g.build, name)) IN
  WithFields(g.build, Permanent(g.build))
  \o Kept(Group("Door_C"), g.collected)
  \o (IF g.loaded THEN Group("Gate_C") ELSE <<>>)
-----------------------------------------------------------------------------
(* Where its memory is                                                     *)

Null == 0
WritableData == 800
ChunkTable == 808
FirstChunk == 816
Vtable == 832
HeapDecoy(n) == 131072 + 8 * n
ObjectBlock(n) == 4000 + 8 * n
FieldBlock(n) == 200000 + 8 * n
FieldClassBlock(n) == 12000 + 8 * n
ArrayBlock(n) == 16000 + 8 * n

-----------------------------------------------------------------------------
(* Its memory                                                              *)

Id(name) == (CHOOSE k \in DOMAIN Names : Names[k] = name) - 1
At(o, v) == {<<o, v>>}
Link(o, at) == IF at = Null THEN {} ELSE {<<o, at>>, <<o + 1, High>>}
Block(pairs) == [o \in {p[1] : p \in pairs} |-> (CHOOSE p \in pairs : p[1] = o)[2]] @@ <<>>

SlotOf(slots, path) == CHOOSE k \in DOMAIN slots : slots[k].path = path
ObjectAtPath(slots, path) == IF path = <<>> THEN Null ELSE ObjectBlock(SlotOf(slots, path))
ClassNamed(slots, name) ==
  ObjectBlock(CHOOSE k \in DOMAIN slots :
    /\ slots[k].class \in {"Class", "BlueprintGeneratedClass"}
    /\ Last(slots[k].path) = name)

\* Where the k-th property of a thing lies, and the one it holds.
FieldAt(b, slots, owner, k, held) ==
  IF b.ffield THEN FieldBlock(16 * SlotOf(slots, owner.path) + 2 * k + held)
  ELSE ObjectAtPath(slots, owner.path \o <<Declared(b)[owner.declares][k].name>>
                           \o (IF held = 1 THEN <<"Inner">> ELSE <<>>))

FirstField(b, slots, path) ==
  IF path = <<>> THEN Null
  ELSE LET t == slots[SlotOf(slots, path)] IN
       IF t.declares = "none" THEN Null ELSE FieldAt(b, slots, t, 1, 0)

\* PropertyLinkNext runs on into what the struct inherits.
NextLink(b, slots, owner, k) ==
  IF k < Len(Declared(b)[owner.declares]) THEN FieldAt(b, slots, owner, k + 1, 0)
  ELSE FirstField(b, slots, owner.super)

FieldMembers(b, slots, p, at, next, link, inner) ==
  LET o == Places(b) IN
  At(o.dim, 1) \cup At(o.esize, p.size) \cup At(o.pflags, p.flags)
  \cup At(o.offset, p.at) \cup Link(o.f_next, next) \cup Link(o.plink, link)
  \cup (CASE p.type = "BoolProperty" ->
               At(o.slot, 1 + p.mask * 65536 + (IF p.mask = 255 THEN -1 ELSE p.mask) * 16777216)
          [] p.type = "EnumProperty" ->
               Link(o.slot, inner) \cup Link(o.slot + 2, ObjectAtPath(slots, p.ref))
          [] p.type = "ArrayProperty" -> Link(o.slot, inner)
          [] OTHER -> Link(o.slot, ObjectAtPath(slots, p.ref)))

\* An FField: its class, its owner, and a flag that says the owner is an object.
FFieldBlock(b, slots, owner, p, next, link, inner) ==
  LET o == Places(b) IN
  Block(Link(0, Vtable) \cup Link(2, FieldClassBlock(Id(p.type)))
        \cup Link(4, ObjectAtPath(slots, owner.path)) \cup At(6, 1)
        \cup At(o.f_name, Id(p.name))
        \cup At(12, IF owner.class = "BlueprintGeneratedClass" THEN 1 ELSE 69)
        \cup FieldMembers(b, slots, p, 0, next, link, inner))

FieldsIn(b, slots, owner, list) ==
  LET Inner(k) == IF list[k].inner = "" THEN Null ELSE FieldAt(b, slots, owner, k, 1)
      Next(k) == IF k < Len(list) THEN FieldAt(b, slots, owner, k + 1, 0) ELSE Null IN
  {<<FieldAt(b, slots, owner, k, 0),
     FFieldBlock(b, slots, owner, list[k], Next(k), NextLink(b, slots, owner, k), Inner(k))>> :
     k \in DOMAIN list}
  \cup {<<Inner(k), FFieldBlock(b, slots, owner, P("Inner", list[k].inner, 0, 1), Null, Null, Null)>> :
          k \in {j \in DOMAIN list : list[j].inner # ""}}
FieldsOf(b, slots, owner) == FieldsIn(b, slots, owner, Declared(b)[owner.declares])

\* The list behind Children: before 4.25 the properties, then the functions.
Kids(b, t) ==
  (IF b.ffield THEN <<>>
   ELSE [k \in DOMAIN Declared(b)[t.declares] |-> t.path \o <<Declared(b)[t.declares][k].name>>])
  \o t.kids

NextKid(b, slots, path) ==
  LET owner == slots[SlotOf(slots, SubSeq(path, 1, Len(path) - 1))]
      kids == Kids(b, owner)
      after == {k \in 1 .. Len(kids) - 1 : kids[k] = path} IN
  IF after = {} THEN Null ELSE ObjectAtPath(slots, kids[(CHOOSE k \in after : TRUE) + 1])

RECURSIVE Depth(_, _)
Depth(slots, t) == IF t.super = <<>> THEN 0 ELSE 1 + Depth(slots, slots[SlotOf(slots, t.super)])

StructMembers(b, slots, t) ==
  LET o == Places(b)
      head == IF t.declares = "none" THEN Null ELSE FieldAt(b, slots, t, 1, 0)
      kids == Kids(b, t) IN
  Link(o.super, ObjectAtPath(slots, t.super))
  \cup (IF b.chain THEN Link(o.super - 4, HeapDecoy(4)) \cup At(o.super - 2, Depth(slots, t))
        ELSE {})
  \cup Link(o.children, IF kids = <<>> THEN Null ELSE ObjectAtPath(slots, kids[1]))
  \cup (IF b.ffield THEN Link(o.child_properties, head) ELSE {})
  \cup At(o.size, t.size)
  \cup At(o.align, IF b.narrow THEN t.align + 7 * 65536 ELSE t.align)
  \cup Link(o.link, IF head = Null THEN FirstField(b, slots, t.super) ELSE head)

ClassMembers(b, slots, t, k) ==
  LET o == Places(b) IN
  Link(o.flags, Code(2)) \cup Link(o.cdo, ObjectAtPath(slots, t.cdo))
  \cup (IF t.usable THEN Link(o.interfaces, ArrayBlock(2 * k)) \cup At(o.interfaces + 2, 1)
                         \cup At(o.interfaces + 3, 1) ELSE {})

FunctionMembers(b, t, k) ==
  LET o == Places(b) IN
  At(o.flags, t.flags) \cup At(o.flags + 1, 1) \cup Link(o.decoy, HeapDecoy(k % 2))
  \cup Link(o.thunk, Code(1)) \cup Link(o.func, t.native)

EnumMembers(b, t, k) ==
  LET o == Places(b)  n == Len(t.values) IN
  Link(o.names - 4, ArrayBlock(1)) \cup At(o.names - 2, 6) \cup At(o.names - 1, 6)
  \cup (IF b.split
        THEN At(o.names, ArrayBlock(2 * k) + 1) \cup At(o.names + 1, High)
             \cup At(o.names + 2, ArrayBlock(2 * k + 1) + 1) \cup At(o.names + 3, High)
             \cup At(o.names + 4, n)
        ELSE Link(o.names, ArrayBlock(2 * k)) \cup At(o.names + 2, n) \cup At(o.names + 3, n))

EnumNames(b, t) ==
  LET stride == IF b.split THEN 2 ELSE b.pair IN
  Block(UNION {At(stride * (i - 1), Id(t.values[i][1]))
               \cup (IF b.split THEN {} ELSE At(stride * i - 2, t.values[i][2])) :
               i \in DOMAIN t.values})
EnumNumbers(t) == Block(UNION {At(2 * (i - 1), t.values[i][2]) : i \in DOMAIN t.values})

IsClassThing(t) == t.class \in {"Class", "BlueprintGeneratedClass"}
IsStructThing(t) == IsClassThing(t) \/ t.class \in {"ScriptStruct", "Function"}

\* A property that is an object knows its place in the list of its owner.
ObjectField(b, slots, t) ==
  LET p == t.field[1]
      owner == SubSeq(t.path, 1, Len(t.path) - 1)
      inner == IF p.inner = "" THEN Null ELSE ObjectAtPath(slots, t.path \o <<"Inner">>)
      holder == slots[SlotOf(slots, owner)]
      at == IF holder.declares = "none" THEN {}
            ELSE {k \in DOMAIN Declared(b)[holder.declares] :
                    Declared(b)[holder.declares][k].name = p.name}
      link == IF at = {} THEN Null ELSE NextLink(b, slots, holder, CHOOSE k \in at : TRUE) IN
  FieldMembers(b, slots, p, 0, NextKid(b, slots, t.path), link, inner)

ObjectMembers(b, slots, k) ==
  LET t == slots[k]  o == Places(b) IN
  Link(0, Vtable) \cup At(2, 1 + (k % 3)) \cup At(o.index, k - 1)
  \cup Link(o.class, ClassNamed(slots, t.class)) \cup At(o.name, Id(Last(t.path)))
  \cup Link(o.outer, IF Len(t.path) = 1 THEN Null
                     ELSE ObjectAtPath(slots, SubSeq(t.path, 1, Len(t.path) - 1)))
  \cup (IF IsStructThing(t) THEN StructMembers(b, slots, t) ELSE {})
  \cup (IF IsClassThing(t) THEN ClassMembers(b, slots, t, k) ELSE {})
  \cup (IF t.class = "Function"
        THEN FunctionMembers(b, t, k) \cup Link(o.next, NextKid(b, slots, t.path)) ELSE {})
  \cup (IF t.class = "Enum" THEN EnumMembers(b, t, k) ELSE {})
  \cup (IF t.field # <<>> THEN ObjectField(b, slots, t) ELSE {})

\* The writable data of the executable: the array, and before it what
\* resembles one: its own older half, and a table in another order.
ArrayAt == 24
Chunk(slots, from, object) ==
  Block(UNION {IF slots[k].path = <<>> THEN {}
               ELSE Link(6 * ((k + from) % Len(slots)) + object, ObjectBlock(k)) :
               k \in DOMAIN slots})
Data(b, n) ==
  Block(Link(ArrayAt, ChunkTable) \cup At(ArrayAt + b.counters, 256)
        \cup At(ArrayAt + b.counters + 1, n) \cup At(ArrayAt + b.counters + 2, 2)
        \cup At(ArrayAt + b.counters + 3, 1)
        \cup (IF b.decoy
              THEN Link(0, ChunkTable + 8 * 20) \cup At(4, 256) \cup At(5, n)
                   \cup At(6, 2) \cup At(7, 1)
                   \cup Link(8, ChunkTable) \cup At(12, 256) \cup At(13, n \div 2)
                   \cup At(14, 2) \cup At(15, 1)
              ELSE {}))

Blocks(b, slots, live, object) ==
  {<<WritableData, Data(b, Len(slots))>>,
   <<ChunkTable, Block(Link(0, FirstChunk))>>,
   <<ChunkTable + 160, Block(Link(0, ChunkTable + 168))>>,
   <<FirstChunk, Chunk(slots, -1, object)>>,
   <<ChunkTable + 168, Chunk(slots, 0, object)>>,
   <<Vtable, Block(Link(0, Code(0)))>>,
   <<ArrayBlock(1), Block(At(0, 99999))>>}
  \cup {<<Code(n), Block(At(0, 1))>> : n \in 0 .. 30}
  \cup {<<HeapDecoy(n), Block(At(0, 1))>> : n \in {0, 1, 4}}
  \cup {<<ObjectBlock(k), Block(ObjectMembers(b, slots, k))>> : k \in live}
  \cup {<<ArrayBlock(2 * k), EnumNames(b, slots[k])>> :
          k \in {j \in live : slots[j].class = "Enum"}}
  \cup {<<ArrayBlock(2 * k + 1), EnumNumbers(slots[k])>> :
          k \in {j \in live : slots[j].class = "Enum" /\ b.split}}
  \cup {<<ArrayBlock(2 * k), Block(Link(0, ClassNamed(slots, "Usable")))>> :
          k \in {j \in live : slots[j].usable}}
  \cup (IF b.ffield
        THEN {<<FieldClassBlock(Id(type)), Block(At(0, Id(type)))>> : type \in PropertyClass}
             \cup UNION {FieldsOf(b, slots, slots[k]) :
                         k \in {j \in live : slots[j].declares # "none"}}
        ELSE {})

Live(slots) == {k \in DOMAIN slots : slots[k].path # <<>>}
MemoryWith(b, slots) ==
  Block(Blocks(b, slots, Live(slots), IF b.counters = 4 THEN 0 ELSE 2))
MemoryOf(g) == MemoryWith(g.build, Slots(g))

-----------------------------------------------------------------------------
(* What a reader should find: where the members lie, and what they say     *)

LayoutOf(b) ==
  LET o == Places(b) IN
  [array |-> [inner |-> ArrayAt, region |-> WritableData, item_size |-> 6,
              item_object_offset |-> IF b.counters = 4 THEN 0 ELSE 2,
              index_offset |-> o.index],
   object |-> [index |-> o.index, class |-> o.class, outer |-> o.outer, name |-> o.name],
   struct |-> [super_struct |-> o.super, children |-> o.children,
               child_properties |-> o.child_properties, properties_size |-> o.size,
               min_alignment |-> o.align, min_alignment_is_u16 |-> b.narrow,
               object_size |-> Size(b), extends_uobject |-> b.tail # 0],
   property |-> [class_private |-> o.f_class, next |-> o.f_next, name |-> o.f_name,
                 array_dim |-> o.dim, element_size |-> o.esize,
                 property_flags |-> o.pflags, offset_internal |-> o.offset],
   class |-> [class_default_object |-> o.cdo, interfaces |-> o.interfaces,
              interface_stride |-> 4],
   subclass |-> [object_property_class |-> o.slot, struct_struct |-> o.slot,
                 array_inner |-> o.slot, enum_underlying |-> o.slot,
                 enum_enum |-> o.slot + 2, bool_masks |-> o.slot],
   function |-> [field_next |-> o.next, function_flags |-> o.flags,
                 native_func |-> o.func],
   enum |-> [names_array |-> o.names, split_arrays |-> b.split,
             pair_stride |-> IF b.split THEN 4 ELSE b.pair]]

DescribedType(p) ==
  LET Type(raw, ref, params) == [raw |-> raw, ref |-> ref, params |-> params] IN
  Type(p.type, p.ref, IF p.inner = "" THEN <<>> ELSE <<Type(p.inner, <<>>, <<>>)>>)

DescribedProperty(p) ==
  [name |-> p.name, offset |-> p.at, size |-> p.size, flags |-> p.flags,
   type |-> DescribedType(p), mask |-> IF p.mask = 255 THEN 0 ELSE p.mask]

DescribedProperties(b, t) ==
  [k \in DOMAIN Declared(b)[t.declares] |-> DescribedProperty(Declared(b)[t.declares][k])]

DescribedFunction(b, t) ==
  [name |-> Last(t.path), flags |-> t.flags, native |-> t.native,
   params |-> DescribedProperties(b, t)]

RECURSIVE Ancestors(_, _)
Ancestors(slots, t) ==
  {t.path} \cup (IF t.super = <<>> THEN {}
                 ELSE Ancestors(slots, slots[SlotOf(slots, t.super)]))

DescribedStruct(b, slots, t) ==
  LET above == Ancestors(slots, t) IN
  [path |-> t.path, kind |-> IF IsClassThing(t) THEN "Class" ELSE "ScriptStruct",
   size |-> t.size, alignment |-> t.align,
   prefix |-> IF ~IsClassThing(t) THEN "F"
              ELSE IF Engine \o <<"Actor">> \in above THEN "A"
              ELSE IF Core \o <<"Interface">> \in above THEN "I" ELSE "U",
   interfaces |-> IF t.usable THEN {Engine \o <<"Usable">>} ELSE {},
   super |-> t.super,
   inherited |-> IF t.super = <<>> THEN 0 ELSE slots[SlotOf(slots, t.super)].size,
   properties |-> DescribedProperties(b, t),
   functions |-> [k \in DOMAIN t.kids |-> DescribedFunction(b, slots[SlotOf(slots, t.kids[k])])]]

\* EKind has a value no byte holds, whatever its property says.
DescribedEnum(t) ==
  [path |-> t.path, kind |-> "Enum", values |-> t.values,
   underlying |-> IF \E k \in DOMAIN t.values : t.values[k][2] > 255 THEN "uint16" ELSE "uint8"]

\* Every type alive, and nothing else: no packages, functions or instances.
RecordsWith(b, slots) ==
  LET types == {k \in DOMAIN slots : IsClassThing(slots[k])
                                     \/ slots[k].class \in {"ScriptStruct", "Enum"}}
      real == {k \in types : ~\E j \in DOMAIN slots : slots[j].cdo = slots[k].path
                                                       /\ slots[k].path # <<>>} IN
  {IF slots[k].class = "Enum" THEN DescribedEnum(slots[k])
   ELSE DescribedStruct(b, slots, slots[k]) : k \in real}
RecordsOf(g) == RecordsWith(g.build, Slots(g))
===============================================================================
