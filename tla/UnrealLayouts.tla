---------------------------- MODULE UnrealLayouts ----------------------------
(***************************************************************************)
(* The memory of a game as the engine reader sees it, and what is found    *)
(* there first: the object array (ObjectArray.cpp), and the layouts of     *)
(* UObject (ObjectLayout.cpp) and UStruct (StructLayout.cpp), derived from *)
(* invariants of the engine and not from its version.                      *)
(*                                                                         *)
(* Memory is a function from the addresses of mapped blocks to dwords: a   *)
(* pointer is two dwords, the address of a block and PointerHigh, and all  *)
(* offsets are in dwords. A block is a page: what nothing was written to   *)
(* reads zero, and an address in no block cannot be read. A name is an     *)
(* index into NameText; small integers and PointerHigh are indices too,    *)
(* which is what makes a pointer or a counter read as a name.              *)
(* The number of objects is scaled down, with the thresholds that count    *)
(* them; caps no instance reaches (kMaxObjects, the 32 links of an outer   *)
(* chain) are left out.                                                    *)
(* Offsets are in dwords and -1 (Unknown) when not found; sizes are in     *)
(* bytes, as the engine counts them. The confidence of a layout is kept as *)
(* what moves it: whether its end-to-end check passed (earned).            *)
(***************************************************************************)
EXTENDS Integers, Sequences, FiniteSets, TLC

CONSTANTS
  PointerHigh,    \* the high half of every address of this process
  NameText,       \* what an index into the name pool resolves to
  MinObjects,     \* kMinObjects
  SampleTarget,   \* kSampleTarget of the array and of the object layout
  MinSamples,     \* samples below which neither is believed
  MinClasses      \* classes below which UStruct is not derived (16)

ASSUME MemoryAssumption ==
  /\ PointerHigh \in Nat \ {0}
  /\ MinObjects \in Nat /\ SampleTarget \in Nat \ {0} /\ MinSamples \in Nat

Null == 0
Wild == -1     \* a pointer to no block
Unknown == -1  \* an offset that was not found: int x{-1}
NoText == ""   \* a name that does not resolve

\* The same function, kept by TLC as a table and not as its rule.
Tabled(f) == f @@ <<>>

-----------------------------------------------------------------------------
(* Reading. ReadOr yields zero for what cannot be read.                    *)

Mapped(mem, at) == at \in DOMAIN mem

Dword(mem, at, o) ==
  IF at \in DOMAIN mem /\ o \in DOMAIN mem[at] THEN mem[at][o] ELSE 0

Pointer(mem, at, o) ==
  LET low == Dword(mem, at, o)  high == Dword(mem, at, o + 1) IN
  IF low = 0 /\ high = 0 THEN Null
  ELSE IF high = PointerHigh /\ low \in DOMAIN mem THEN low ELSE Wild

Name(mem, at, o) ==
  LET id == Dword(mem, at, o) IN
  IF id \in DOMAIN NameText THEN NameText[id] ELSE NoText

Least(S) == CHOOSE x \in S : \A y \in S : x <= y
Most(S) == CHOOSE x \in S : \A y \in S : x >= y

\* The first of the candidates, in order, whose score no other passes: the
\* loops keep a candidate only when it is strictly better than the last.
Strongest(candidates, score) ==
  LET best == Most({score[c] : c \in candidates} \cup {0}) IN
  IF best = 0 THEN Unknown ELSE Least({c \in candidates : score[c] = best})

\* At most the first n of a sequence: a sample stops growing at its target.
FirstOf(s, n) == SubSeq(s, 1, IF Len(s) < n THEN Len(s) ELSE n)

-----------------------------------------------------------------------------
(* The object array                                                        *)

ItemSizes == <<6, 8, 4, 10>>
ItemObjectOffsets == <<0, 2, 4>>
CounterOffsets == 2 .. 16
IndexOffsets == 1 .. 16
InnerOffset == 4   \* kInnerOffsetInFUObjectArray

CountersAgree(max_elements, num_elements, max_chunks, num_chunks) ==
  /\ num_elements >= MinObjects /\ max_elements >= num_elements
  /\ num_chunks > 0 /\ num_chunks <= max_chunks
  /\ LET per_chunk == max_elements \div max_chunks IN
     /\ per_chunk > 0
     /\ (num_elements + per_chunk - 1) \div per_chunk <= num_chunks

\* The cheap filter: a readable chunk table and four counters, wherever the
\* first window that holds them lies.
ReadCandidate(mem, region, at) ==
  LET table == Pointer(mem, region, at)
      Count(o, k) == Dword(mem, region, at + o + k)
      windows == {o \in CounterOffsets :
                    CountersAgree(Count(o, 0), Count(o, 1), Count(o, 2),
                                  Count(o, 3))} IN
  IF table \in {Null, Wild} \/ windows = {} THEN <<>>
  ELSE LET o == Least(windows) IN
       <<[region |-> region, inner |-> at, chunk_table |-> table,
          max_elements |-> Count(o, 0), num_elements |-> Count(o, 1),
          max_chunks |-> Count(o, 2), num_chunks |-> Count(o, 3)]>>

LooksLikeObject(mem, object) ==
  LET vtable == Pointer(mem, object, 0) IN
  /\ object \notin {Null, Wild} /\ vtable \notin {Null, Wild}
  /\ Pointer(mem, vtable, 0) \notin {Null, Wild}

\* The slots sampled, spread over the array: those holding an object.
IndexSamples(mem, c, item_size, per_chunk, item_offset) ==
  LET stride == Most({1, c.num_elements \div (SampleTarget * 4)})
      slots == [k \in 1 .. (c.num_elements - 1) \div stride + 1 |-> (k - 1) * stride]
      ObjectIn(i) ==
        LET chunk == Pointer(mem, c.chunk_table, 2 * (i \div per_chunk)) IN
        IF i \div per_chunk >= c.num_chunks \/ chunk \in {Null, Wild} THEN Null
        ELSE Pointer(mem, chunk, (i % per_chunk) * item_size + item_offset)
      live == SelectSeq(slots, LAMBDA i : LooksLikeObject(mem, ObjectIn(i))) IN
  [k \in 1 .. Len(FirstOf(live, SampleTarget)) |->
     [index |-> live[k], object |-> ObjectIn(live[k])]]

\* The decisive test: the object in slot i stores i, at one offset for all.
DeriveIndexOffset(mem, c, item_size, per_chunk, item_offset) ==
  LET samples == IndexSamples(mem, c, item_size, per_chunk, item_offset)
      surviving == {o \in IndexOffsets : \A k \in DOMAIN samples :
                      Dword(mem, samples[k].object, o) = samples[k].index} IN
  IF Len(samples) < MinSamples \/ surviving = {} THEN Unknown ELSE Least(surviving)

NoArray == [inner |-> Unknown, region |-> Unknown, num_elements |-> 0,
            num_chunks |-> 0, elements_per_chunk |-> 0, item_size |-> 0,
            item_object_offset |-> 0, index_offset |-> Unknown]

\* An item is a size and a place of the pointer in it, by their numbers.
IndexFor(mem, c, item) ==
  DeriveIndexOffset(mem, c, ItemSizes[item[1]], c.max_elements \div c.max_chunks,
                    ItemObjectOffsets[item[2]])

Fitting(mem, c) ==
  {item \in (1 .. 4) \X (1 .. 3) :
     /\ ItemObjectOffsets[item[2]] + 2 <= ItemSizes[item[1]]
     /\ IndexFor(mem, c, item) # Unknown}

\* The likeliest item size first, and the ordinary place of the pointer
\* before the others.
Likeliest(items) ==
  CHOOSE a \in items : \A b \in items : a[1] < b[1] \/ (a[1] = b[1] /\ a[2] <= b[2])

ArrayOf(mem, c, item) ==
  [inner |-> c.inner, region |-> c.region, num_elements |-> c.num_elements,
   num_chunks |-> c.num_chunks, elements_per_chunk |-> c.max_elements \div c.max_chunks,
   item_size |-> ItemSizes[item[1]], item_object_offset |-> ItemObjectOffsets[item[2]],
   index_offset |-> IndexFor(mem, c, item)]

Judged(mem, c, items) == IF items = {} THEN NoArray ELSE ArrayOf(mem, c, Likeliest(items))

\* What an address proves to be, whoever proposed it.
Evaluate(mem, region, at) ==
  LET found == ReadCandidate(mem, region, at) IN
  IF found = <<>> THEN NoArray ELSE Judged(mem, found[1], Fitting(mem, found[1]))

Largest(arrays) ==
  IF arrays = {} THEN NoArray
  ELSE CHOOSE a \in arrays : \A b \in arrays : b.num_elements <= a.num_elements

\* A resolver says where to look (hint: no address or one) and is judged by
\* the same rule; when it is wrong the writable data of the main module is
\* scanned, and of several arrays the one with the most objects is taken.
FindObjectArray(mem, data, size, hint) ==
  LET hinted == {Evaluate(mem, data, at + InnerOffset) : at \in hint} \ {NoArray} IN
  IF hinted # {} THEN CHOOSE a \in hinted : TRUE
  ELSE Largest({Evaluate(mem, data, 2 * k) : k \in 0 .. (size - 8) \div 2} \ {NoArray})

ObjectAt(mem, array, i) ==
  LET chunk == i \div array.elements_per_chunk
      table == Pointer(mem, array.region, array.inner)
      block == Pointer(mem, table, 2 * chunk) IN
  IF i \notin 0 .. array.num_elements - 1 \/ chunk >= array.num_chunks THEN Null
  ELSE Pointer(mem, block,
               (i % array.elements_per_chunk) * array.item_size
                 + array.item_object_offset)

IsArrayObject(mem, array, candidate) ==
  /\ Mapped(mem, candidate)
  /\ ObjectAt(mem, array, Dword(mem, candidate, array.index_offset)) = candidate

\* The objects in slot order, the freed slots left out.
Objects(mem, array) ==
  SelectSeq([k \in 1 .. array.num_elements |-> ObjectAt(mem, array, k - 1)],
            LAMBDA o : o # Null)

-----------------------------------------------------------------------------
(* Links                                                                   *)

\* The objects a pointer member leads through, from at: until it is null,
\* leaves the blocks, or comes back.
RECURSIVE FollowFrom(_, _, _, _)
FollowFrom(mem, at, o, seen) ==
  IF at \in {Null, Wild} \/ \E k \in DOMAIN seen : seen[k] = at THEN seen
  ELSE FollowFrom(mem, Pointer(mem, at, o), o, Append(seen, at))

Follow(mem, at, o) == FollowFrom(mem, at, o, <<>>)

\* What stopped it: null, an address in no block, or an object seen before.
StoppedBy(mem, chain, o) ==
  IF chain = <<>> THEN Null ELSE Pointer(mem, chain[Len(chain)], o)

-----------------------------------------------------------------------------
(* UObject                                                                 *)

ObjectOffsets == {2 * k : k \in 1 .. 9}
NameOffsets == 2 .. 18

NoObjectLayout == [index |-> Unknown, class |-> Unknown, outer |-> Unknown,
                   name |-> Unknown, uclass |-> Null, earned |-> FALSE]

SampleObjects(mem, array) ==
  LET stride == Most({1, array.num_elements \div (SampleTarget * 3)})
      slots == [k \in 1 .. (array.num_elements - 1) \div stride + 1 |->
                  ObjectAt(mem, array, (k - 1) * stride)] IN
  FirstOf(SelectSeq(slots, LAMBDA o : o # Null), SampleTarget)

\* The class of the class is the class itself; the outermost object has no
\* outer. Counting pointers cannot tell the two links apart, following can.
Converges(mem, array, target, o) ==
  LET chain == Follow(mem, target, o) IN
  /\ \A k \in DOMAIN chain : IsArrayObject(mem, array, chain[k])
  /\ StoppedBy(mem, chain, o) = chain[Len(chain)]

PointerStats(mem, array, samples, o) ==
  LET to == Tabled([k \in DOMAIN samples |-> Pointer(mem, samples[k], o)])
      valid == {k \in DOMAIN samples : IsArrayObject(mem, array, to[k])}
      converged == {k \in valid : Converges(mem, array, to[k], o)}
      FixedPoint == LET chain == Follow(mem, to[Most(converged)], o) IN
                    chain[Len(chain)] IN
  [valid |-> Cardinality(valid),
   null |-> Cardinality({k \in DOMAIN samples : to[k] = Null}),
   converged |-> Cardinality(converged),
   fixed_point |-> IF converged = {} THEN Null ELSE FixedPoint]

LeastOrUnknown(S) == IF S = {} THEN Unknown ELSE Least(S)

\* ResolveFName appends the number; the model's names have none.
GetObjectName(mem, layout, object) ==
  IF object = Null \/ layout.name = Unknown THEN NoText
  ELSE Name(mem, object, layout.name)

\* Resolving is not enough: a constant half of a pointer resolves too. The
\* names must differ, and the fixed point must be called Class.
NameOffset(mem, samples, layout) ==
  LET Named(o) == {k \in DOMAIN samples : Name(mem, samples[k], o) # NoText}
      distinct == Tabled([o \in NameOffsets |->
                     Cardinality({Name(mem, samples[k], o) : k \in Named(o)})])
      candidates == {o \in NameOffsets \ {layout.class, layout.outer, layout.index} :
                       /\ Cardinality(Named(o)) >= (Len(samples) * 3) \div 4
                       /\ distinct[o] >= 2}
      naming == {o \in candidates : layout.uclass # Null
                                    /\ Name(mem, layout.uclass, o) = "Class"}
      preferred == IF naming # {} THEN naming ELSE candidates IN
  Strongest(preferred, distinct)

PointersAmong(stats, n) ==
  {o \in ObjectOffsets : stats[o].valid + stats[o].null >= (n * 3) \div 4}

ClassOffset(stats, n) ==
  LeastOrUnknown({o \in PointersAmong(stats, n) :
                    stats[o].null = 0 /\ stats[o].converged > n \div 2})

ObjectLinks(stats, n, index, class) ==
  [NoObjectLayout EXCEPT
     !.index = index, !.class = class,
     !.outer = LeastOrUnknown({o \in PointersAmong(stats, n) \ {class} :
                                 stats[o].valid > 0 /\ stats[o].converged = 0}),
     !.uclass = IF class = Unknown THEN Null ELSE stats[class].fixed_point]

EndToEnd(mem, layout) ==
  [layout EXCEPT !.earned =
     /\ Unknown \notin {layout.class, layout.outer, layout.name}
     /\ GetObjectName(mem, layout, layout.uclass) = "Class"]

WithNames(mem, samples, links) ==
  EndToEnd(mem, [links EXCEPT !.name = NameOffset(mem, samples, links)])

ObjectLayoutFrom(mem, samples, index, stats) ==
  WithNames(mem, samples,
            ObjectLinks(stats, Len(samples), index, ClassOffset(stats, Len(samples))))

DeriveObjectLayout(mem, array) ==
  LET samples == SampleObjects(mem, array) IN
  IF Len(samples) < MinSamples
    THEN [NoObjectLayout EXCEPT !.index = array.index_offset]
    ELSE ObjectLayoutFrom(mem, samples, array.index_offset,
           Tabled([o \in ObjectOffsets |-> PointerStats(mem, array, samples, o)]))

ObjectLayoutValid(layout) ==
  Unknown \notin {layout.class, layout.outer, layout.name}

GetObjectClass(mem, layout, object) ==
  IF object = Null THEN Null ELSE Pointer(mem, object, layout.class)

GetClassName(mem, layout, object) ==
  GetObjectName(mem, layout, GetObjectClass(mem, layout, object))

\* A path is the names from the outermost object inwards; a corrupt outer
\* that comes back ends it.
GetObjectPathName(mem, layout, object) ==
  LET outers == Follow(mem, object, layout.outer) IN
  [k \in 1 .. Len(outers) |->
     GetObjectName(mem, layout, outers[Len(outers) + 1 - k])]

FindObjectByPath(mem, array, layout, path) ==
  LET found == SelectSeq(Objects(mem, array),
                 LAMBDA o : GetObjectPathName(mem, layout, o) = path) IN
  IF found = <<>> THEN Null ELSE found[1]

-----------------------------------------------------------------------------
(* UStruct                                                                 *)

StructOffsets == {2 * k : k \in 5 .. 19}

NoStructLayout == [super_struct |-> Unknown, children |-> Unknown,
                   child_properties |-> Unknown, properties_size |-> Unknown,
                   min_alignment |-> Unknown, min_alignment_is_u16 |-> FALSE,
                   object_class |-> Null, object_size |-> Unknown,
                   extends_uobject |-> FALSE, earned |-> FALSE]

StructLayoutValid(layout) ==
  Unknown \notin {layout.super_struct, layout.properties_size}

GetSuperStruct(mem, layout, structure) ==
  IF structure = Null \/ layout.super_struct = Unknown THEN Null
  ELSE Pointer(mem, structure, layout.super_struct)

GetPropertiesSize(mem, layout, structure) ==
  IF structure = Null \/ layout.properties_size = Unknown THEN 0
  ELSE Dword(mem, structure, layout.properties_size)

GetMinAlignment(mem, layout, structure) ==
  LET word == Dword(mem, structure, layout.min_alignment) IN
  IF structure = Null \/ layout.min_alignment = Unknown THEN 0
  ELSE IF layout.min_alignment_is_u16 THEN word % 65536 ELSE word

\* What an object is: the first kind on the super chain of its class, which
\* is what makes the class of a Blueprint a class.
Kinds == {"Class", "ScriptStruct", "Enum", "Function", "Package"}

ClassifyObject(mem, object_layout, struct_layout, object) ==
  LET meta == GetObjectClass(mem, object_layout, object)
      chain == IF struct_layout.super_struct = Unknown
               THEN SelectSeq(<<meta>>, LAMBDA o : o \notin {Null, Wild})
               ELSE Follow(mem, meta, struct_layout.super_struct)
      kinds == SelectSeq([k \in DOMAIN chain |-> GetObjectName(mem, object_layout, chain[k])],
                         LAMBDA name : name \in Kinds) IN
  IF object = Null \/ kinds = <<>> THEN "Other" ELSE kinds[1]

SampleClasses(mem, array, object_layout) ==
  SelectSeq(Objects(mem, array),
            LAMBDA o : GetClassName(mem, object_layout, o) = "Class")

\* Every class chain ends at the object named Object, whose own link is null.
ReachesRoot(mem, array, object_layout, klass, o) ==
  LET chain == Follow(mem, klass, o) IN
  /\ StoppedBy(mem, chain, o) = Null
  /\ \A k \in 2 .. Len(chain) : IsArrayObject(mem, array, chain[k])
  /\ GetObjectName(mem, object_layout, chain[Len(chain)]) = "Object"

SuperStruct(mem, array, object_layout, classes) ==
  LET reached == Tabled([o \in StructOffsets |->
                    {k \in DOMAIN classes :
                       ReachesRoot(mem, array, object_layout, classes[k], o)}])
      best == Strongest(StructOffsets,
                        [o \in StructOffsets |-> Cardinality(reached[o])]) IN
  IF best = Unknown \/ Cardinality(reached[best]) < (Len(classes) * 3) \div 4
  THEN [at |-> Unknown, root |-> Null]
  ELSE LET chain == Follow(mem, classes[Most(reached[best])], best) IN
       [at |-> best, root |-> chain[Len(chain)]]

StockObjectSize(object_layout) == 4 * object_layout.outer + 8
MaxObjectTailGrowth == 256
SaneSize(size) == size > 0 /\ size <= 1048576
Alignments == {1, 2, 4, 8, 16, 32, 64}

\* How many classes are no smaller than their super, by the size at o.
MonotonicScore(mem, classes, super, o) ==
  Cardinality({k \in DOMAIN classes :
    LET base == Pointer(mem, classes[k], super)
        size == Dword(mem, classes[k], o)  super_size == Dword(mem, base, o) IN
    /\ base \notin {Null, Wild} /\ SaneSize(size) /\ SaneSize(super_size)
    /\ size >= super_size})

NothingSmallerThanRoot(mem, classes, o, root_size) ==
  LET sizes == {Dword(mem, classes[k], o) : k \in DOMAIN classes}
      sane == {s \in sizes : SaneSize(s)} IN
  sane # {} /\ \A s \in sane : s >= root_size

Aligned(mem, classes, o, narrow) ==
  Cardinality({k \in DOMAIN classes :
    LET word == Dword(mem, classes[k], o) IN
    (IF narrow THEN word % 65536 ELSE word) \in Alignments})
  >= (Len(classes) * 3) \div 4

AlignmentFollows(mem, classes, o) ==
  Aligned(mem, classes, o + 1, FALSE) \/ Aligned(mem, classes, o + 1, TRUE)

SizeOffsets(super) == super + 2 .. 38

\* PropertiesSize. First the exact size of a stock UObject; only when that
\* finds nothing, what holds of a fork that appends to UObject as well.
StockSizeOffset(mem, classes, super, root, floor) ==
  LET anchored == {o \in SizeOffsets(super) : Dword(mem, root, o) = floor}
      score == Tabled([o \in anchored |-> MonotonicScore(mem, classes, super, o)])
      best == Strongest(anchored, score) IN
  IF best # Unknown /\ score[best] >= Len(classes) \div 2 THEN best ELSE Unknown

ForkSizeOffset(mem, classes, super, root, floor) ==
  LET Size(o) == Dword(mem, root, o)
      anchored == {o \in SizeOffsets(super) :
                     /\ Size(o) >= floor /\ Size(o) <= floor + MaxObjectTailGrowth
                     /\ Size(o) % 8 = 0
                     /\ NothingSmallerThanRoot(mem, classes, o, Size(o))
                     /\ AlignmentFollows(mem, classes, o)}
      score == Tabled([o \in anchored |-> MonotonicScore(mem, classes, super, o)])
      best == Strongest(anchored, score) IN
  IF best # Unknown /\ score[best] >= (Len(classes) * 3) \div 4 THEN best ELSE Unknown

SizeOffset(mem, classes, super, root, floor) ==
  LET stock == StockSizeOffset(mem, classes, super, root, floor) IN
  IF stock # Unknown THEN stock
  ELSE ForkSizeOffset(mem, classes, super, root, floor)

\* The heads of the two lists: Children leads to objects of the array, and
\* ChildProperties to FFields, which are not in it. The lowest offset that
\* qualifies is the declared one: PropertyLink comes after.
HeadTargets(mem, array, classes, o) ==
  LET head == Tabled([k \in DOMAIN classes |-> Pointer(mem, classes[k], o)])
      readable == {k \in DOMAIN classes : head[k] \notin {Null, Wild}}
      inside == {k \in readable : IsArrayObject(mem, array, head[k])}
      outside == {k \in readable \ inside :
                    Pointer(mem, head[k], 0) \notin {Null, Wild}} IN
  [in_array |-> Cardinality(inside), out_of_array |-> Cardinality(outside)]

ListHeads(mem, array, classes, super, size_offset) ==
  LET offsets == {o \in StructOffsets : o >= super + 2} \ {size_offset}
      heads == Tabled([o \in offsets |-> HeadTargets(mem, array, classes, o)])
      enough == Len(classes) \div 8 IN
  [children |-> LeastOrUnknown({o \in offsets :
     heads[o].in_array > heads[o].out_of_array * 4 /\ heads[o].in_array >= enough}),
   child_properties |-> LeastOrUnknown({o \in offsets :
     heads[o].out_of_array > heads[o].in_array * 4 /\ heads[o].out_of_array >= enough})]

StructLinks(super, lists) ==
  [NoStructLayout EXCEPT
     !.super_struct = super.at, !.object_class = super.root,
     !.children = lists.children, !.child_properties = lists.child_properties]

\* Sizes are found, and the alignment beside them: a dword or its half.
WithSizes(mem, classes, links, floor, size) ==
  LET root_size == Dword(mem, links.object_class, size)
      wide == Aligned(mem, classes, size + 1, FALSE)
      narrow == ~wide /\ Aligned(mem, classes, size + 1, TRUE) IN
  IF size = Unknown THEN links
  ELSE [links EXCEPT
          !.properties_size = size, !.object_size = root_size,
          !.extends_uobject = root_size # floor,
          !.min_alignment = IF wide \/ narrow THEN size + 1 ELSE Unknown,
          !.min_alignment_is_u16 = narrow,
          !.earned = /\ GetSuperStruct(mem, links, links.object_class) = Null
                     /\ root_size >= floor]

StructLayoutFrom(mem, array, classes, super, floor, size) ==
  WithSizes(mem, classes, StructLinks(super, ListHeads(mem, array, classes, super.at, size)),
            floor, size)

StructLayoutUnder(mem, array, classes, super, floor) ==
  IF Len(classes) < MinClasses \/ super.at = Unknown THEN NoStructLayout
  ELSE StructLayoutFrom(mem, array, classes, super, floor,
                        SizeOffset(mem, classes, super.at, super.root, floor))

DeriveStructLayout(mem, array, object_layout) ==
  LET classes == SampleClasses(mem, array, object_layout) IN
  StructLayoutUnder(mem, array, classes, SuperStruct(mem, array, object_layout, classes),
                    StockObjectSize(object_layout))
=============================================================================
