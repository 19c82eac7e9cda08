-------------------------------- MODULE CppSdk --------------------------------
(* The C++ headers made of an Unreal dump: emit/src/CppSdk.cpp, and what a    *)
(* compiler makes of them.                                                    *)
(*                                                                            *)
(* A header is what it includes, declares ahead and defines; a definition is  *)
(* its base and its members in order.  A type is known by its path: the C++   *)
(* names of types are unique over all headers.  Member names are not, and go  *)
(* through Safe and Unique as they do in the code.  Comments, the runtime     *)
(* that calls are made with and the guards against macros are left out, and   *)
(* so are members that are arrays.                                            *)
EXTENDS Model, Integers, FiniteSets, SequencesExt

CONSTANTS
  StemOf,     \* the file each package goes to: the last part of its name
  Safe        \* how each reflected name is spelled in C++

-----------------------------------------------------------------------------
(* Sizes.  Containers have no layout of their own in a dump; their size is    *)
(* the one most of their uses report, the smaller of two as frequent, in all  *)
(* of the dump whatever part of it is asked for.                              *)
(* Element types have no elements themselves here.                            *)
Parts(type) == <<type>> \o type.params

TypesUsed(r) ==
  FlattenSeq([i \in DOMAIN r.fields |-> Parts(r.fields[i].type)])
  \o FlattenSeq([k \in DOMAIN r.methods |->
       FlattenSeq([i \in DOMAIN r.methods[k].params |-> Parts(r.methods[k].params[i].type)])])

Measured(records, kind) ==
  LET structs   == SetToSeq(Structs(records))
      uses      == SelectSeq(FlattenSeq([i \in DOMAIN structs |-> TypesUsed(structs[i])]),
                             LAMBDA t : t.kind = kind /\ t.size > 0)
      Times(n)  == Len(SelectSeq(uses, LAMBDA t : t.size = n))
      sizes     == {uses[i].size : i \in DOMAIN uses}
  IN  IF sizes = {} THEN 0 ELSE Min({n \in sizes : \A m \in sizes : Times(n) >= Times(m)})

KindsUsed(records) ==
  UNION {{t.kind : t \in ToSet(TypesUsed(r))} : r \in Structs(records)}

(* What is known while headers are written: the types of the packages that    *)
(* are asked for, and the sizes.                                              *)
IndexOf(dump, packages) ==
  [records |-> {r \in dump.records : r.pkg \in packages},
   sizes   |-> [kind \in KindsUsed(dump.records) |-> Measured(dump.records, kind)]]

Scalars == [bool |-> 1, uint8 |-> 1, uint16 |-> 2, uint32 |-> 4, uint64 |-> 8]

(* An enum is as wide as it says and as its values need.  Those of an         *)
(* instance fit in four bytes and are not negative.                           *)
EnumWidth(record) ==
  LET values == {record.values[v] : v \in DOMAIN record.values}
      needed == IF \A v \in values : v < 256 THEN 1 ELSE IF \A v \in values : v < 65536 THEN 2 ELSE 4
  IN  Max({needed, Scalars[record.underlying]})

(* What the emitter believes the size of a type to be; 0 is not known.        *)
ExpectedSize(index, type) ==
  CASE type.kind \in DOMAIN Scalars -> Scalars[type.kind]
    [] type.kind = "object" -> 8
    [] type.kind = "enum"   -> IF type.names \in PathsIn(Enums(index.records))
                                 THEN EnumWidth(Record(index.records, type.names)) ELSE 0
    [] type.kind = "struct" -> IF type.names \in PathsIn(Structs(index.records))
                                 THEN Record(index.records, type.names).size ELSE 0
    [] OTHER -> index.sizes[type.kind]

-----------------------------------------------------------------------------
(* Rendering.  A type that cannot be expressed is opaque: bytes.  A container *)
(* of what cannot be expressed still can.                                     *)
Opaque     == [is |-> "opaque", names |-> "", inner |-> <<>>]
Cpp(is, names, inner) == [is |-> is, names |-> names, inner |-> inner]

SizedInteger(bytes) == CHOOSE k \in {"uint8", "uint16", "uint32", "uint64"} : Scalars[k] = bytes

RenderSingle(index, type, size) ==
  LET known == type.names \in PathsIn(IF type.kind = "enum" THEN Enums(index.records)
                                                               ELSE Structs(index.records))
  IN  CASE type.kind = "unknown" -> Opaque
        [] type.kind \in {"enum", "struct"} /\ ~known -> Opaque
        [] type.kind = "enum" /\ known /\ size > 0 /\ size # EnumWidth(Record(index.records, type.names)) ->
             IF size \in {1, 2, 4, 8} THEN Cpp(SizedInteger(size), "", <<>>) ELSE Opaque
        [] OTHER -> Cpp(type.kind, type.names, <<>>)

RenderType(index, type, size) ==
  LET Inner(t) == LET r == RenderSingle(index, t, t.size)
                  IN  IF r = Opaque THEN Cpp("uint8", "", <<>>) ELSE r
  IN  IF type.kind # "array" THEN RenderSingle(index, type, size)
      ELSE IF Len(type.params) = 1 THEN Cpp("array", "", <<Inner(type.params[1])>>)
      ELSE Opaque

(* A rendering of another size than the engine reports would move every       *)
(* member after it: bytes instead.                                            *)
RenderMember(index, field) ==
  LET rendered == RenderType(index, field.type, Max({field.size, 1}))
      expected == ExpectedSize(index, field.type)
  IN  IF expected > 0 /\ expected # Max({field.size, 1}) THEN Opaque ELSE rendered

-----------------------------------------------------------------------------
(* Names, unique within their owner: the spelling, and a number when it is    *)
(* taken.                                                                     *)
Unique(name, taken) == <<Safe[name], Min({n \in 0..Cardinality(taken) : <<Safe[name], n>> \notin taken})>>

NamesInTurn(names, taken) ==
  FoldLeft(LAMBDA given, name : Append(given, Unique(name, taken \cup ToSet(given))), <<>>, names)

-----------------------------------------------------------------------------
(* A definition.  Members are sorted first, bits of one byte by their place   *)
(* in it, and are taken one by one, the bits of a byte together.              *)
ByOffset(fields) ==
  LET Before(i, j) == \/ fields[i].offset < fields[j].offset
                      \/ fields[i].offset = fields[j].offset /\ fields[i].bit < fields[j].bit
                      \/ fields[i].offset = fields[j].offset /\ fields[i].bit = fields[j].bit /\ i < j
      indices == SetToSortSeq(DOMAIN fields, Before)
  IN  [k \in DOMAIN indices |-> fields[indices[k]]]

IsGroupStart(fields, i) ==
  i = 1 \/ fields[i - 1].offset # fields[i].offset \/ fields[i - 1].bit = 0

Slots(fields) ==
  LET starts == SelectSeq([i \in DOMAIN fields |-> i],
                          LAMBDA i : fields[i].bit = 0 \/ IsGroupStart(fields, i))
      SameByte(f) == SelectSeq(fields, LAMBDA g : g.bit # 0 /\ g.offset = f.offset)
  IN  [k \in DOMAIN starts |->
         LET f == fields[starts[k]] IN IF f.bit = 0 THEN <<f>> ELSE SameByte(f)]

Padded(members, from, to) ==
  IF to > from THEN Append(members, [is |-> "pad", size |-> to - from]) ELSE members

(* The bits of a byte with what is unused between and after them; bit n of    *)
(* the model is bit n - 1 of the byte.                                        *)
BitsOf(slot) ==
  LET Gap(n)       == IF n > 0 THEN <<[name |-> "", width |-> n]>> ELSE <<>>
      Next1(b, f)  == [cursor |-> f.bit,
                       bits   |-> b.bits \o Gap(f.bit - 1 - b.cursor) \o <<[name |-> f.name, width |-> 1]>>]
      all == FoldLeft(Next1, [cursor |-> 0, bits |-> <<>>], slot)
  IN  all.bits \o Gap(8 - all.cursor)

(* One that begins before the last one ends is left out.                      *)
Placed(index, body, slot) ==
  LET f == slot[1]
      before == Padded(body.members, body.cursor, f.offset)
  IN  IF f.offset < body.cursor THEN body
      ELSE IF f.bit # 0
        THEN [cursor |-> f.offset + 1, members |-> Append(before, [is |-> "bits", at |-> f.offset, bits |-> BitsOf(slot)])]
        ELSE [cursor  |-> f.offset + Max({f.size, 1}),
              members |-> Append(before, [is |-> "member", field |-> f, cpp |-> RenderMember(index, f)])]

(* Mutant: a base that is known is inherited from.                            *)
FlattensUnknown(index, r) == r.super # "" /\ r.super \notin PathsIn(Structs(index.records))

(* A base that is not there, or one whose bytes this type's members begin in, *)
(* is not inherited from: its bytes are padding.                              *)
Flattens(index, r) ==
  LET first == IF r.fields = <<>> THEN r.size ELSE ByOffset(r.fields)[1].offset
  IN  r.super # "" /\ (r.super \notin PathsIn(Structs(index.records)) \/ first < r.inherited)

Spellable(index, method) ==
  \A i \in DOMAIN method.params :
    RenderType(index, method.params[i].type, method.params[i].size) # Opaque

Wrapped(index, r) == SelectSeq(r.methods, LAMBDA m : Spellable(index, m))

FieldNames(members) ==
  FlattenSeq([k \in DOMAIN members |->
    CASE members[k].is = "pad"    -> <<>>
      [] members[k].is = "member" -> <<members[k].field.name>>
      [] members[k].is = "bits"   ->
           LET named == SelectSeq(members[k].bits, LAMBDA b : b.name # "")
           IN  [i \in DOMAIN named |-> named[i].name]])

NamesOf(list) == [i \in DOMAIN list |-> list[i].name]

EmitStruct(index, r) ==
  LET base    == IF r.super = "" \/ Flattens(index, r) THEN "" ELSE r.super
      start   == [cursor |-> IF base = "" THEN 0 ELSE r.inherited, members |-> <<>>]
      body    == FoldLeft(LAMBDA b, slot : Placed(index, b, slot), start, Slots(ByOffset(r.fields)))
      members == Padded(body.members, body.cursor, r.size)
      taken   == ToSet(NamesInTurn(FieldNames(members), {}))
      methods == Wrapped(index, r)
  IN  [path |-> r.path, base |-> base, members |-> members,
       declares |-> NamesInTurn(NamesOf(methods), taken),
       signatures |-> [k \in DOMAIN methods |->
         [i \in DOMAIN methods[k].params |->
            RenderType(index, methods[k].params[i].type, methods[k].params[i].size)]]]

-----------------------------------------------------------------------------
(* Order.  What is held by value, elements of containers included, comes      *)
(* first, unless that goes in a circle.                                       *)
ValueNames(type) ==
  {t.names : t \in {t \in ToSet(Parts(type)) : t.kind \in {"struct", "enum"} /\ t.names # ""}}

(* Mutant: bases are left to come when they come.                             *)
DependenciesOfMembers(r) == UNION {ValueNames(f.type) : f \in ToSet(r.fields)}

Dependencies(r) ==
  ({r.super} \ {""}) \cup UNION {ValueNames(f.type) : f \in ToSet(r.fields)}

RECURSIVE Visit(_, _, _)
Visit(order, sorted, r) ==
  IF \E s \in ToSet(order.done) \cup order.visiting : s.path = r.path THEN order
  ELSE LET deps  == SelectSeq(sorted, LAMBDA s : s.path \in Dependencies(r))
           after == FoldLeft(LAMBDA o, s : Visit(o, sorted, s),
                             [order EXCEPT !.visiting = @ \cup {r}], deps)
       IN  [done |-> Append(after.done, r), visiting |-> after.visiting \ {r}]

TopoSort(sequence) ==
  FoldLeft(LAMBDA o, r : Visit(o, sequence, r), [done |-> <<>>, visiting |-> {}], sequence).done

-----------------------------------------------------------------------------
(* A package's header.  Only what pointers point to is declared ahead: the    *)
(* other names of signatures are collected and not written.                   *)
SignatureTypes(r) ==
  UNION {{p.type : p \in ToSet(m.params)} : m \in ToSet(r.methods)}

PointedTo(r) ==
  {t.names : t \in {t \in ToSet(TypesUsed(r)) : t.kind = "object" /\ t.names # ""}}

Header(index, sequence, package) ==
  LET own      == SelectSeq(sequence, LAMBDA r : r.pkg = package)
      structs  == SelectSeq(own, LAMBDA r : r.kind = "struct") \o SelectSeq(own, LAMBDA r : r.kind = "class")
      needed   == UNION {Dependencies(r) \cup UNION {ValueNames(t) : t \in SignatureTypes(r)} : r \in ToSet(structs)}
      sorted   == TopoSort(structs)
  IN  [includes |-> {StemOf[Record(index.records, p).pkg] :
                       p \in {p \in needed \cap PathsIn(index.records) : Record(index.records, p).pkg # package}},
       forwards |-> UNION {PointedTo(r) : r \in ToSet(structs)} \cap PathsIn(index.records),
       enums    |-> {r.path : r \in {r \in ToSet(own) : r.kind = "enum"}},
       structs  |-> [k \in DOMAIN sorted |-> EmitStruct(index, sorted[k])]]

(* Packages with types first, those with nothing but enums after them; one    *)
(* that goes to the file of another replaces it.                              *)
Files(index, sequence, packages) ==
  LET Has(p)    == \E r \in Structs(index.records) : r.pkg = p
      written   == SelectSeq(packages, LAMBDA p : Has(p)) \o SelectSeq(packages, LAMBDA p : ~Has(p))
      Latest(stem) == Max({k \in DOMAIN written : StemOf[written[k]] = stem})
  IN  [stem \in {StemOf[p] : p \in ToSet(written)} |-> Header(index, sequence, written[Latest(stem)])]

ParamsStructName(r, method) == <<r.path, Safe[method.name]>>

(* Mutant: the block of parameters as they are declared.                      *)
ParameterBlockAsDeclared(index, method) ==
  LET given == NamesInTurn(NamesOf(method.params), {})
  IN  [i \in DOMAIN method.params |->
        [is |-> "member", field |-> method.params[i], param |-> i, name |-> given[i],
         cpp |-> RenderType(index, method.params[i].type, method.params[i].size)]]

(* What the wrapper of a method does.  The block of its parameters is in      *)
(* their order in memory and its members are named in that order; the body    *)
(* names them again in the order they are declared, the ones it assigns       *)
(* without the return value.                                                  *)
ParameterBlock(index, method) ==
  LET Before(i, j) == \/ method.params[i].offset < method.params[j].offset
                      \/ method.params[i].offset = method.params[j].offset /\ i < j
      order == SetToSortSeq(DOMAIN method.params, Before)
      given == NamesInTurn([k \in DOMAIN order |-> method.params[order[k]].name], {})
      Add(block, k) ==
        LET p == method.params[order[k]]
        IN  [cursor  |-> p.offset + p.size,
             members |-> Append(Padded(block.members, block.cursor, p.offset),
               [is |-> "member", field |-> p, param |-> order[k], name |-> given[k],
                cpp |-> RenderType(index, p.type, p.size)])]
  IN  FoldLeft(Add, [cursor |-> 0, members |-> <<>>], [k \in DOMAIN order |-> k]).members

BodyNames(method) ==
  LET all      == NamesInTurn(NamesOf(method.params), {})
      passed   == SelectSeq([i \in DOMAIN method.params |-> i], LAMBDA i : ~method.params[i].ret)
      assigned == NamesInTurn([k \in DOMAIN passed |-> method.params[passed[k]].name], {})
      Turn(i)  == CHOOSE k \in DOMAIN passed : passed[k] = i
  IN  [i \in DOMAIN method.params |-> IF method.params[i].ret THEN all[i] ELSE assigned[Turn(i)]]

(* The names the bodies of a type's methods are defined under.                *)
BodiesOf(index, r) == NamesInTurn(NamesOf(Wrapped(index, r)), {})

(* Everything that is written, or that nothing is: another runtime's types    *)
(* are not C++, and of no type there is no header.                            *)
EmitCppSdk(dump, sequence, packages) ==
  LET index == IndexOf(dump, ToSet(packages))
      own   == SelectSeq(sequence, LAMBDA r : r \in index.records)
  IN  IF dump.runtime # "unreal" \/ dump.partial \/ index.records = {} THEN <<>>
      ELSE Files(index, own, packages)
-----------------------------------------------------------------------------
(* What a compiler makes of the headers: the order in which their text comes  *)
(* when each is read once, what is declared and complete when a type is       *)
(* named, and where members are under pack(1).                                *)

(* #pragma once: a file is read where it is first included, after what it     *)
(* includes.                                                                  *)
RECURSIVE IncludeFile(_, _, _)
IncludeFile(files, read, stem) ==
  IF stem \in read.seen THEN read
  ELSE LET after == FoldLeft(LAMBDA r, s : IncludeFile(files, r, s),
                             [read EXCEPT !.seen = @ \cup {stem}], SetToSeq(files[stem].includes))
       IN  [after EXCEPT !.text = Append(@, stem)]

Text(files, unit) ==
  FoldLeft(LAMBDA r, s : IncludeFile(files, r, s), [seen |-> {}, text |-> <<>>], unit).text

-----------------------------------------------------------------------------
(* Types that Basic.hpp gives a size: two of its own choosing, the others as  *)
(* they were measured.                                                        *)
BasicSize(index, is) ==
  CASE is = "name"  -> 8
    [] is = "array" -> 16
    [] OTHER -> index.sizes[is]

CppSize(index, sizes, cpp) ==
  CASE cpp.is \in DOMAIN Scalars -> Scalars[cpp.is]
    [] cpp.is = "object" -> 8
    [] cpp.is \in {"struct", "enum"} -> sizes[cpp.names]
    [] OTHER -> BasicSize(index, cpp.is)

WidthOf(bits) == FoldLeft(LAMBDA n, b : n + b.width, 0, bits)

SizeOfMember(index, sizes, m) ==
  CASE m.is = "pad"    -> m.size
    [] m.is = "bits"   -> (WidthOf(m.bits) + 7) \div 8
    [] m.is = "member" -> IF m.cpp = Opaque THEN Max({m.field.size, 1}) ELSE CppSize(index, sizes, m.cpp)

(* Where each member begins, and where the last one ends.                     *)
Layout(index, sizes, struct) ==
  LET Next1(l, m) == [ends   |-> l.ends + SizeOfMember(index, sizes, m),
                      places |-> Append(l.places, l.ends)]
  IN  FoldLeft(Next1, [ends |-> IF struct.base = "" THEN 0 ELSE sizes[struct.base], places |-> <<>>],
               struct.members)

-----------------------------------------------------------------------------
(* What a definition names, and whether it has to be complete: a base and     *)
(* what is held by value have, an element of a container and a type of a      *)
(* signature have to be declared.  A pointer declares what it points to.      *)
Named(cpp) == IF cpp.is \in {"struct", "enum"} THEN {cpp.names} ELSE {}
Elements(cpp) == UNION {Named(e) : e \in ToSet(cpp.inner)}

Renderings(struct) == {m.cpp : m \in {m \in ToSet(struct.members) : m.is = "member"}}
NeedsComplete(struct) == ({struct.base} \ {""}) \cup UNION {Named(c) : c \in Renderings(struct)}
NeedsDeclared(struct) ==
  UNION {Elements(c) : c \in Renderings(struct)}
  \cup UNION {UNION {Named(c) \cup Elements(c) : c \in ToSet(s)} : s \in ToSet(struct.signatures)}

Define(sizes, path, size) ==
  [p \in DOMAIN sizes \cup {path} |-> IF p = path THEN size ELSE sizes[p]]

CompileStruct(index, unit, struct) ==
  IF ~(NeedsComplete(struct) \subseteq DOMAIN unit.sizes) \/ struct.path \in DOMAIN unit.sizes
    THEN [unit EXCEPT !.errors = @ \cup {struct.path}]
    ELSE LET layout   == Layout(index, unit.sizes, struct)
             declared == NeedsDeclared(struct)
                           \subseteq unit.declared \cup DOMAIN unit.sizes \cup {struct.path}
         IN  [unit EXCEPT
                !.errors  = IF declared THEN @ ELSE @ \cup {struct.path},
                !.sizes   = Define(@, struct.path, Max({layout.ends, 1})),
                !.layouts = Define(@, struct.path, [members |-> struct.members, places |-> layout.places])]

CompileHeader(index, unit, header) ==
  LET enums == {r \in Enums(index.records) : r.path \in header.enums}
      begun == [unit EXCEPT
                  !.declared = @ \cup header.forwards,
                  !.errors   = @ \cup (header.enums \cap DOMAIN unit.sizes),
                  !.sizes    = [p \in DOMAIN @ \cup header.enums |->
                                  IF p \in header.enums THEN EnumWidth(Record(enums, p)) ELSE @[p]]]
  IN  FoldLeft(LAMBDA u, s : CompileStruct(index, u, s), begun, header.structs)

Compile(index, files, unit) ==
  LET text == Text(files, unit)
  IN  FoldLeft(LAMBDA u, stem : CompileHeader(index, u, files[stem]),
               [declared |-> {}, errors |-> {}, sizes |-> <<>>, layouts |-> <<>>], text)
===============================================================================
