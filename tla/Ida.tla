--------------------------------- MODULE Ida --------------------------------
(* The declarations for IDA: emit/src/Ida.cpp, and what a C compiler makes of *)
(* them.  A declaration is an enum, a structure declared ahead, or one that   *)
(* is defined; the members of a definition follow each other without gaps.    *)
EXTENDS Disasm

CONSTANTS
  Alphabetical,   \* the names of helpers in the order of the alphabet
  Carries         \* the labels of values that begin with a name of an enum, with it

IntegerOfSize(size, is_signed) ==
  IF size \in Integral THEN Spec("i", size, IF is_signed THEN "int" ELSE "unsigned") ELSE NoSpec

(* How an element reads in the name of an array of it.                        *)
LabelOf(spec) ==
  CASE spec.tag = "p" -> (IF spec.name = "" THEN "void" ELSE spec.name) \o "_Ptr"
    [] spec.tag \in {"s", "e"} -> spec.name
    [] OTHER -> (IF spec.tag = "i" THEN spec.name ELSE spec.tag) \o ToString(spec.length)

IsOpaque(type, size) ==
  \/ type.kind \in {"Text", "WeakPtr", "LazyPtr", "SoftPtr", "SoftClassPtr", "Interface", "Set", "Map",
                    "Optional", "Delegate", "MulticastDelegate", "FieldPath"}
  \/ type.kind = "Name" /\ size # 8
  \/ type.kind = "String" /\ size # 16
  \/ type.kind = "Array" /\ (size # 16 \/ type.params = <<>>)

(* What of exactly that size stands for a type, with the helpers it needs.    *)
(* The data of an array points to what its elements are.                      *)
RECURSIVE MemberTypeFor(_, _, _)
MemberTypeFor(model, type, size) ==
  LET Plain(spec)  == [spec |-> spec, helpers |-> <<>>]
      Named(helper) == [spec |-> Spec("s", helper.size, helper.name), helpers |-> <<helper>>]
      inner        == MemberTypeFor(model, type.params[1], type.params[1].size)
      pointer      == [Spec("p", 8, "") EXCEPT !.of = <<inner.spec>>]
      array        == Named(Helper("ZTArray_" \o LabelOf(inner.spec), 16, Heap(pointer)))
      opaque       == Named(OpaqueHelper(Described[type.kind], size))
      known        == /\ type.kind = "Struct" => type.name \in DOMAIN model.structs
                      /\ type.kind = "Enum" => type.name \in DOMAIN model.enum_at
  IN  CASE size <= 0 \/ type.kind = "Unknown" -> Plain(NoSpec)
        [] size > 0 /\ IsOpaque(type, size) -> opaque
        [] size > 0 /\ type.kind = "Bool" ->
             Plain(IF size = 1 THEN Spec("bool", 1, "") ELSE IntegerOfSize(size, FALSE))
        [] size > 0 /\ type.kind \in Signed \cup Unsigned -> Plain(IntegerOfSize(size, type.kind \in Signed))
        [] size > 0 /\ type.kind \in {"Float", "Double"} ->
             Plain(IF size = (IF type.kind = "Float" THEN 4 ELSE 8) THEN Spec("f", size, "") ELSE NoSpec)
        [] size = 8 /\ type.kind = "Name" -> Named(Helper("FName", 8, TwoInts))
        [] size = 16 /\ type.kind = "String" -> Named(Helper("FString", 16, Heap(Void)))
        [] size > 0 /\ type.kind = "Enum" ->
             Plain(IF known /\ EnumWidth(model.enum_at[type.name]) = size
                     THEN Spec("e", size, model.enum_names[type.name]) ELSE IntegerOfSize(size, FALSE))
        [] size > 0 /\ type.kind = "Struct" ->
             Plain(IF known /\ model.structs[type.name].size = size
                     THEN Spec("s", size, model.names[type.name]) ELSE NoSpec)
        [] size > 0 /\ type.kind \in Classes ->
             Plain(CASE size # 8 -> NoSpec
                     [] size = 8 /\ type.name \in DOMAIN model.names -> Spec("p", 8, model.names[type.name])
                     [] OTHER -> Void)
        [] size = 16 /\ type.kind = "Array" /\ type.params # <<>> ->
             IF inner.spec = NoSpec THEN [opaque EXCEPT !.helpers = inner.helpers \o @]
             ELSE [array EXCEPT !.helpers = inner.helpers \o @]

MemberLine(model, slot) ==
  LET property == slot.properties[1]
      element  == ElementOf(property, slot.size)
      given    == MemberTypeFor(model, property.type, element)
      Line(spec) == [spec |-> Tuple(slot.offset, slot.size, slot.name, spec), helpers |-> <<>>]
  IN  CASE slot.is = "base"    -> Line(Spec("s", slot.size, model.names[slot.path]))
        [] slot.is = "padding" -> Line(Bytes(slot.size))
        [] slot.is = "packed"  -> Line(Spec("i", 1, "unsigned"))
        [] slot.is = "member" /\ (element * DimOf(property) # slot.size \/ element <= 0) -> Line(Bytes(slot.size))
        [] OTHER ->
             [spec    |-> Line(CASE given.spec = NoSpec -> Bytes(slot.size)
                                 [] given.spec # NoSpec /\ DimOf(property) = 1 -> given.spec
                                 [] OTHER -> Several(given.spec, DimOf(property))).spec,
              helpers |-> given.helpers]

(* The labels of all enums are names of one space: one that is taken is       *)
(* qualified with its enum, or numbered when it is that already.              *)
EnumDeclaration(model, declared, enum) ==
  LET name == model.enum_names[enum.path]
      Label(value, taken) ==
        LET label     == SanitizeIdentifier(value.name)
            qualified == IF <<label, name>> \in Carries THEN label ELSE name \o "__" \o label
        IN  CASE label \notin taken -> label
              [] label \in taken /\ qualified \notin taken -> qualified
              [] OTHER -> Numbered(label, 1, taken)
      Labels == FoldLeft(LAMBDA labels, v : Append(labels, Label(v, declared.used \cup ToSet(labels))),
                         <<>>, enum.values)
  IN  [used  |-> declared.used \cup ToSet(Labels),
       enums |-> Append(declared.enums,
                   [is |-> "enum", name |-> name, size |-> EnumWidth(enum),
                    labels |-> IF enum.values = <<>> THEN <<"_zircon_empty">> ELSE Labels])]

InAlphabet(helpers) ==
  LET PlaceOf(name) == CHOOSE i \in DOMAIN Alphabetical : Alphabetical[i] = name
  IN  SetToSortSeq(ToSet(helpers), LAMBDA g, h : PlaceOf(g.name) < PlaceOf(h.name))

LinesOf(model, slots) == [k \in DOMAIN slots |-> MemberLine(model, slots[k])]

Definition(name, members) == [is |-> "definition", name |-> name, members |-> members]

HelpersIn(lines) ==
  InAlphabet(FirstOfEachName(FlattenSeq([i \in DOMAIN lines |->
    FlattenSeq([k \in DOMAIN lines[i] |-> lines[i][k].helpers])])))

Definitions(model, records, lines, helpers) ==
  [i \in DOMAIN helpers |-> Definition(helpers[i].name, helpers[i].members)]
  \o [i \in DOMAIN records |-> Definition(model.names[records[i].path],
                                          [k \in DOMAIN lines[i] |-> lines[i][k].spec])]

Written(model, records, laid) ==
  LET lines == [i \in DOMAIN laid |-> LinesOf(model, laid[i].slots)]
  IN  Definitions(model, records, lines, HelpersIn(lines))

SourceOf(model, ordered) ==
  FoldLeft(LAMBDA d, e : EnumDeclaration(model, d, e), [used |-> {}, enums |-> <<>>], model.enums).enums
  \o [i \in DOMAIN ordered |-> [is |-> "ahead", name |-> model.names[ordered[i].path]]]
  \o Written(model, Sized(ordered), LaidOut(model, Sized(ordered)))

Ordered(model) == LET paths == TopoSort(model) IN [i \in DOMAIN paths |-> model.structs[paths[i]]]

EmitIda(dump, accepted) ==
  LET model == BuildModel(dump, accepted)
  IN  [source |-> SourceOf(model, Ordered(model)), sites |-> CollectFunctions(dump, accepted, model)]

-----------------------------------------------------------------------------
(* The compiler.  What a pointer points to has been declared, what a member   *)
(* is of has been defined, and no name or label is given twice; what is       *)
(* against that is an error, and is not imported.                             *)
RECURSIVE Bytesize(_, _), IsDeclared(_, _, _)
Bytesize(unit, spec) ==
  CASE spec.tag = "a" -> spec.count * Bytesize(unit, spec.of[1])
    [] spec.tag \in {"s", "e"} -> unit.sizes[spec.name]
    [] OTHER -> spec.length

IsDeclared(unit, spec, pointed) ==
  CASE spec.tag = "p" -> /\ spec.name # "" => spec.name \in unit.declared
                         /\ spec.of # <<>> => IsDeclared(unit, spec.of[1], TRUE)
    [] spec.tag = "a" -> IsDeclared(unit, spec.of[1], pointed)
    [] spec.tag \in {"s", "e"} -> spec.name \in (IF pointed THEN unit.declared ELSE DOMAIN unit.sizes)
    [] OTHER -> TRUE

Placed(unit, members) ==
  FoldLeft(LAMBDA placed, m :
             LET size == Bytesize(unit, m.spec)
             IN  [at |-> placed.at + size,
                  members |-> Append(placed.members, [m EXCEPT !.offset = placed.at, !.size = size])],
           [at |-> 0, members |-> <<>>], members)

Compile(unit, declaration) ==
  LET d      == declaration
      known  == [unit EXCEPT !.declared = @ \cup {d.name}]
  IN  CASE d.is = "ahead" -> known
        [] d.is = "enum" ->
             IF ToSet(d.labels) \cap unit.labels # {} \/ ~IsInjective(d.labels) THEN unit
             ELSE [known EXCEPT !.labels = @ \cup ToSet(d.labels), !.sizes = (d.name :> d.size) @@ @,
                                !.enums  = Append(@, [name |-> d.name, width |-> d.size])]
        [] d.is = "definition" ->
             IF d.name \in DOMAIN unit.sizes \/ \E k \in DOMAIN d.members : ~IsDeclared(unit, d.members[k].spec, FALSE)
               THEN unit
               ELSE LET placed == Placed(unit, d.members)
                    IN  [known EXCEPT !.sizes = (d.name :> placed.at) @@ @,
                                      !.types = Append(@, Helper(d.name, placed.at, placed.members))]

RunIda(declarations) ==
  LET unit == FoldLeft(Compile, [sizes |-> <<>>, declared |-> {}, labels |-> {}, types |-> <<>>, enums |-> <<>>],
                       declarations.source)
  IN  [types |-> unit.types, enums |-> unit.enums, named |-> declarations.sites]
=============================================================================
