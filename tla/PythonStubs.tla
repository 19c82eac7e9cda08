----------------------------- MODULE PythonStubs ----------------------------
(* Stubs for Python: emit/src/PythonStubs.cpp.  A module for each package, or *)
(* for several whose names come to the same, and one that has the names of    *)
(* all of them.                                                               *)
EXTENDS Disasm

CONSTANTS
  PyNames      \* what is left of the names that are not names in Python

PyIdentifier(name) == IF name \in DOMAIN PyNames THEN PyNames[name] ELSE name

ModuleFor(package) == PyIdentifier(PackageFileStem(package))

ModulesOf(dump, accepted) == {ModuleFor(p.name) : p \in ToSet(Accepted(dump, accepted))}
InModule(dump, accepted, module) == SelectSeq(Accepted(dump, accepted), LAMBDA p : ModuleFor(p.name) = module)

(* Mutant: a name is the leaf of a path, without what the type derives from.  *)
LeafAlone(types, record) == "U" \o PyIdentifier(LeafName(record.path))

PrefixedName(types, record) == PrefixFor(types, record) \o PyIdentifier(LeafName(record.path))

(* In a module, names are given to what its packages declare, in their order. *)
IndexOf(dump, accepted, module) ==
  LET all     == TypesOf(dump, {p.name : p \in ToSet(dump.packages)})
      Of(is, prefixed, records) == [i \in DOMAIN records |-> [is |-> is, path |-> records[i].path,
                                                              wanted |-> prefixed[i]]]
      ELeaf(e)  == LET leaf == PyIdentifier(LeafName(e.path)) IN IF leaf \in ENames THEN leaf ELSE "E" \o leaf
      Types(p)  == LET s == [i \in DOMAIN p.classes |-> [is_class |-> TRUE] @@ p.classes[i]]
                            \o [i \in DOMAIN p.structs |-> [is_class |-> FALSE] @@ p.structs[i]]
                   IN  Of("type", [i \in DOMAIN s |-> PrefixedName(all, s[i])], s)
      Enums(p)  == Of("enum", [i \in DOMAIN p.enums |-> ELeaf(p.enums[i])], p.enums)
      packages  == InModule(dump, accepted, module)
      declared  == FlattenSeq([k \in DOMAIN packages |-> Types(packages[k]) \o Enums(packages[k])])
      Claim2(named, d) ==
        Append(named, [is |-> d.is, path |-> d.path, module |-> module,
                       identifier |-> Numbered(d.wanted, 2, {named[i].identifier : i \in DOMAIN named})])
  IN  FoldLeft(Claim2, <<>>, declared)

Index(dump, accepted) == UNION {ToSet(IndexOf(dump, accepted, module)) : module \in ModulesOf(dump, accepted)}

-----------------------------------------------------------------------------
(* How a type is written: what it is of, or the name of what it is.           *)
AnyType == [of |-> "Any", name |-> "", args |-> <<>>]

RECURSIVE Annotation(_, _)
Annotation(index, type) ==
  LET Found(is) == {n \in index : n.is = is /\ n.path = type.name}
      Called(is) == IF Found(is) = {} THEN AnyType
                    ELSE [AnyType EXCEPT !.of = "", !.name = (CHOOSE n \in Found(is) : TRUE).identifier]
      Of(name, args) == [AnyType EXCEPT !.of = name, !.args = args]
      Inner(i) == IF i <= Len(type.params) THEN Annotation(index, type.params[i]) ELSE AnyType
  IN  CASE type.kind = "Bool" -> Of("bool", <<>>)
        [] type.kind \in Signed \cup Unsigned -> Of("int", <<>>)
        [] type.kind \in {"Float", "Double"} -> Of("float", <<>>)
        [] type.kind \in {"Name", "String", "Text"} -> Of("str", <<>>)
        [] type.kind = "Enum" -> Called("enum")
        [] type.kind = "Struct" -> Called("type")
        [] type.kind \in Classes \cup {"WeakPtr", "LazyPtr", "SoftPtr", "SoftClassPtr"} ->
             IF Called("type") = AnyType THEN AnyType ELSE Of("Optional", <<Called("type")>>)
        [] type.kind = "Array" -> Of("List", <<Inner(1)>>)
        [] type.kind = "Set" -> Of("Set", <<Inner(1)>>)
        [] type.kind = "Map" -> Of("Dict", <<Inner(1), Inner(2)>>)
        [] type.kind = "Optional" -> Of("Optional", <<Inner(1)>>)
        [] OTHER -> AnyType

RECURSIVE Mentions(_)
Mentions(type) == {type.name} \cup UNION {Mentions(p) : p \in ToSet(type.params)}

(* What a module takes from others: what its types derive from, and what      *)
(* their members and parameters are of.                                       *)
ImportsOf(index, module, records) ==
  LET Mentioned(r) == {r.super} \cup UNION {Mentions(p.type) : p \in ToSet(r.properties)}
                      \cup UNION {UNION {Mentions(p.type) : p \in ToSet(f.params)} : f \in ToSet(r.functions)}
      paths == UNION {Mentioned(r) : r \in ToSet(records)}
      Chosen(path) == LET types == {n \in index : n.path = path /\ n.is = "type" /\ n.module # module}
                      IN  IF types # {} THEN types ELSE {n \in index : n.path = path /\ n.module # module}
  IN  UNION {{<<n.module, n.identifier>> : n \in Chosen(path)} : path \in paths}

StubEnum(index, enum) ==
  LET Labels == FoldLeft(LAMBDA kept, v :
                           LET label == PyIdentifier(LeafName(v.name))
                           IN  IF \E i \in DOMAIN kept : kept[i][1] = label THEN kept
                               ELSE Append(kept, <<label, v.value>>),
                         <<>>, enum.values)
  IN  [name |-> (CHOOSE n \in index : n.is = "enum" /\ n.path = enum.path).identifier, path |-> enum.path,
       labels |-> Labels]

(* Members get a number when their name is taken; methods are left out then.  *)
StubClass(index, record) ==
  LET supers == {n \in index : n.is = "type" /\ n.path = record.super}
      taken  == {"__path__", "__size__", "__offsets__"}
      Member(members, p) ==
        Append(members, [name |-> Numbered(PyIdentifier(p.name), 2, taken \cup {members[i].name : i \in DOMAIN members}),
                         many |-> p.array_dim > 1, of |-> Annotation(index, p.type), offset |-> p.offset])
      members == FoldLeft(Member, <<>>, record.properties)
      Method(methods, f) ==
        LET name == PyIdentifier(f.name)
            rets == SelectSeq(f.params, LAMBDA p : p.is_return)
            args == SelectSeq(f.params, LAMBDA p : ~p.is_return)
        IN  IF name \in taken \cup {members[i].name : i \in DOMAIN members} \cup {methods[i].name : i \in DOMAIN methods}
              THEN methods
            ELSE Append(methods, [name |-> name,
                                  params |-> [i \in DOMAIN args |-> <<PyIdentifier(args[i].name),
                                                                      Annotation(index, args[i].type)>>],
                                  returns |-> IF rets = <<>> THEN AnyType ELSE Annotation(index, Last(rets).type)])
  IN  [name    |-> (CHOOSE n \in index : n.is = "type" /\ n.path = record.path).identifier, path |-> record.path,
       size    |-> record.size,
       base    |-> IF supers = {} THEN "object" ELSE (CHOOSE n \in supers : TRUE).identifier,
       offsets |-> [i \in DOMAIN record.properties |-> <<record.properties[i].name, record.properties[i].offset>>],
       members |-> members, methods |-> FoldLeft(Method, <<>>, record.functions)]

EmitPythonStubs(dump, accepted) ==
  LET index == Index(dump, accepted)
      Stub(module) ==
        LET packages == InModule(dump, accepted, module)
            names    == {p.name : p \in ToSet(packages)}
            records  == TypesOf(dump, names)
            enums    == EnumsOf(dump, names)
        IN  [imports |-> ImportsOf(index, module, records),
             enums   |-> [i \in DOMAIN enums |-> StubEnum(index, enums[i])],
             classes |-> [i \in DOMAIN records |-> StubClass(index, records[i])]]
  IN  [modules |-> Tabled([module \in ModulesOf(dump, accepted) |-> Stub(module)]),
       offsets |-> dump.header.offsets]

-----------------------------------------------------------------------------
(* What a type checker takes a name in a module for: the class it declares    *)
(* under it, or what it imports under it.                                     *)
MeansIn(stubs, module, name) ==
  LET Declared(m) == {d.path : d \in {c \in ToSet(stubs.modules[m].classes) : c.name = name}}
                     \cup {d.path : d \in {e \in ToSet(stubs.modules[m].enums) : e.name = name}}
      from        == {i[1] : i \in {j \in stubs.modules[module].imports : j[2] = name}}
  IN  IF Declared(module) # {} THEN Declared(module) ELSE UNION {Declared(m) : m \in from}

(* What a type of the dump is taken for: the paths of all that it is of.      *)
RECURSIVE TakenFor(_, _, _)
TakenFor(stubs, module, of) ==
  (IF of.name = "" THEN {} ELSE {MeansIn(stubs, module, of.name)})
  \cup UNION {TakenFor(stubs, module, a) : a \in ToSet(of.args)}
=============================================================================
