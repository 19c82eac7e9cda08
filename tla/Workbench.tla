------------------------------ MODULE Workbench -----------------------------
(* What is done with a dump after it is taken: it is saved and read back, and *)
(* made into the files of other tools.  A dump and what is asked for are      *)
(* given; every tool does its work in one step.                               *)
EXTENDS Json

CONSTANTS
  Cases,       \* a dump, what is to be done with it, and with which packages
  Missing,     \* there is no file
  Agents,      \* what a script does to which member of an object
  kPrefix,     \* how much of a file is looked at for its header
  LeafOf, StemOf, Sanitized, ENames, Mangled, Alphabetical, Carries, StemOfProcess, Truncated,
  kMaxArrayDim, kMaxPropertyCount, kMaxEnumValues, kMaxTypeDepth, PyNames,
  PartsOf, AssemblyOf, ElementPath, Parameters, Sentences, CsNames, FileStems, FolderNames, Folded

VARIABLES
  case,        \* what is asked for
  file,        \* the symbols of the saved dump
  result       \* what the last tool made

vars == <<case, file, result>>

G == INSTANCE Ghidra
B == INSTANCE BinaryNinja
I == INSTANCE Ida
R == INSTANCE ReClass
U == INSTANCE Usmap
F == INSTANCE FridaJs
P == INSTANCE PythonStubs
C == INSTANCE CSharp

Nothing == [of |-> "nothing"]

Init ==
  /\ case \in Cases
  /\ file = Missing
  /\ result = Nothing

Asked(job) == case.job = job /\ result = Nothing
Makes(of, is) == result' = [of |-> of, is |-> is] /\ UNCHANGED <<case, file>>

-----------------------------------------------------------------------------
(* The file.  It is written over what was there: the program can stop at any  *)
(* point of that and leave the beginning.                                     *)
WriteJsonFile ==
  /\ Asked("save") /\ file = Missing
  /\ file' = WriteJsonString(case.dump)
  /\ UNCHANGED <<case, result>>

StopWhileWriting ==
  /\ Asked("save") /\ file = Missing
  /\ \E text \in {WriteJsonString(case.dump)} : \E n \in 0..Len(text) - 1 : file' = SubSeq(text, 1, n)
  /\ UNCHANGED <<case, result>>

ReadJsonFile == file # Missing /\ Asked("save") /\ Makes("dump", ParseJson(file))

(* Of a long file no more than a prefix is looked at for the header.          *)
ReadJsonHeaderFile ==
  /\ file # Missing /\ Asked("save")
  /\ Makes("header", ParseJsonHeader(SubSeq(file, 1, Min({kPrefix, Len(file)}))))

(* Scripts for disassemblers, and what they leave there.                      *)
Complete == G!Preflight(case.dump, FALSE)

Disassemble(tool, database) == Asked("disassemble") /\ Complete /\ Makes(tool, database)
EmitGhidra == Disassemble("Ghidra", G!RunGhidra(G!EmitGhidra(case.dump, case.accepted)))
EmitBinja  == Disassemble("Binary Ninja", B!RunBinja(B!EmitBinja(case.dump, case.accepted)))
EmitIda    == Disassemble("IDA", I!RunIda(I!EmitIda(case.dump, case.accepted)))

(* Files for other programs, and what those find in them.                     *)
EmitReClass ==
  /\ Asked("disassemble") /\ Complete
  /\ \E files \in {R!EmitReClass(case.dump, case.accepted)} :
       files # <<>> /\ Makes("project", R!Opened(files[2].is))

EmitUsmap == Asked("read assets") /\ Complete /\ Makes("mapping", U!ReadUsmap(U!EmitUsmap(case.dump, case.accepted)))

EmitPythonStubs == Asked("check types") /\ Complete /\ Makes("stubs", P!EmitPythonStubs(case.dump, case.accepted))

EmitCSharp ==
  /\ Asked("read code")
  /\ case.dump.header.runtime # "unreal"
  /\ Makes("sources", C!OnDisk(C!EmitCSharp(case.dump, case.accepted, StemOf)))

(* A script for Frida, loaded in a game: it sets a member of an object, and   *)
(* reads it.                                                                  *)
EmitFridaJs ==
  /\ Asked("touch") /\ Complete
  /\ \E data \in {F!EmitFridaJs(case.dump, case.accepted)}, agent \in Agents :
       \E prop \in ToSet(F!PropertyOf(data, agent.path, agent.name)) :
         \E after \in {F!WriteAt(data, agent.memory, prop, agent.value)} :
           Makes("touched", [agent |-> agent, after |-> after, read |-> F!ReadAt(data, after, prop),
                             said |-> prop.d])

Next ==
  \/ WriteJsonFile \/ StopWhileWriting \/ ReadJsonFile \/ ReadJsonHeaderFile
  \/ EmitGhidra \/ EmitBinja \/ EmitIda \/ EmitReClass
  \/ EmitUsmap \/ EmitPythonStubs \/ EmitCSharp \/ EmitFridaJs

WorkbenchSpec == Init /\ [][Next]_vars

-----------------------------------------------------------------------------
(* A saved dump reads back as it was, and one whose saving was cut short is   *)
(* not taken for a smaller dump.                                              *)
DumpReadsBack ==
  result.of = "dump" => result.is = IF file = WriteJsonString(case.dump) THEN case.dump ELSE Refused

(* The header read off the beginning of a file is the one of the dump, and it *)
(* is read as soon as all of it is there, whatever its strings look like; but *)
(* one that is not over within the prefix, as one with many conflicts may not *)
(* be, is never read, however whole the file is.                              *)
HeaderOfAnyPart ==
  LET before == WriteJsonString([case.dump EXCEPT !.packages = <<>>, !.names = <<>>])
      whole  == Len(before) - Len(Key("packages", Array(<<>>))[1]) - 2
  IN  result.of = "header" =>
        result.is = IF whole <= Len(file) /\ whole <= kPrefix THEN case.dump.header ELSE Refused

(* What is read back of a file, all of it or its header, is what was saved,   *)
(* or nothing: no part of a dump is taken for another dump.                   *)
SavedReadsBack == DumpReadsBack /\ HeaderOfAnyPart

(* ------------------------------------------------------------------------- *)
(* In a disassembler: types have names of their own; each is as long as its   *)
(* record or its members; no two members of it share a byte; every member     *)
(* that is none but padding or the base is a property where the dump has it,  *)
(* as long as it is there, and of no other type than it is there, with as     *)
(* many indirections; every property that shares no byte with another is      *)
(* there.  The data of an array are what one more pointer points to, except   *)
(* those of an array of objects in Ghidra and Binary Ninja, where one pointer *)
(* is missing.  Every enum is there and wide enough for its values; and an    *)
(* address has a name only when one native function runs there.               *)
BytesOf(p) == p.offset..p.offset + G!SizeOf(p) - 1

Alone(r, p) ==
  /\ G!SizeOf(p) > 0 /\ p.offset >= r.inherited_size
  /\ \A q \in ToSet(r.properties) \ {p} :
       BytesOf(p) \cap BytesOf(q) = {} \/ (p.offset = q.offset /\ p.is_bitfield /\ q.is_bitfield)

Padding == {"pad_base", "baseclass_0"}
IsMember(m) == m.name \notin Padding /\ m.spec.tag # "b"

(* What a member is of by the name it is given, of the types of the dump.     *)
TypeNamed(model, name) ==
  {path \in DOMAIN model.names : model.names[path] = name}
  \cup {path \in DOMAIN model.enum_names : model.enum_names[path] = name}

RECURSIVE Innermost(_), Indirections(_), OfType(_, _, _, _, _)
Innermost(spec) == IF spec.of = <<>> THEN spec ELSE Innermost(spec.of[1])

Indirections(spec) ==
  CASE spec.tag = "a" -> Indirections(spec.of[1])
    [] spec.tag = "p" -> 1 + (IF spec.of = <<>> THEN 0 ELSE Indirections(spec.of[1]))
    [] OTHER -> 0

Pointers(type) == IF type.kind \in G!Classes THEN 1 ELSE 0

(* How many pointers the data of an array of such elements are behind.        *)
DataPointers(tool, element) == IF tool = "IDA" THEN 1 + Pointers(element) ELSE 1

OfType(tool, model, types, spec, type) ==
  LET helper == {t \in types : t.name = spec.name /\ TypeNamed(model, spec.name) = {}}
      data   == {m.spec : m \in UNION {ToSet(h.members) : h \in {g \in helper : g.members[1].name = "Data"}}}
      IsNamed(d) == Innermost(d).name # ""
  IN  CASE spec.tag = "a" -> OfType(tool, model, types, spec.of[1], type)
        [] spec.tag = "p" /\ spec.of # <<>> -> OfType(tool, model, types, spec.of[1], type)
        [] spec.tag \in {"s", "e", "p"} /\ spec.of = <<>> /\ spec.name # "" ->
             /\ TypeNamed(model, spec.name) \subseteq {type.name}
             /\ type.kind = "Array" => \A d \in data :
                  /\ OfType(tool, model, types, d, type.params[1])
                  /\ IsNamed(d) => Indirections(d) = DataPointers(tool, type.params[1])
        [] OTHER -> TRUE

Tells(tool, model, types, r, t) ==
  LET members == {m \in ToSet(t.members) : IsMember(m)}
  IN  /\ t.size = Max({r.size} \cup {m.offset + m.size : m \in ToSet(t.members)})
      /\ \A m, n \in ToSet(t.members) : m.offset < n.offset => m.offset + m.size <= n.offset
      /\ \A m \in members : \E p \in ToSet(r.properties) :
           /\ m.offset = p.offset
           /\ m.size = G!SizeOf(p) \/ (m.size = 1 /\ p.is_bitfield)
           /\ OfType(tool, model, types, m.spec, p.type)
           /\ TypeNamed(model, Innermost(m.spec).name) # {} => Indirections(m.spec) = Pointers(p.type)
      /\ \A p \in ToSet(r.properties) : Alone(r, p) =>
           \E m \in ToSet(t.members) : m.offset = p.offset /\ (m.size = G!SizeOf(p) \/ (m.size = 1 /\ p.is_bitfield))

DatabaseIsTrue ==
  result.of \in {"Ghidra", "Binary Ninja", "IDA"} =>
    LET model == G!BuildModel(case.dump, case.accepted)
        types == ToSet(result.is.types)
        Holds(width, v) == (width = 1 => v \in -128..255) /\ (width = 2 => v \in -32768..65535)
        Calls(site) == {<<path, f>> \in UNION {{<<path, f>> : f \in ToSet(model.structs[path].functions)} :
                                                 path \in DOMAIN model.structs} :
                          f.native_rva = site.rva /\ f.flags = 1}
    IN  /\ \A t, u \in types : t.name = u.name => t = u
        /\ \A path \in DOMAIN model.structs : model.structs[path].size > 0 =>
             \E t \in types : t.name = model.names[path] /\ Tells(result.of, model, types, model.structs[path], t)
        /\ \A path \in DOMAIN model.enum_at : \E e \in ToSet(result.is.enums) :
             /\ e.name = model.enum_names[path]
             /\ \A v \in ToSet(model.enum_at[path].values) : Holds(e.width, v.value)
        /\ \A site \in ToSet(result.is.named) : Cardinality(Calls(site)) = 1

-----------------------------------------------------------------------------
(* In ReClass.NET, where a member is follows from the nodes before it: a      *)
(* class is as long as its record, every node of a type is a property, where  *)
(* the dump has it and as long as it is there, and every property alone in    *)
(* its bytes begins at a node that is of it.                                  *)
NodesStayInPlace ==
  LET Record(path) == G!FirstOf(G!TypesOf(case.dump, case.accepted), path)
      IsOf(node, p) == node.offset = p.offset /\ node.of # <<>> /\ p \in ToSet(node.of)
  IN  result.of = "project" =>
        /\ {c.path : c \in ToSet(result.is)}
             = {r.path : r \in {t \in ToSet(G!TypesOf(case.dump, case.accepted)) : t.size > 0}}
        /\ \A c \in ToSet(result.is) :
             LET r == Record(c.path) nodes == ToSet(c.nodes)
             IN  /\ c.size = r.size
                 /\ \A n \in nodes : n.type \in DOMAIN R!Widths =>
                      \E p \in ToSet(r.properties) : IsOf(n, p) /\ ~p.is_bitfield /\ p.type.kind = n.type /\ p.size = n.size
                 /\ \A p \in ToSet(r.properties) :
                      Alone([r EXCEPT !.inherited_size = 0], p) /\ p.offset < r.size => \E n \in nodes : IsOf(n, p)

(* A reader of a mapping file, to whom only positions tell what a field is,   *)
(* gets all of it: types with their names, what they derive from, and their   *)
(* members in order, each of its type, at the slot the ones before it leave.  *)
RECURSIVE ReadAs(_, _)
ReadAs(type, depth) ==
  LET kind   == IF depth > kMaxTypeDepth THEN "none" ELSE U!Mapped(type)
      As(k, name, params) == [kind |-> k, name |-> name, params |-> params]
      Param(i) == IF i <= Len(type.params) THEN ReadAs(type.params[i], depth + 1) ELSE As("Byte", "", <<>>)
  IN  CASE kind = "none" -> As("Byte", "", <<>>)
        [] kind = "Enum" -> As(kind, U!Shortened(U!TypeLeaf(type.name)), <<Param(1)>>)
        [] kind = "Struct" -> As(kind, U!Shortened(U!TypeLeaf(type.name)), <<>>)
        [] kind \in {"Array", "Set", "Optional"} -> As(kind, "", <<Param(1)>>)
        [] kind = "Map" -> As(kind, "", <<Param(1), Param(2)>>)
        [] OTHER -> As(kind, "", <<>>)

MappingReadsBack ==
  LET types == G!TypesOf(case.dump, case.accepted)
      enums == G!EnumsOf(case.dump, case.accepted)
      Before(r, i) == FoldLeft(LAMBDA sum, p : sum + p.array_dim, 0, SubSeq(r.properties, 1, i - 1))
      Read(r) == [name |-> r.name, super |-> U!TypeLeaf(r.super), slots |-> Before(r, Len(r.properties) + 1),
                  properties |-> [i \in DOMAIN r.properties |->
                    LET p == r.properties[i]
                    IN  [index |-> Before(r, i), dim |-> p.array_dim, name |-> U!Shortened(p.name),
                         type |-> ReadAs(p.type, 0)]]]
  IN  result.of = "mapping" =>
        /\ result.is.all
        /\ result.is.structs = [i \in DOMAIN types |-> Read(types[i])]
        /\ result.is.enums = [i \in DOMAIN enums |->
             [name |-> enums[i].name,
              labels |-> [k \in 1..G!Min({Len(enums[i].values), kMaxEnumValues}) |-> U!Shortened(enums[i].values[k].name)]]]

(* A script that sets a member of an object changes the bytes of that member, *)
(* and of a flag the flag alone; it reads back what it set, or it changed     *)
(* nothing.  The member is the one declared nearest.                          *)
AgentTouchesItsMember ==
  result.of = "touched" =>
    LET agent   == result.is.agent
        types   == G!TypesOf(case.dump, case.accepted)
        Own(at) == {p \in ToSet(G!FirstOf(types, at).properties) : p.name = agent.name}
        path    == CHOOSE at \in G!PathsOf(types) : agent.path \in {at, G!LeafName(at)}
        p       == CHOOSE q \in IF Own(path) # {} THEN Own(path) ELSE Own(G!FirstOf(types, path).super) : TRUE
        changed == {o \in DOMAIN agent.memory : result.is.after[o] # agent.memory[o]}
        Flags(byte) == {b \in 0..7 : (byte \div (2 ^ b)) % 2 = 1}
        differ  == UNION {(Flags(agent.memory[o]) \cup Flags(result.is.after[o]))
                          \ (Flags(agent.memory[o]) \cap Flags(result.is.after[o])) : o \in changed}
    IN  /\ changed \subseteq BytesOf(p)
        /\ p.is_bitfield => differ \subseteq {p.bit_index}
        /\ changed # {} => result.is.read = agent.value
        /\ result.is.said = p.default_value

(* For a type checker, every name in a stub means what the dump says: what a  *)
(* class derives from, and what its members are of.  No module has a name     *)
(* twice, and every member is at its offset under its name.                   *)
StubsNameTypes ==
  result.of = "stubs" =>
    LET stubs == result.is
        known == G!PathsOf(G!TypesOf(case.dump, case.accepted)) \cup G!PathsOf(G!EnumsOf(case.dump, case.accepted))
        Record(path) == G!FirstOf(G!TypesOf(case.dump, case.accepted), path)
        Names(stub) == [i \in DOMAIN stub.classes |-> stub.classes[i].name]
                       \o [i \in DOMAIN stub.enums |-> stub.enums[i].name]
        Meant(type) == P!Mentions(type) \cap known
    IN  /\ \A module \in DOMAIN stubs.modules :
             /\ G!IsInjective(Names(stubs.modules[module]))
             /\ \A c \in ToSet(stubs.modules[module].classes) :
                  LET r == Record(c.path)
                  IN  /\ r.super \in known => P!MeansIn(stubs, module, c.base) = {r.super}
                      /\ G!IsInjective([i \in DOMAIN c.members |-> c.members[i].name])
                      /\ \A i \in DOMAIN r.properties :
                           /\ P!TakenFor(stubs, module, c.members[i].of) = {{path} : path \in Meant(r.properties[i].type)}
                           /\ <<r.properties[i].name, c.members[i].offset>> \in ToSet(c.offsets)
        /\ known = UNION {{c.path : c \in ToSet(stubs.modules[m].classes)}
                          \cup {e.path : e \in ToSet(stubs.modules[m].enums)} : m \in DOMAIN stubs.modules}

(* Every type of the dump is declared in one file, whatever others want its   *)
(* name: inside the type it is in, or in the folder of its namespace.  A      *)
(* field is given an offset when it has one of its own, and only then.        *)
SourcesTellAll ==
  result.of = "sources" =>
    LET types == G!TypesOf(case.dump, case.accepted)
        enums == G!EnumsOf(case.dump, case.accepted)
        Files(path) == {f \in result.is : path \in {t.path : t \in C!Declared(f.is)}}
        Outer(path) == {p \in G!PathsOf(types) : AssemblyOf[p] = AssemblyOf[path] /\ PartsOf[p] = Front(PartsOf[path])}
        Known(r, i) == ~r.properties[i].is_static /\ ~r.properties[i].offset_unresolved
                       /\ case.dump.header.source.kind # "static"
        Notes(p) == {ToString(p.offset), ToString(p.offset) \o " " \o ToString(p.boxed_offset)}
    IN  /\ \A path \in G!PathsOf(types) \cup G!PathsOf(enums) : Cardinality(Files(path)) = 1
        /\ \A r \in ToSet(types), f \in result.is : f.is.path = r.path =>
             f.folder = <<C!PathSafe(IF AssemblyOf[r.path] = "" THEN StemOf[r.package] ELSE AssemblyOf[r.path])>>
                        \o (IF r.name_space = "" THEN <<>> ELSE PartsOf[r.name_space])
        /\ \A path \in G!PathsOf(types) \cup G!PathsOf(enums) : \A outer \in Outer(path) : Files(path) = Files(outer)
        /\ \A r \in ToSet(types), f \in result.is : \A t \in C!Declared(f.is) : t.path = r.path =>
             \A i \in DOMAIN t.fields : (t.fields[i].note \in Notes(r.properties[i])) = Known(r, i)
=============================================================================
