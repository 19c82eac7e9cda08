-------------------------------- MODULE CSharp ------------------------------
(* Sources in C#: emit/src/CSharp.cpp.  A file for each type that is not      *)
(* inside another, in a folder for its assembly and its namespace; a type     *)
(* inside another is in the file of that one.  A path is the parts of a name, *)
(* the namespace first, and an assembly.                                      *)
EXTENDS Names

CONSTANTS
  PartsOf,        \* the parts of each path, and of each namespace
  AssemblyOf,     \* the assembly of each path, "" for one that has none
  ElementPath,    \* what the paths of arrays are arrays of
  Parameters,     \* the name and the parameters of the last parts that are generics
  Sentences,      \* what a reading says instead of the name of a type
  CsNames,        \* what is left of the names that are not names in C#
  FileStems,      \* the file names made of the names that cannot be one, or are too long
  FolderNames,    \* the folder names made of the names that cannot be one
  Folded          \* which paths of files Windows takes for another one's

Identifier(name) == IF name \in DOMAIN CsNames THEN CsNames[name] ELSE name
FileStem(name)   == IF name \in DOMAIN FileStems THEN FileStems[name] ELSE name
PathSafe(name)   == IF name \in DOMAIN FolderNames THEN FolderNames[name] ELSE name

(* A generic has as many parameters as its name has behind a backtick: what   *)
(* they are called is not in a dump.  They stay in a declaration.             *)
Ungeneric(name) ==
  IF name \in DOMAIN Parameters THEN Parameters[name].of \o Parameters[name].with ELSE name

DeclarationName(name) ==
  IF name \in DOMAIN Parameters THEN Identifier(Parameters[name].of) \o Parameters[name].with ELSE Identifier(name)

Parts(path) == IF path \in DOMAIN PartsOf THEN PartsOf[path] ELSE <<>>

(* Where a type is: its namespace is the beginning of its name, and the rest  *)
(* is what it is inside, with itself last.                                    *)
Place(record, fallback) ==
  LET parts  == Parts(record.path)
      space  == Parts(record.name_space)
      inside == IF Len(space) < Len(parts) /\ IsPrefix(space, parts) THEN SubSeq(parts, Len(space) + 1, Len(parts))
                ELSE parts
  IN  [assembly |-> IF AssemblyOf[record.path] = "" THEN fallback ELSE AssemblyOf[record.path],
       name_space |-> space, nesting |-> inside]

(* Enums are placed with no namespace.                                        *)
EntriesOf(dump, accepted, stems) ==
  LET packages == Accepted(dump, accepted)
      Entry(is, r, p) == [is |-> is, record |-> r, path |-> r.path,
                          where |-> Place(IF is = "enum" THEN [path |-> r.path, name_space |-> ""] ELSE r, stems[p.name])]
      Of(p) == [i \in DOMAIN p.classes |-> Entry("type", [is_class |-> TRUE] @@ p.classes[i], p)]
               \o [i \in DOMAIN p.structs |-> Entry("type", [is_class |-> FALSE] @@ p.structs[i], p)]
               \o [i \in DOMAIN p.enums |-> Entry("enum", p.enums[i], p)]
  IN  FlattenSeq([k \in DOMAIN packages |-> Of(packages[k])])

(* Mutant: what a type is inside is looked for without its assembly.          *)
OuterOfAnyAssembly(entries, entry) ==
  LET w == entry.where
  IN  IF Len(w.nesting) < 2 THEN {}
      ELSE {path \in {entries[i].path : i \in DOMAIN entries} : Parts(path) = w.name_space \o Front(w.nesting)}

(* The path of what a type is inside, if that is in the dump.                 *)
OuterOf(entries, entry) ==
  LET w == entry.where
  IN  IF Len(w.nesting) < 2 THEN {}
      ELSE {path \in {entries[i].path : i \in DOMAIN entries} :
              /\ AssemblyOf[path] = w.assembly
              /\ Parts(path) = w.name_space \o Front(w.nesting)}

-----------------------------------------------------------------------------
(* How types are written.                                                     *)
Aliases ==
  [Void |-> "void", Object |-> "object", Boolean |-> "bool", Char |-> "char", SByte |-> "sbyte", Byte |-> "byte",
   Int16 |-> "short", UInt16 |-> "ushort", Int32 |-> "int", UInt32 |-> "uint", Int64 |-> "long", UInt64 |-> "ulong",
   Single |-> "float", Double |-> "double", Decimal |-> "decimal", String |-> "string",
   IntPtr |-> "IntPtr", UIntPtr |-> "UIntPtr"]

HasAlias(parts) == Len(parts) = 2 /\ parts[1] = "System" /\ parts[2] \in DOMAIN Aliases

(* The last part of a path, or of what it is an array of.  The arguments of a *)
(* generic are left as they are there; the code shortens each of them, too.   *)
RECURSIVE ShortName(_)
ShortName(path) ==
  LET leaf == Last(Parts(path))
  IN  CASE path = "" -> ""
        [] path \in DOMAIN ElementPath -> ShortName(ElementPath[path]) \o "[]"
        [] path # "" /\ path \notin DOMAIN ElementPath /\ HasAlias(Parts(path)) -> Aliases[leaf]
        [] OTHER -> Ungeneric(leaf)

Spelled ==
  [Bool |-> "bool", Int8 |-> "sbyte", Int16 |-> "short", Int32 |-> "int", Int64 |-> "long", UInt8 |-> "byte",
   UInt16 |-> "ushort", UInt32 |-> "uint", UInt64 |-> "ulong", Float |-> "float", Double |-> "double",
   Name |-> "string", String |-> "string", Text |-> "string", FieldPath |-> "FieldPath"]

(* The engine's word for a type, when that is a name.                         *)
RawName(raw) ==
  CASE raw \in {""} \cup Sentences -> "object"
    [] raw \in DOMAIN PartsOf /\ HasAlias(Parts(raw)) /\ AssemblyOf[raw] = "" -> Aliases[Last(Parts(raw))]
    [] OTHER -> Identifier(raw)

RECURSIVE TypeName(_)
TypeName(type) ==
  LET Inner(i) == IF i <= Len(type.params) THEN TypeName(type.params[i]) ELSE "object"
      Of(name) == name \o "<" \o Inner(1) \o ">"
  IN  CASE type.kind \in DOMAIN Spelled -> Spelled[type.kind]
        [] type.kind = "WeakPtr" -> Of("TWeakObjectPtr") [] type.kind = "LazyPtr" -> Of("TLazyObjectPtr")
        [] type.kind = "SoftPtr" -> Of("TSoftObjectPtr") [] type.kind = "SoftClassPtr" -> Of("TSoftClassPtr")
        [] type.kind = "Array" -> Inner(1) \o "[]"
        [] type.kind = "Set" -> Of("HashSet")
        [] type.kind = "Map" -> "Dictionary<" \o Inner(1) \o ", " \o Inner(2) \o ">"
        [] type.kind = "Optional" -> Inner(1) \o "?"
        [] type.kind \in {"Delegate", "MulticastDelegate"} ->
             IF type.name = "" THEN "Delegate" ELSE ShortName(type.name)
        [] OTHER ->
             IF type.name # "" THEN ShortName(type.name) ELSE RawName(type.raw)

(* A record that says it is an interface may be wrong: one has no base and no *)
(* fields of its own.                                                         *)
ReallyInterface(r) ==
  r.is_interface /\ ~r.is_valuetype /\ r.super = "" /\ \A p \in ToSet(r.properties) : p.is_static

Keyword(r) ==
  CASE r.is_valuetype -> "struct" [] ~r.is_valuetype /\ ReallyInterface(r) -> "interface"
    [] OTHER -> IF r.is_class THEN "class" ELSE "struct"

Modifiers(r) ==
  IF ~r.is_valuetype /\ ~ReallyInterface(r) /\ r.is_abstract /\ r.properties = <<>> THEN "public abstract"
  ELSE "public"

Bases(r) ==
  LET base == IF r.super = "" THEN "object" ELSE ShortName(r.super)
  IN  (IF base \in {"object", "ValueType"} THEN <<>> ELSE <<base>>)
      \o [i \in DOMAIN r.interfaces |-> ShortName(r.interfaces[i])]

Underlying ==
  [int8 |-> "sbyte", int16 |-> "short", int32 |-> "int", int64 |-> "long", uint8 |-> "byte", uint16 |-> "ushort",
   uint32 |-> "uint", uint64 |-> "ulong", bool |-> "byte"]

WriteEnum(e) ==
  [is |-> "enum", path |-> e.path, name |-> Identifier(ShortName(IF e.path = "" THEN e.name ELSE e.path)), flags |-> e.is_flags,
   on |-> CASE e.underlying \in DOMAIN Underlying -> Underlying[e.underlying]
            [] e.underlying = "" -> "int"
            [] OTHER -> e.underlying,
   values |-> [i \in DOMAIN e.values |-> <<Identifier(e.values[i].name),
                                           IF e.values_resolved THEN e.values[i].value ELSE "none">>]]

(* What is said of a field: where it is, or why that is not known.            *)
WriteField(offsets_known, p) ==
  [name |-> Identifier(p.name), of |-> TypeName(p.type), static |-> p.is_static,
   note |-> CASE ~offsets_known -> "in the binary"
              [] offsets_known /\ p.is_static -> "static"
              [] offsets_known /\ ~p.is_static /\ p.offset_unresolved -> "unknown"
              [] OTHER -> ToString(p.offset)
                          \o (IF p.boxed_offset >= 0 /\ p.boxed_offset # p.offset
                                THEN " " \o ToString(p.boxed_offset) ELSE ""),
   bit  |-> IF p.is_bitfield THEN {p.bit_index} ELSE {},
   type |-> IF offsets_known /\ p.type.kind = "Unknown" /\ p.type.raw \in Sentences THEN {p.type.raw} ELSE {}]

WriteAccessor(a) ==
  [name |-> Identifier(a.name), of |-> TypeName(a.type), get |-> a.getter # "", set |-> a.setter # ""]

WriteMethod(f, owner) ==
  LET rets  == SelectSeq(f.params, LAMBDA p : p.is_return)
      args  == SelectSeq(f.params, LAMBDA p : ~p.is_return)
      setup == f.name \in {".ctor", ".cctor"}
  IN  [name    |-> DeclarationName(IF setup THEN owner ELSE f.name), static |-> f.name = ".cctor",
       returns |-> CASE setup -> "" [] ~setup /\ rets = <<>> -> "void" [] OTHER -> TypeName(Last(rets).type),
       params  |-> [i \in DOMAIN args |-> <<args[i].is_out, TypeName(args[i].type), Identifier(args[i].name)>>],
       rva     |-> f.native_rva, shared |-> f.shared_body]

RECURSIVE WriteType(_, _, _)
WriteType(entries, offsets_known, entry) ==
  LET r     == entry.record
      owner == Last(entry.where.nesting)
      inner == SelectSeq(entries, LAMBDA e : entry.path \in OuterOf(entries, e))
  IN  IF entry.is = "enum" THEN WriteEnum(r)
      ELSE [is |-> Keyword(r), modifiers |-> Modifiers(r), path |-> r.path, name |-> DeclarationName(owner), bases |-> Bases(r),
            facts     |-> <<r.token, r.size, r.vtable_rva, r.source, r.explicit_layout>>,
            fields    |-> [i \in DOMAIN r.properties |-> WriteField(offsets_known, r.properties[i])],
            accessors |-> [i \in DOMAIN r.accessors |-> WriteAccessor(r.accessors[i])],
            methods   |-> [i \in DOMAIN r.functions |-> WriteMethod(r.functions[i], owner)],
            nested    |-> [i \in DOMAIN inner |-> WriteType(entries, offsets_known, inner[i])]]

(* A file that has been written is not written again: the next one of its     *)
(* name has a number.                                                         *)
StaticOnly(header) == header.source.kind = "static" \/ header.sources = <<"static">>

EmitCSharp(dump, accepted, stems) ==
  LET entries == EntriesOf(dump, accepted, stems)
      ofTheirOwn == SelectSeq(entries, LAMBDA e : OuterOf(entries, e) = {})
      Folder(w) == <<PathSafe(IF w.assembly = "" THEN "unknown" ELSE w.assembly)>>
                   \o [i \in DOMAIN w.name_space |-> PathSafe(w.name_space[i])]
      Write(files, e) ==
        LET folder == Folder(e.where)
            here   == {files[i].name : i \in {k \in DOMAIN files : files[k].folder = folder}}
        IN  Append(files, [folder |-> folder, name |-> Numbered(FileStem(Ungeneric(Last(e.where.nesting))), 2, here),
                           is |-> WriteType(entries, ~StaticOnly(dump.header), e)])
  IN  IF dump.header.runtime = "unreal" THEN <<>> ELSE FoldLeft(Write, <<>>, ofTheirOwn)

-----------------------------------------------------------------------------
(* What is on the disk: of the files Windows takes for one, the last, and     *)
(* none under a name that no file can have.                                   *)
OnDisk(files) ==
  LET Name(f) == <<f.folder, IF f.name \in DOMAIN Folded THEN Folded[f.name] ELSE f.name>>
  IN  {files[i] : i \in {k \in DOMAIN files : /\ files[k].name \notin DOMAIN FileStems
                                              /\ \A later \in k + 1..Len(files) : Name(files[later]) # Name(files[k])}}

RECURSIVE Declared(_)
Declared(type) ==
  {type} \cup (IF type.is = "enum" THEN {} ELSE UNION {Declared(t) : t \in ToSet(type.nested)})
=============================================================================
