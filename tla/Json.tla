-------------------------------- MODULE Json --------------------------------
(* A dump as a file: ir/src/Json.cpp.                                         *)
(*                                                                            *)
(* A text is a sequence of symbols: the marks of JSON, and words and numbers  *)
(* as one symbol each; a text that ends inside a word is taken to end before  *)
(* it.  Spaces and line ends between symbols are left out.  A string of the   *)
(* dump is one word unless Spelling says what it is made of; one with a quote *)
(* or a line end in it is made of several.                                    *)
EXTENDS Integers, SequencesExt, TLC

CONSTANTS
  Spelling,        \* the symbols of the strings that are not one word
  Numbers,         \* the numbers that dumps hold
  kMaxJsonDepth,   \* the deepest nesting that is read
  kSchemaVersion,
  kAllTypeKinds,   \* the kinds of types there are
  Refused          \* what is not read

-----------------------------------------------------------------------------
(* Writing.  What has its default is left out.                                *)
Escapes == ("\"" :> "\"") @@ ("\\" :> "\\") @@ ("line feed" :> "n") @@ ("tab" :> "t")
Controls == ("escape" :> "001b")

Spelt(string) ==
  IF string = "" THEN <<>> ELSE IF string \in DOMAIN Spelling THEN Spelling[string] ELSE <<string>>

WriteEscaped(string) ==
  LET Escaped(c) == CASE c \in DOMAIN Escapes  -> <<"\\", Escapes[c]>>
                      [] c \in DOMAIN Controls -> <<"\\", "u", Controls[c]>>
                      [] OTHER -> <<c>>
      spelt == Spelt(string)
  IN  <<"\"">> \o FlattenSeq([i \in DOMAIN spelt |-> Escaped(spelt[i])]) \o <<"\"">>

Word(b)      == IF b THEN <<"true">> ELSE <<"false">>
Number(n)    == <<ToString(n)>>
HexText(n)   == "0x" \o ToString(n)
Hex(n)       == WriteEscaped(HexText(n))

Between(opening, parts, closing) ==
  <<opening>>
  \o FlattenSeq([i \in DOMAIN parts |-> IF i = 1 THEN parts[i] ELSE <<",">> \o parts[i]])
  \o <<closing>>

(* An object is written from members that are there or not.                   *)
Key(key, value)         == <<WriteEscaped(key) \o <<":">> \o value>>
KeyIf(given, key, value) == IF given THEN Key(key, value) ELSE <<>>
Object(members)         == Between("{", members, "}")
Array(items)            == Between("[", items, "]")
ListOf(Write(_), seq)   == Array([i \in DOMAIN seq |-> Write(seq[i])])

StringIf(key, string)   == KeyIf(string # "", key, WriteEscaped(string))
NumberIf(key, n, default) == KeyIf(n # default, key, Number(n))
HexIf(key, n)           == KeyIf(n # 0, key, Hex(n))
FlagIf(key, b)          == KeyIf(b, key, Word(TRUE))

WriteStringArray(key, strings) == KeyIf(strings # <<>>, key, ListOf(WriteEscaped, strings))

RECURSIVE WriteTypeRef(_)
WriteTypeRef(type) ==
  Object(Key("kind", WriteEscaped(type.kind))
         \o StringIf("name", type.name) \o StringIf("raw", type.raw)
         \o NumberIf("size", type.size, 0)
         \o KeyIf(type.params # <<>>, "params", ListOf(WriteTypeRef, type.params)))

WriteProperty(p) ==
  Object(Key("name", WriteEscaped(p.name)) \o Key("type", WriteTypeRef(p.type))
         \o KeyIf(~p.offset_unresolved, "offset", Number(p.offset))
         \o KeyIf(~p.offset_unresolved \/ p.size # 0, "size", Number(p.size))
         \o NumberIf("array_dim", p.array_dim, 1) \o NumberIf("flags", p.flags, 0)
         \o WriteStringArray("flag_names", p.flag_names)
         \o NumberIf("boxed_offset", p.boxed_offset, -1)
         \o FlagIf("is_static", p.is_static) \o FlagIf("offset_unresolved", p.offset_unresolved)
         \o FlagIf("is_bitfield", p.is_bitfield)
         \o KeyIf(p.is_bitfield, "byte_mask", Number(p.byte_mask))
         \o KeyIf(p.is_bitfield, "field_mask", Number(p.field_mask))
         \o KeyIf(p.is_bitfield, "bit_index", Number(p.bit_index))
         \o StringIf("default", p.default_value))

WriteParam(p) ==
  LET placed == p.size # 0 \/ p.offset # 0
  IN  Object(Key("name", WriteEscaped(p.name)) \o Key("type", WriteTypeRef(p.type))
             \o KeyIf(placed, "offset", Number(p.offset)) \o KeyIf(placed, "size", Number(p.size))
             \o FlagIf("is_return", p.is_return) \o FlagIf("is_out", p.is_out)
             \o FlagIf("is_const", p.is_const))

WriteStatement(s) ==
  Object(Key("offset", Number(s.offset)) \o NumberIf("depth", s.depth, 0)
         \o Key("text", WriteEscaped(s.text)))

WriteFunction(f) ==
  Object(Key("name", WriteEscaped(f.name)) \o NumberIf("flags", f.flags, 0)
         \o WriteStringArray("flag_names", f.flag_names)
         \o KeyIf(f.params # <<>>, "params", ListOf(WriteParam, f.params))
         \o HexIf("native_rva", f.native_rva) \o HexIf("il_rva", f.il_rva)
         \o NumberIf("token", f.token, 0) \o FlagIf("shared_body", f.shared_body)
         \o KeyIf(f.script # <<>>, "script", ListOf(WriteStatement, f.script))
         \o KeyIf(~f.script_complete, "script_complete", Word(f.script_complete))
         \o NumberIf("script_size", f.script_size, 0))

WriteAccessor(a) ==
  Object(Key("name", WriteEscaped(a.name)) \o Key("type", WriteTypeRef(a.type))
         \o StringIf("getter", a.getter) \o StringIf("setter", a.setter) \o NumberIf("flags", a.flags, 0))

(* The full C++ name is for readers of the file; it is made of what else is   *)
(* in it.                                                                     *)
WriteStruct(r) ==
  Object(Key("name", WriteEscaped(r.name)) \o Key("path", WriteEscaped(r.path))
         \o StringIf("super", r.super) \o StringIf("namespace", r.name_space)
         \o FlagIf("is_interface", r.is_interface) \o FlagIf("is_abstract", r.is_abstract)
         \o FlagIf("is_valuetype", r.is_valuetype) \o FlagIf("is_generic", r.is_generic)
         \o FlagIf("explicit_layout", r.explicit_layout)
         \o NumberIf("token", r.token, 0) \o StringIf("source", r.source)
         \o NumberIf("size", r.size, 0) \o NumberIf("alignment", r.alignment, 0)
         \o NumberIf("inherited_size", r.inherited_size, 0) \o HexIf("vtable_rva", r.vtable_rva)
         \o StringIf("cpp_prefix", r.cpp_prefix)
         \o KeyIf(r.cpp_prefix # "", "cpp_name", WriteEscaped(r.cpp_prefix \o r.name))
         \o WriteStringArray("interfaces", r.interfaces)
         \o KeyIf(r.properties # <<>>, "properties", ListOf(WriteProperty, r.properties))
         \o KeyIf(r.functions # <<>>, "functions", ListOf(WriteFunction, r.functions))
         \o KeyIf(r.accessors # <<>>, "accessors", ListOf(WriteAccessor, r.accessors)))

WriteNamed(v) == Object(Key("name", WriteEscaped(v.name)) \o Key("value", Number(v.value)))

WriteEnum(e) ==
  Object(Key("name", WriteEscaped(e.name)) \o Key("path", WriteEscaped(e.path))
         \o KeyIf(e.underlying # "uint8", "underlying", WriteEscaped(e.underlying))
         \o FlagIf("is_flags", e.is_flags) \o KeyIf(~e.values_resolved, "values_resolved", Word(FALSE))
         \o KeyIf(e.values # <<>>, "values", ListOf(WriteNamed, e.values)))

WriteConflict(c) ==
  Object(Key("path", WriteEscaped(c.path)) \o StringIf("member", c.member)
         \o Key("field", WriteEscaped(c.field)) \o Key("live", WriteEscaped(c.live))
         \o Key("other", WriteEscaped(c.other)) \o Key("used", WriteEscaped(c.used)))

WriteHeader(h) ==
  LET source == Object(StringIf("kind", h.source.kind) \o StringIf("process", h.source.process)
                       \o StringIf("main_module", h.source.main_module)
                       \o HexIf("module_base", h.source.module_base)
                       \o NumberIf("image_size", h.source.image_size, 0))
      e      == h.engine
      engine == Object(StringIf("version", e.version) \o Key("confidence", Number(e.confidence))
                       \o KeyIf(~e.uses_fproperty, "uses_fproperty", Word(FALSE))
                       \o KeyIf(~e.chunked_gobjects, "chunked_gobjects", Word(FALSE))
                       \o KeyIf(~e.chunked_name_pool, "chunked_name_pool", Word(FALSE))
                       \o FlagIf("case_preserving_name", e.case_preserving_name)
                       \o WriteStringArray("evidence", e.evidence))
  IN  Object(StringIf("tool_version", h.tool_version) \o StringIf("created_utc", h.created_utc)
             \o KeyIf(h.runtime # "unreal", "runtime", WriteEscaped(h.runtime))
             \o FlagIf("partial", h.partial) \o Key("source", source) \o Key("engine", engine)
             \o KeyIf(h.offsets # <<>>, "offsets", ListOf(WriteNamed, h.offsets))
             \o WriteStringArray("globals", h.globals) \o WriteStringArray("sources", h.sources)
             \o KeyIf(h.conflicts # <<>>, "conflicts", ListOf(WriteConflict, h.conflicts)))

WritePackage(p) ==
  Object(Key("name", WriteEscaped(p.name))
         \o StringIf("assembly_version", p.assembly_version) \o StringIf("mvid", p.mvid)
         \o KeyIf(p.classes # <<>>, "classes", ListOf(WriteStruct, p.classes))
         \o KeyIf(p.structs # <<>>, "structs", ListOf(WriteStruct, p.structs))
         \o KeyIf(p.enums # <<>>, "enums", ListOf(WriteEnum, p.enums)))

WriteJsonString(dump) ==
  Object(Key("schema_version", Number(dump.schema_version)) \o Key("header", WriteHeader(dump.header))
         \o KeyIf(dump.names # <<>>, "names", ListOf(WriteEscaped, dump.names))
         \o Key("packages", ListOf(WritePackage, dump.packages)))

-----------------------------------------------------------------------------
(* Parsing.  What is parsed at a place is a value and the place after it; the *)
(* place of what is refused is Refused.                                       *)
IsAt(text, at, symbol) == at <= Len(text) /\ text[at] = symbol

Parsed(at, value) == [at |-> at, value |-> value]
NotParsed         == Parsed(Refused, Refused)

Leaf(is, word) == [is |-> is, word |-> word, items |-> <<>>, members |-> <<>>]

(* What a string is when its symbols are read.                                *)
StringOf(symbols) ==
  CASE symbols = <<>>   -> ""
    [] Len(symbols) = 1 -> symbols[1]
    [] OTHER -> CHOOSE s \in DOMAIN Spelling : Spelling[s] = symbols

RECURSIVE ParseSymbols(_, _, _)
ParseSymbols(text, at, got) ==
  LET escaped == {c \in DOMAIN Escapes : IsAt(text, at + 1, Escapes[c])}
      control == {c \in DOMAIN Controls : IsAt(text, at + 1, "u") /\ IsAt(text, at + 2, Controls[c])}
  IN  IF at > Len(text) THEN NotParsed
      ELSE CASE text[at] = "\"" -> Parsed(at + 1, got)
             [] text[at] \in {"line feed", "tab"} \cup DOMAIN Controls -> NotParsed
             [] text[at] = "\\" /\ escaped # {} ->
                  ParseSymbols(text, at + 2, Append(got, CHOOSE c \in escaped : TRUE))
             [] text[at] = "\\" /\ control # {} ->
                  ParseSymbols(text, at + 3, Append(got, CHOOSE c \in control : TRUE))
             [] text[at] = "\\" /\ escaped \cup control = {} -> NotParsed
             [] OTHER -> ParseSymbols(text, at + 1, Append(got, text[at]))

ParseString(text, at) ==
  LET symbols == ParseSymbols(text, at + 1, <<>>)
  IN  IF symbols.at = Refused THEN NotParsed ELSE Parsed(symbols.at, StringOf(symbols.value))

IsNumber(word) == \E n \in Numbers : ToString(n) = word

RECURSIVE ParseValue(_, _, _), ParseMembers(_, _, _, _), ParseItems(_, _, _, _)

ParseObject(text, at, depth) ==
  IF IsAt(text, at + 1, "}") THEN Parsed(at + 2, Leaf("object", "")) ELSE ParseMembers(text, at + 1, depth, <<>>)

ParseMembers(text, at, depth, got) ==
  LET key    == ParseString(text, at)
      member == ParseValue(text, key.at + 1, depth + 1)
      all    == Append(got, <<key.value, member.value>>)
  IN  CASE ~IsAt(text, at, "\"") -> NotParsed
        [] OTHER ->
      CASE key.at = Refused -> NotParsed
        [] OTHER ->
      CASE ~IsAt(text, key.at, ":") -> NotParsed
        [] OTHER ->
      CASE member.at = Refused -> NotParsed
        [] OTHER ->
      CASE IsAt(text, member.at, ",") -> ParseMembers(text, member.at + 1, depth, all)
        [] IsAt(text, member.at, "}") -> Parsed(member.at + 1, [Leaf("object", "") EXCEPT !.members = all])
        [] OTHER -> NotParsed

ParseArray(text, at, depth) ==
  IF IsAt(text, at + 1, "]") THEN Parsed(at + 2, Leaf("array", "")) ELSE ParseItems(text, at + 1, depth, <<>>)

ParseItems(text, at, depth, got) ==
  LET item == ParseValue(text, at, depth + 1)
      all  == Append(got, item.value)
  IN  IF item.at = Refused THEN NotParsed
      ELSE CASE IsAt(text, item.at, ",") -> ParseItems(text, item.at + 1, depth, all)
             [] IsAt(text, item.at, "]") -> Parsed(item.at + 1, [Leaf("array", "") EXCEPT !.items = all])
             [] OTHER -> NotParsed

ParseValue(text, at, depth) ==
  LET string == ParseString(text, at)
  IN  IF depth > kMaxJsonDepth \/ at > Len(text) THEN NotParsed
      ELSE CASE text[at] = "{" -> ParseObject(text, at, depth)
             [] text[at] = "[" -> ParseArray(text, at, depth)
             [] text[at] = "\"" -> IF string.at = Refused THEN NotParsed
                                   ELSE Parsed(string.at, Leaf("string", string.value))
             [] text[at] \in {"true", "false"} -> Parsed(at + 1, Leaf("bool", text[at]))
             [] IsNumber(text[at]) -> Parsed(at + 1, Leaf("number", text[at]))
             [] OTHER -> NotParsed

Parse(text) ==
  LET whole == ParseValue(text, 1, 0)
  IN  IF whole.at = Refused \/ whole.at # Len(text) + 1 THEN Refused ELSE whole.value

-----------------------------------------------------------------------------
(* From what is parsed to a dump.  A member that is not there is what it is   *)
(* by default; the first of two of a name is taken; what is of another kind   *)
(* than the model's refuses the whole.                                        *)
Found(value, key) == SelectSeq(value.members, LAMBDA m : m[1] = key)

Has(value, key)    == Found(value, key) # <<>>
Member(value, key) == Found(value, key)[1][2]

Whole(record) == IF \E k \in DOMAIN record : record[k] = Refused THEN Refused ELSE record

ReadString(value, key, default) ==
  IF ~Has(value, key) THEN default
  ELSE IF Member(value, key).is # "string" THEN Refused ELSE Member(value, key).word

ReadBool(value, key, default) ==
  IF ~Has(value, key) THEN default
  ELSE IF Member(value, key).is # "bool" THEN Refused ELSE Member(value, key).word = "true"

ReadNumber(value, key, default) ==
  IF ~Has(value, key) THEN default
  ELSE IF Member(value, key).is # "number" THEN Refused
  ELSE CHOOSE n \in Numbers : ToString(n) = Member(value, key).word

ReadHex(value, key) ==
  LET given == ReadString(value, key, HexText(0))
      named == {n \in Numbers : HexText(n) = given}
  IN  IF named = {} THEN Refused ELSE CHOOSE n \in named : TRUE

ReadList(Read(_), value, key) ==
  LET items == Member(value, key).items
  IN  IF ~Has(value, key) THEN <<>>
      ELSE IF Member(value, key).is # "array" THEN Refused
      ELSE Whole([i \in DOMAIN items |-> Read(items[i])])

ReadWord(value) == IF value.is = "string" THEN value.word ELSE Refused

ReadStringArray(value, key) == ReadList(ReadWord, value, key)

RECURSIVE ReadTypeRef(_)
ReadTypeRef(value) ==
  LET kind == ReadString(value, "kind", "Unknown")
  IN  IF value.is # "object" THEN Refused
      ELSE Whole([kind   |-> IF kind \in kAllTypeKinds THEN kind ELSE Refused,
                  name   |-> ReadString(value, "name", ""),
                  raw    |-> ReadString(value, "raw", ""),
                  size   |-> ReadNumber(value, "size", 0),
                  params |-> ReadList(ReadTypeRef, value, "params")])

TypeIn(value) ==
  IF Has(value, "type") THEN ReadTypeRef(Member(value, "type"))
  ELSE [kind |-> "Unknown", name |-> "", raw |-> "", size |-> 0, params |-> <<>>]

ReadMask(value, key) ==
  LET mask == ReadNumber(value, key, 0)
  IN  IF mask = Refused THEN Refused ELSE IF mask > 255 THEN Refused ELSE mask

ReadProperty(value) ==
  IF value.is # "object" THEN Refused
  ELSE Whole([name |-> ReadString(value, "name", ""), type |-> TypeIn(value),
              offset       |-> ReadNumber(value, "offset", 0),
              size         |-> ReadNumber(value, "size", 0),
              array_dim    |-> ReadNumber(value, "array_dim", 1),
              flags        |-> ReadNumber(value, "flags", 0),
              flag_names   |-> ReadStringArray(value, "flag_names"),
              boxed_offset |-> ReadNumber(value, "boxed_offset", -1),
              is_static         |-> ReadBool(value, "is_static", FALSE),
              offset_unresolved |-> ReadBool(value, "offset_unresolved", FALSE),
              is_bitfield       |-> ReadBool(value, "is_bitfield", FALSE),
              byte_mask  |-> ReadMask(value, "byte_mask"), field_mask |-> ReadMask(value, "field_mask"),
              bit_index  |-> ReadNumber(value, "bit_index", -1),
              default_value |-> ReadString(value, "default", "")])

ReadParam(value) ==
  IF value.is # "object" THEN Refused
  ELSE Whole([name |-> ReadString(value, "name", ""), type |-> TypeIn(value),
              offset |-> ReadNumber(value, "offset", 0), size |-> ReadNumber(value, "size", 0),
              is_return |-> ReadBool(value, "is_return", FALSE),
              is_out |-> ReadBool(value, "is_out", FALSE), is_const |-> ReadBool(value, "is_const", FALSE)])

ReadStatement(value) ==
  IF value.is # "object" THEN Refused
  ELSE Whole([offset |-> ReadNumber(value, "offset", 0), depth |-> ReadNumber(value, "depth", 0),
              text |-> ReadString(value, "text", "")])

ReadFunction(value) ==
  IF value.is # "object" THEN Refused
  ELSE Whole([name |-> ReadString(value, "name", ""), flags |-> ReadNumber(value, "flags", 0),
              flag_names  |-> ReadStringArray(value, "flag_names"),
              params      |-> ReadList(ReadParam, value, "params"),
              native_rva  |-> ReadHex(value, "native_rva"), il_rva |-> ReadHex(value, "il_rva"),
              token       |-> ReadNumber(value, "token", 0),
              shared_body |-> ReadBool(value, "shared_body", FALSE),
              script      |-> ReadList(ReadStatement, value, "script"),
              script_complete |-> ReadBool(value, "script_complete", TRUE),
              script_size |-> ReadNumber(value, "script_size", 0)])

ReadAccessor(value) ==
  IF value.is # "object" THEN Refused
  ELSE Whole([name |-> ReadString(value, "name", ""), type |-> TypeIn(value),
              getter |-> ReadString(value, "getter", ""), setter |-> ReadString(value, "setter", ""),
              flags |-> ReadNumber(value, "flags", 0)])

ReadStruct(value) ==
  IF value.is # "object" THEN Refused
  ELSE Whole([name |-> ReadString(value, "name", ""), path |-> ReadString(value, "path", ""),
              super      |-> ReadString(value, "super", ""),
              name_space |-> ReadString(value, "namespace", ""),
              is_interface |-> ReadBool(value, "is_interface", FALSE),
              is_abstract  |-> ReadBool(value, "is_abstract", FALSE),
              is_valuetype |-> ReadBool(value, "is_valuetype", FALSE),
              is_generic   |-> ReadBool(value, "is_generic", FALSE),
              explicit_layout |-> ReadBool(value, "explicit_layout", FALSE),
              token      |-> ReadNumber(value, "token", 0), source |-> ReadString(value, "source", ""),
              size       |-> ReadNumber(value, "size", 0),
              alignment  |-> ReadNumber(value, "alignment", 0),
              inherited_size |-> ReadNumber(value, "inherited_size", 0),
              vtable_rva |-> ReadHex(value, "vtable_rva"),
              cpp_prefix |-> ReadString(value, "cpp_prefix", ""),
              interfaces |-> ReadStringArray(value, "interfaces"),
              properties |-> ReadList(ReadProperty, value, "properties"),
              functions  |-> ReadList(ReadFunction, value, "functions"),
              accessors  |-> ReadList(ReadAccessor, value, "accessors")])

ReadNamed(value) ==
  IF value.is # "object" THEN Refused
  ELSE Whole([name |-> ReadString(value, "name", ""), value |-> ReadNumber(value, "value", 0)])

ReadEnum(value) ==
  IF value.is # "object" THEN Refused
  ELSE Whole([name |-> ReadString(value, "name", ""), path |-> ReadString(value, "path", ""),
              underlying |-> ReadString(value, "underlying", "uint8"),
              is_flags |-> ReadBool(value, "is_flags", FALSE),
              values_resolved |-> ReadBool(value, "values_resolved", TRUE),
              values |-> ReadList(ReadNamed, value, "values")])

ReadConflict(value) ==
  IF value.is # "object" THEN Refused
  ELSE Whole([k \in {"path", "member", "field", "live", "other", "used"} |-> ReadString(value, k, "")])

(* A header has its source and its engine in it, which may be missing.        *)
Inside(value, key) == IF Has(value, key) THEN Member(value, key) ELSE Leaf("object", "")

ReadSource(value) ==
  IF value.is # "object" THEN Refused
  ELSE Whole([kind |-> ReadString(value, "kind", ""), process |-> ReadString(value, "process", ""),
              main_module |-> ReadString(value, "main_module", ""),
              module_base |-> ReadHex(value, "module_base"),
              image_size |-> ReadNumber(value, "image_size", 0)])

ReadEngine(value) ==
  IF value.is # "object" THEN Refused
  ELSE Whole([version |-> ReadString(value, "version", ""),
              confidence |-> ReadNumber(value, "confidence", 0),
              uses_fproperty |-> ReadBool(value, "uses_fproperty", TRUE),
              chunked_gobjects |-> ReadBool(value, "chunked_gobjects", TRUE),
              chunked_name_pool |-> ReadBool(value, "chunked_name_pool", TRUE),
              case_preserving_name |-> ReadBool(value, "case_preserving_name", FALSE),
              evidence |-> ReadStringArray(value, "evidence")])

ReadHeader(value) ==
  IF value.is # "object" THEN Refused
  ELSE Whole([tool_version |-> ReadString(value, "tool_version", ""),
              created_utc |-> ReadString(value, "created_utc", ""),
              runtime |-> ReadString(value, "runtime", "unreal"),
              partial |-> ReadBool(value, "partial", FALSE),
              source  |-> ReadSource(Inside(value, "source")),
              engine  |-> ReadEngine(Inside(value, "engine")),
              offsets |-> ReadList(ReadNamed, value, "offsets"),
              globals |-> ReadStringArray(value, "globals"),
              sources |-> ReadStringArray(value, "sources"),
              conflicts |-> ReadList(ReadConflict, value, "conflicts")])

ReadPackage(value) ==
  IF value.is # "object" THEN Refused
  ELSE Whole([name |-> ReadString(value, "name", ""),
              assembly_version |-> ReadString(value, "assembly_version", ""),
              mvid    |-> ReadString(value, "mvid", ""),
              classes |-> ReadList(ReadStruct, value, "classes"),
              structs |-> ReadList(ReadStruct, value, "structs"),
              enums   |-> ReadList(ReadEnum, value, "enums")])

ReadDump(value) ==
  IF value.is # "object" THEN Refused
  ELSE Whole([schema_version |-> ReadNumber(value, "schema_version", kSchemaVersion),
              header   |-> ReadHeader(Inside(value, "header")),
              names    |-> ReadStringArray(value, "names"),
              packages |-> ReadList(ReadPackage, value, "packages")])

DumpOf(root) == IF root = Refused THEN Refused ELSE ReadDump(root)
ParseJson(text) == DumpOf(Parse(text))

-----------------------------------------------------------------------------
(* The header alone, of the beginning of a text: the object after the word    *)
(* "header" where no string is and one brace is open, up to where its braces  *)
(* close, read as a dump of its own.                                          *)
HeaderKey == <<"\"", "header", "\"", ":">>

(* Mutant: a quote in a string ends it.                                       *)
ScannedPlain(state, symbol) ==
  CASE symbol = "\"" -> [state EXCEPT !.in_string = ~@]
    [] symbol \in {"{", "}"} /\ ~state.in_string ->
         LET by == IF symbol = "{" THEN 1 ELSE -1 IN [state EXCEPT !.depth = @ + by, !.braces = @ + by]
    [] symbol \in {"[", "]"} /\ ~state.in_string -> [state EXCEPT !.depth = @ + (IF symbol = "[" THEN 1 ELSE -1)]
    [] OTHER -> state

Scanned(state, symbol) ==
  IF state.in_string
    THEN CASE state.escaped -> [state EXCEPT !.escaped = FALSE]
           [] symbol = "\\" /\ ~state.escaped -> [state EXCEPT !.escaped = TRUE]
           [] symbol = "\"" /\ ~state.escaped -> [state EXCEPT !.in_string = FALSE]
           [] OTHER -> state
    ELSE CASE symbol = "\"" -> [state EXCEPT !.in_string = TRUE]
           [] symbol = "{" -> [state EXCEPT !.depth = @ + 1, !.braces = @ + 1]
           [] symbol = "}" -> [state EXCEPT !.depth = @ - 1, !.braces = @ - 1]
           [] symbol = "[" -> [state EXCEPT !.depth = @ + 1]
           [] symbol = "]" -> [state EXCEPT !.depth = @ - 1]
           [] OTHER -> state

Outside == [in_string |-> FALSE, escaped |-> FALSE, depth |-> 0, braces |-> 0]

RECURSIVE HeaderStart(_, _, _), HeaderEnd(_, _, _)
HeaderStart(text, at, state) ==
  LET isKey  == /\ ~state.in_string /\ state.depth = 1 /\ at + 3 <= Len(text)
                /\ SubSeq(text, at, at + 3) = HeaderKey
      braces == {i \in at + 4..Len(text) : text[i] = "{"}
  IN  CASE at > Len(text)          -> Refused
        [] isKey /\ braces = {}    -> Refused
        [] isKey /\ braces # {}    -> Min(braces)
        [] OTHER -> HeaderStart(text, at + 1, Scanned(state, text[at]))

HeaderEnd(text, at, state) ==
  IF at > Len(text) THEN Refused
  ELSE LET after == Scanned(state, text[at])
       IN  IF text[at] = "}" /\ ~state.in_string /\ after.braces = 0 THEN at
           ELSE HeaderEnd(text, at + 1, after)

HeaderOf(dump) == IF dump = Refused THEN Refused ELSE dump.header

ParseJsonHeader(text) ==
  LET start    == HeaderStart(text, 1, Outside)
      end      == HeaderEnd(text, start, Outside)
      document == Object(Key("schema_version", Number(kSchemaVersion))
                         \o Key("header", SubSeq(text, start, end)) \o Key("packages", Array(<<>>)))
  IN  IF start = Refused THEN Refused
      ELSE IF end = Refused THEN Refused ELSE HeaderOf(ParseJson(document))
=============================================================================
