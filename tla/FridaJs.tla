------------------------------- MODULE FridaJs ------------------------------
(* The script for Frida: emit/src/FridaJs.cpp.  A table of the types and the  *)
(* enums, and a small program that reads and writes members of objects in a   *)
(* game by it.                                                                *)
EXTENDS Names

CONSTANT
  Spelling       \* the symbols of the strings that are not one word

Spelt(string) ==
  IF string = "" THEN <<>> ELSE IF string \in DOMAIN Spelling THEN Spelling[string] ELSE <<string>>

(* The table is JSON inside a string of JavaScript: what would end the inner  *)
(* string is escaped, and of that what would end the outer one.               *)
Replaced(by, symbols) ==
  FlattenSeq([i \in DOMAIN symbols |-> IF symbols[i] \in DOMAIN by THEN by[symbols[i]] ELSE <<symbols[i]>>])

JsString(string) ==
  <<"\"">> \o Replaced(("\\" :> <<"\\", "\\">>) @@ ("\"" :> <<"\\", "\"">>) @@ ("line feed" :> <<"\\", "n">>)
                       @@ ("tab" :> <<"\\", "t">>) @@ ("escape" :> <<"\\", "u001b">>), Spelt(string))
  \o <<"\"">>

EmbedJson(json) ==
  <<"'">> \o Replaced(("\\" :> <<"\\", "\\">>) @@ ("'" :> <<"\\", "'">>) @@ ("line feed" :> <<"' + '">>), json) \o <<"'">>

(* What a program reads between the quotes of a string: up to the closing one,*)
(* an escaped symbol as what it stands for.                                   *)
Stands == ("n" :> "line feed") @@ ("t" :> "tab") @@ ("u001b" :> "escape")

Unquoted(quote, symbols) ==
  LET Step(s, c) ==
        CASE s.closed -> [s EXCEPT !.read = Append(@, "after the end")]
          [] ~s.closed /\ s.escaped -> [s EXCEPT !.escaped = FALSE,
                                                 !.read = Append(@, IF c \in DOMAIN Stands THEN Stands[c] ELSE c)]
          [] ~s.closed /\ ~s.escaped /\ c = "\\" -> [s EXCEPT !.escaped = TRUE]
          [] ~s.closed /\ ~s.escaped /\ c = quote -> [s EXCEPT !.closed = TRUE]
          [] ~s.closed /\ ~s.escaped /\ c = "' + '" -> s
          [] OTHER -> [s EXCEPT !.read = Append(@, c)]
  IN  FoldLeft(Step, [read |-> <<>>, escaped |-> FALSE, closed |-> FALSE], Tail(symbols)).read

Loaded(string) ==
  IF Unquoted("\"", Unquoted("'", EmbedJson(JsString(string)))) = Spelt(string) THEN string ELSE "garbled"

-----------------------------------------------------------------------------
(* The table.                                                                 *)
RECURSIVE TypeTag(_)
TypeTag(type) ==
  LET Tag(tag) == [tag |-> tag, of |-> ""]
      Plain == [Bool |-> "bool", Int8 |-> "i8", Int16 |-> "i16", Int32 |-> "i32", Int64 |-> "i64", UInt8 |-> "u8",
                UInt16 |-> "u16", UInt32 |-> "u32", UInt64 |-> "u64", Double |-> "f64", Name |-> "name",
                String |-> "str"]
  IN  CASE type.kind \in DOMAIN Plain -> Tag(Plain[type.kind])
        [] type.kind = "Float" -> Tag(IF type.size = 8 THEN "f64" ELSE "f32")
        [] type.kind \in {"Enum", "Struct", "ObjectPtr", "ClassPtr"} ->
             [tag |-> CASE type.kind = "Enum" -> "enum" [] type.kind = "Struct" -> "struct" [] OTHER -> "ptr",
              of  |-> type.name]
        [] type.kind = "Array" /\ type.params # <<>> -> [tag |-> "array", of |-> TypeTag(type.params[1])]
        [] OTHER -> Tag("opaque")

AppendType(record) ==
  [path |-> record.path, super |-> record.super, size |-> record.size, vtable |-> record.vtable_rva,
   props |-> [i \in DOMAIN record.properties |->
                LET p == record.properties[i]
                IN  [n |-> Loaded(p.name), o |-> p.offset, t |-> TypeTag(p.type), s |-> p.size, dim |-> p.array_dim,
                     d |-> Loaded(p.default_value), mask |-> IF p.is_bitfield THEN p.field_mask ELSE -1]],
   funcs |-> [i \in DOMAIN record.functions |->
                LET f == record.functions[i]
                IN  [n |-> Loaded(f.name), flags |-> f.flags, rva |-> f.native_rva,
                     params |-> [k \in DOMAIN f.params |->
                                   [n |-> f.params[k].name, o |-> f.params[k].offset, t |-> TypeTag(f.params[k].type),
                                    s |-> f.params[k].size, ret |-> f.params[k].is_return, out |-> f.params[k].is_out]]]]]

(* A later type of a path takes the place of an earlier one.                  *)
EmitFridaJs(dump, accepted) ==
  LET types == TypesOf(dump, accepted)
      enums == EnumsOf(dump, accepted)
      LastOf(records, path) == records[Max({i \in DOMAIN records : records[i].path = path})]
  IN  [types   |-> Tabled([path \in PathsOf(types) |-> AppendType(LastOf(types, path))]),
       enums   |-> Tabled([path \in PathsOf(enums) |-> LastOf(enums, path).values]),
       offsets |-> dump.header.offsets]

-----------------------------------------------------------------------------
(* The program.  A type goes by its path, or by its leaf when one has it; one *)
(* that is unknown or ambiguous is an exception, and nothing is touched.      *)
TypeOf(data, path) ==
  LET hits == {key \in DOMAIN data.types : LeafName(key) = path}
  IN  CASE path \in DOMAIN data.types -> path
        [] path \notin DOMAIN data.types /\ Cardinality(hits) = 1 -> CHOOSE key \in hits : TRUE
        [] OTHER -> "none"

RECURSIVE Chain(_, _)
Chain(data, path) ==
  IF path \notin DOMAIN data.types THEN <<>> ELSE <<data.types[path]>> \o Chain(data, data.types[path].super)

(* The nearest declaration of a name, and of those the last.                  *)
PropertyOf(data, path, name) ==
  LET chain == Chain(data, TypeOf(data, path))
      With(i) == {j \in DOMAIN chain[i].props : chain[i].props[j].n = name}
      near  == {i \in DOMAIN chain : With(i) # {}}
  IN  IF near = {} THEN <<>> ELSE <<chain[Min(near)].props[Max(With(Min(near)))]>>

(* Memory is bytes by their offset in the object; a number is small and takes *)
(* the first of its bytes, or it is -1 and takes all of them.                 *)
BytesAt(memory, at, width) == [i \in 1..width |-> memory[at + i - 1]]
Number(bytes) == IF \A i \in DOMAIN bytes \ {1} : bytes[i] = 0 THEN bytes[1] ELSE -1
BytesFor(value, width) == [i \in 1..width |-> CASE value = -1 -> 255 [] value # -1 /\ i = 1 -> value [] OTHER -> 0]
Over(memory, at, bytes) ==
  [o \in DOMAIN memory |-> IF o \in at..at + Len(bytes) - 1 THEN bytes[o - at + 1] ELSE memory[o]]

WidthOf ==
  [bool |-> 1, i8 |-> 1, i16 |-> 2, i32 |-> 4, i64 |-> 8, u8 |-> 1, u16 |-> 2, u32 |-> 4, u64 |-> 8, f32 |-> 4,
   f64 |-> 8, ptr |-> 8]

(* Mutant: the size of an enum is taken for four bytes.                       *)
RawWidthOfInt(size) == 4

RawWidth(size) == IF size \in {2, 4, 8} THEN size ELSE 1

EnumName(data, path, value) ==
  LET table == IF path \in DOMAIN data.enums THEN data.enums[path] ELSE <<>>
      hits  == {i \in DOMAIN table : table[i].value = value}
  IN  IF hits = {} THEN value ELSE table[Min(hits)].name

EnumValue(data, path, name) ==
  LET table == IF path \in DOMAIN data.enums THEN data.enums[path] ELSE <<>>
      hits  == {i \in DOMAIN table : table[i].name = name}
  IN  IF hits = {} THEN <<>> ELSE <<table[Min(hits)].value>>

Bitwise(byte, mask) == (byte \div mask) % 2 = 1       \* a mask is one bit

ReadAt(data, memory, prop) ==
  LET t == prop.t
  IN  CASE prop.mask # -1 -> Bitwise(memory[prop.o], prop.mask)
        [] prop.mask = -1 /\ t.tag = "bool" -> memory[prop.o] # 0
        [] prop.mask = -1 /\ t.tag = "enum" -> EnumName(data, t.of, Number(BytesAt(memory, prop.o, RawWidth(prop.s))))
        [] prop.mask = -1 /\ t.tag \in DOMAIN WidthOf \ {"bool"} -> Number(BytesAt(memory, prop.o, WidthOf[t.tag]))
        [] OTHER -> prop.o           \* parts of it, or where it is

(* The memory after a write; none is written when it is refused.              *)
WriteAt(data, memory, prop, value) ==
  LET t    == prop.t
      byte == memory[prop.o]
      kept == IF Bitwise(byte, prop.mask) THEN byte - prop.mask ELSE byte
      number == CASE t.tag = "bool" -> IF value THEN 1 ELSE 0 [] OTHER -> value
      named  == EnumValue(data, t.of, value)
  IN  CASE prop.mask # -1 -> Over(memory, prop.o, <<IF value THEN kept + prop.mask ELSE kept>>)
        [] prop.mask = -1 /\ t.tag = "enum" ->
             IF named = <<>> THEN memory ELSE Over(memory, prop.o, BytesFor(named[1], RawWidth(prop.s)))
        [] prop.mask = -1 /\ t.tag \in DOMAIN WidthOf -> Over(memory, prop.o, BytesFor(number, WidthOf[t.tag]))
        [] OTHER -> memory
=============================================================================
