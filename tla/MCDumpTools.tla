----------------------------- MODULE MCDumpTools ----------------------------
(* Small builds of games: those of a game are ones that can follow each other.*)
EXTENDS DumpTools

Type(kind, size) == [kind |-> kind, size |-> size, names |-> "", params |-> <<>>]

Field(name, offset, size, bit) ==
  [name |-> name, offset |-> offset, size |-> size, bit |-> bit, flags |-> 0, default |-> "",
   static |-> FALSE, unresolved |-> FALSE,
   type |-> Type(IF bit # 0 THEN "bool" ELSE IF size = 2 THEN "uint16" ELSE "uint8", size)]

Method(name, signature, native, il, token) ==
  [name |-> name, signature |-> signature, native |-> native, il |-> il, flags |-> 0,
   token |-> token, params |-> <<>>]

Class(path, size, token, fields, methods) ==
  [path |-> path, pkg |-> "p", kind |-> "class", source |-> "", super |-> "", size |-> size,
   alignment |-> 1, inherited |-> 0, explicit |-> FALSE, token |-> token, fields |-> fields, methods |-> methods]

Enum(path, values) ==
  [path |-> path, pkg |-> "p", kind |-> "enum", source |-> "", underlying |-> "uint8",
   resolved |-> TRUE, values |-> values, token |-> 9]

Build(game, runtime, engine, types, declared) ==
  [game |-> game, runtime |-> runtime, engine |-> engine, offsets |-> [super |-> 1],
   types |-> types, declared |-> declared]

(* Members of a native class: two names, two places, two sizes, two bits, any *)
(* two of them, alike names and overlaps included; and any three plain ones.  *)
Plain  == {Field(n, o[1], o[2], 0) : n \in {"x", "y"}, o \in {<<0, 1>>, <<1, 1>>, <<0, 2>>}}
Packed == {Field(n, 0, 1, b) : n \in {"x", "y"}, b \in {1, 2}}

Native(game, fields) ==
  Build(game, "unreal", "5", {Class("A", 2, 0, fields, <<>>)}, {"A"})

Layouts == {Native(<<"layouts">>, fields) : fields \in BoundedSeq(Plain \cup Packed, 2)}
Wide    == {Native(<<"wide">>, fields) : fields \in [1..3 -> Plain]}

(* What has no place: flags, defaults, addresses, signatures, enum values,    *)
(* types and packages that come and go.                                       *)
Details ==
  LET X   == Field("x", 0, 1, 0)
      F   == Method("f", "int", 100, 0, 0)
      Of(engine, types) == Build(<<"details">>, "unreal", engine, types, {t.path : t \in types})
      With(field, methods) == Class("A", 2, 0, <<field>>, methods)
      Plane == With(X, <<F>>)
  IN  { Of("5", {Plane, Enum("E", [a |-> 0])}),
        Of("5", {Plane, Enum("E", [a |-> 1, b |-> 0])}),
        Of("5", {Plane, [Class("B", 2, 0, <<>>, <<>>) EXCEPT !.pkg = "q"]}),
        Of("5", {With([X EXCEPT !.flags = 1], <<F, Method("f", "bool", 300, 0, 0)>>)}),
        Of("5", {With([X EXCEPT !.default = "1"], <<Method("f", "int", 0, 0, 0)>>)}),
        Of("5", {With([X EXCEPT !.default = "2"], <<[F EXCEPT !.native = 200, !.flags = 1]>>)}),
        [Of("6", {[Plane EXCEPT !.super = "B", !.size = 3, !.alignment = 2]})
           EXCEPT !.offsets = [super |-> 2]] }

(* A Unity game: a class, an enum, and an instantiation no metadata has.  One *)
(* build places the members of the class over each other.                     *)
Unity(game, runtime, fields, methods, values) ==
  Build(game, runtime, "31",
        {Class("A", 2, 1, fields, methods), Enum("E", values),
         Class("G<int>", 2, 0, <<Field("x", 1, 1, 0)>>, <<>>)},
        {"A", "E"})

Overlaid(b) ==
  [b EXCEPT !.types = {IF t.path = "A" THEN [t EXCEPT !.explicit = TRUE] ELSE t : t \in @}]

Compiled ==
  {Overlaid(Unity(<<"compiled">>, "il2cpp", <<Field("x", 0, 2, 0), Field("y", 1, 1, 0)>>,
                  <<Method("m", "int", 100, 0, 5)>>, [a |-> 0]))}
  \cup {Unity(<<"compiled">>, "il2cpp", fields, <<Method("m", "int", 100, 0, 5)>>, [a |-> 0]) :
     fields \in { <<Field("x", 1, 1, 0)>>, <<Field("y", 1, 1, 0)>>,
                  <<Field("x", 0, 1, 0), Field("y", 1, 1, 0)>>,
                  <<Field("x", 1, 1, 0), Field("t", -1, 1, 0)>> }}

Managed ==
  {Unity(<<"managed">>, "mono", <<Field("x", 1, 1, 0)>>,
         <<Method("m", "", 0, il, 5), Method("m", "", 0, 20, 6)>>, values) :
     il \in {0, 10}, values \in {[a |-> 1], [a |-> 1, b |-> 2]}}

(* Native games with two packages and what the C++ headers have to get right: *)
(* a class with a base, in its package or the other, that is there or not,    *)
(* has members or not; whose first member is in the base, after it or         *)
(* further on; and which is of one of the kinds of types.                     *)
Typed(name, offset, type) == [Field(name, offset, type.size, 0) EXCEPT !.type = type]

Naming(kind, size, path) == [Type(kind, size) EXCEPT !.names = path]

ArrayOf(type) == [Type("array", 16) EXCEPT !.params = <<type>>]

ScriptStruct(path, pkg, size, fields) ==
  [Class(path, size, 0, fields, <<>>) EXCEPT !.kind = "struct", !.pkg = pkg]

Bases(pkg) ==
  { ScriptStruct("S", pkg, 4, <<Field("z", 1, 1, 3), Field("x", 0, 1, 0), Field("y", 1, 1, 8)>>),
    ScriptStruct("S", pkg, 1, <<>>) }

Kinds(size) ==
  { Naming("struct", size, "S"), Naming("struct", size + 2, "S"), Naming("struct", 3, "gone"),
    Naming("enum", 1, "E"), Naming("enum", 2, "E"), Naming("object", 8, "D"),
    ArrayOf(Naming("struct", size, "S")), ArrayOf(Naming("struct", 3, "gone")),
    Type("text", 24), Type("name", 8), Type("unknown", 3) }

Derived(base, super, gap, type) ==
  LET inherited == CASE super = "" -> 0 [] super = base.path -> base.size [] OTHER -> 5
      first     == inherited + gap
      last      == first + type.size
  IN  [Class("D", last + 2, 0,
             <<Field("y", last, 1, 0), Typed("x", first, type)>>, <<>>)
         EXCEPT !.super = super, !.inherited = inherited]

Texts == ScriptStruct("T", "q", 56, <<Typed("x", 0, Type("text", 16)), Typed("y", 16, Type("text", 16)),
                                      Typed("z", 32, Type("text", 24))>>)

Of(name, types) == Build(name, "unreal", "5", types, {t.path : t \in types})

Headers ==
  {Of(<<"headers", base, super, gap, type>>,
      {base, Derived(base, super, gap, type), [Enum("E", [a |-> 0]) EXCEPT !.pkg = "q"]}) :
     base \in Bases("p") \cup Bases("q"), super \in {"", "S", "gone"}, gap \in {0, 1},
     type \in UNION {Kinds(size) : size \in {1, 4}}}
  \cup {Of(<<"in", base, type>>, {base, Derived(base, "S", -1, type)}) :
           base \in Bases("p") \cup Bases("q"), type \in {Type("uint8", 1), Type("unknown", 3)}}
  \cup {Of(<<"texts", type>>, {Texts, Derived(Texts, "T", 0, type)}) :
           type \in {Type("text", 16), Type("text", 24)}}

(* Methods: parameters whose spellings are the same, that are declared in     *)
(* another order than they are laid out in, and of types of another package.  *)
Param(name, offset, type, ret) ==
  [name |-> name, offset |-> offset, size |-> type.size, type |-> type, ret |-> ret]

Byte == Type("uint8", 1)

Signatures ==
  { <<Param("a b", 0, Byte, FALSE), Param("a_b", 1, Byte, FALSE), Param("r", 2, Byte, TRUE)>>,
    <<Param("x", 3, Byte, FALSE), Param("y", 0, Type("uint16", 2), FALSE), Param("r", 2, Byte, TRUE)>>,
    <<Param("x", 0, Naming("struct", 4, "S"), FALSE), Param("y", 4, Naming("enum", 2, "E"), FALSE)>>,
    <<Param("x", 0, Naming("struct", 4, "gone"), FALSE)>> }

Wrappers ==
  LET Call(name, params) == [Method(name, "", 0, 0, 0) EXCEPT !.params = params]
      Caller(m, n) == [Class("D", 2, 0, <<Field("x", 0, 1, 0), Field("x", 1, 1, 0)>>,
                             <<Call("f", m), Call("g", n)>>) EXCEPT !.pkg = "p"]
      S == CHOOSE s \in Bases("q") : s.size = 4
  IN  {Of(<<"wrappers", m, n>>, {S, Caller(m, n), [Enum("E", [a |-> 0]) EXCEPT !.pkg = "q"]}) :
         m \in Signatures, n \in Signatures}

(* Two packages whose methods take each other's structs.                      *)
Circular ==
  LET Taker(path, pkg, struct) ==
        [Class(path, 1, 0, <<>>,
               <<[Method("f", "", 0, 0, 0) EXCEPT !.params = <<Param("x", 0, Naming("struct", 1, struct), FALSE)>>]>>)
           EXCEPT !.pkg = pkg]
  IN  {Of(<<"circular">>, {Taker("A", "p", "T"), ScriptStruct("S", "p", 1, <<>>),
                           Taker("B", "q", "S"), ScriptStruct("T", "q", 1, <<>>)})}

MCStemOf == [p |-> "p", q |-> "q"]

MCSafe ==
  [n \in {"x", "y", "z", "t", "f", "g", "m", "r", "a b", "a_b"} |-> IF n = "a b" THEN "a_b" ELSE n]

MCBuilds == Headers \cup Wrappers \cup Layouts \cup Wide \cup Details \cup Compiled \cup Managed
=============================================================================
