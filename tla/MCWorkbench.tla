----------------------------- MODULE MCWorkbench ----------------------------
EXTENDS Workbench

Type(kind, name, size, params) ==
  [kind |-> kind, name |-> name, raw |-> "", size |-> size, params |-> params]

Field(name, type, offset) ==
  [name |-> name, type |-> type, offset |-> offset, size |-> type.size, array_dim |-> 1, flags |-> 0,
   flag_names |-> <<>>, boxed_offset |-> -1, is_static |-> FALSE, offset_unresolved |-> FALSE,
   is_bitfield |-> FALSE, byte_mask |-> 0, field_mask |-> 0, bit_index |-> -1, default_value |-> ""]

Function(name, params) ==
  [name |-> name, flags |-> 0, flag_names |-> <<>>, params |-> params, native_rva |-> 0, il_rva |-> 0,
   token |-> 0, shared_body |-> FALSE, script |-> <<>>, script_complete |-> TRUE, script_size |-> 0]

Param(name, type, offset) ==
  [name |-> name, type |-> type, offset |-> offset, size |-> type.size,
   is_return |-> FALSE, is_out |-> FALSE, is_const |-> FALSE]

Struct(name, path, size, fields) ==
  [name |-> name, path |-> path, super |-> "", name_space |-> "", is_interface |-> FALSE,
   is_abstract |-> FALSE, is_valuetype |-> FALSE, is_generic |-> FALSE, explicit_layout |-> FALSE,
   token |-> 0, source |-> "", size |-> size, alignment |-> 0, inherited_size |-> 0, vtable_rva |-> 0,
   cpp_prefix |-> "", interfaces |-> <<>>, properties |-> fields, functions |-> <<>>, accessors |-> <<>>]

Enum(name, path, values) ==
  [name |-> name, path |-> path, underlying |-> "uint8", is_flags |-> FALSE, values_resolved |-> TRUE,
   values |-> values]

Package(name, classes, structs, enums) ==
  [name |-> name, assembly_version |-> "", mvid |-> "", classes |-> classes, structs |-> structs,
   enums |-> enums]

Header ==
  [tool_version |-> "", created_utc |-> "", runtime |-> "unreal", partial |-> FALSE,
   source |-> [kind |-> "", process |-> "", main_module |-> "", module_base |-> 0, image_size |-> 0],
   engine |-> [version |-> "", confidence |-> 0, uses_fproperty |-> TRUE, chunked_gobjects |-> TRUE,
               chunked_name_pool |-> TRUE, case_preserving_name |-> FALSE, evidence |-> <<>>],
   offsets |-> <<>>, globals |-> <<>>, sources |-> <<>>, conflicts |-> <<>>]

Dump(packages) ==
  [schema_version |-> 4, header |-> Header, names |-> <<>>, packages |-> packages]

-----------------------------------------------------------------------------
(* Files: one with nothing in it; one with everything; ...                    *)
Int4 == Type("Int", "", 4, <<>>)

MCSpelling ==
  ("quoted" :> <<"\"", "header", "\"", ":", "{">>) @@ ("slashed" :> <<"\\", "line feed">>)
  @@ ("odd" :> <<"tab", "escape", "}">>) @@ ("half" :> <<"}", "\"", "}">>)

(* One with everything a header has, and ones with everything a package, a    *)
(* class, a member, a method and an enum have.                                *)
In(classes, structs, enums) == Dump(<<Package("P", classes, structs, enums)>>)

Elements == Type("Array", "", 4, <<Type("Struct", "P.S", 4, <<>>)>>)

Full ==
  [Header EXCEPT !.tool_version = "x", !.runtime = "mono", !.partial = TRUE,
     !.source = [kind |-> "x", process |-> "quoted", main_module |-> "half", module_base |-> 3, image_size |-> 4],
     !.engine = [version |-> "x", confidence |-> 1, uses_fproperty |-> FALSE, chunked_gobjects |-> FALSE,
                 chunked_name_pool |-> FALSE, case_preserving_name |-> TRUE, evidence |-> <<"slashed", "quoted">>]]

Disputed ==
  [Header EXCEPT !.created_utc = "y", !.offsets = <<[name |-> "x", value |-> 0]>>, !.globals = <<"odd">>,
     !.sources = <<"y">>,
     !.conflicts = <<[path |-> "x", member |-> "", field |-> "", live |-> "quoted", other |-> "y", used |-> "x"],
                     [path |-> "x", member |-> "y", field |-> "z", live |-> "", other |-> "", used |-> ""]>>]

Placed1 ==
  <<[Field("a", Elements, 4)
       EXCEPT !.array_dim = 2, !.flags = 3, !.flag_names = <<"x", "odd">>, !.boxed_offset = 5,
              !.is_static = TRUE, !.default_value = "slashed", !.type.raw = "quoted"],
    [Field("b", Type("Bool", "", 1, <<>>), 7)
       EXCEPT !.is_bitfield = TRUE, !.byte_mask = 3, !.field_mask = 2, !.bit_index = 1]>>

Unplaced ==
  <<[Field("u", Int4, 0) EXCEPT !.offset_unresolved = TRUE],
    [Field("v", Int4, 0) EXCEPT !.offset_unresolved = TRUE, !.size = 0]>>

Adorned ==
  [Struct("C", "P.C", 8, <<>>)
     EXCEPT !.super = "x", !.name_space = "x", !.is_interface = TRUE, !.is_abstract = TRUE,
            !.is_valuetype = TRUE, !.is_generic = TRUE, !.explicit_layout = TRUE, !.token = 7,
            !.source = "x", !.alignment = 4, !.inherited_size = 4, !.vtable_rva = 5,
            !.cpp_prefix = "A", !.interfaces = <<"x">>]

Called ==
  [Function("f", <<Param("p", Int4, 4), [Param("", Type("Int", "", 0, <<>>), 0)
                     EXCEPT !.is_return = TRUE, !.is_out = TRUE, !.is_const = TRUE]>>)
     EXCEPT !.flags = 1, !.flag_names = <<"x">>, !.native_rva = 4, !.il_rva = 3, !.token = 2,
            !.shared_body = TRUE, !.script_complete = FALSE, !.script_size = 9]

Scripted ==
  [Function("g", <<>>) EXCEPT !.script = <<[offset |-> 0, depth |-> 0, text |-> "slashed"],
                                           [offset |-> 4, depth |-> 2, text |-> ""]>>]

Accessors ==
  <<[name |-> "a", type |-> Int4, getter |-> "x", setter |-> "", flags |-> 0],
    [name |-> "b", type |-> Int4, getter |-> "", setter |-> "y", flags |-> 2]>>

Flagged ==
  [Enum("E", "P.E", <<[name |-> "a", value |-> -1]>>)
     EXCEPT !.underlying = "int8", !.is_flags = TRUE, !.values_resolved = FALSE]

Files ==
  { [Dump(<<>>) EXCEPT !.header = Full, !.names = <<"quoted", "">>],
    [Dump(<<>>) EXCEPT !.header = Disputed],
    In(<<[Adorned EXCEPT !.functions = <<Called>>]>>, <<>>, <<>>),
    In(<<[Struct("C", "P.C", 8, Placed1) EXCEPT !.functions = <<Scripted>>]>>, <<>>, <<>>),
    Dump(<<[Package("P", <<>>, <<Struct("S", "P.S", 4, Unplaced)>>, <<Flagged>>)
              EXCEPT !.assembly_version = "x", !.mvid = "y"],
           Package("Q", <<[Struct("D", "P.D", 0, <<>>) EXCEPT !.accessors = Accessors]>>, <<>>,
                   <<Enum("F", "Q.F", <<>>)>>)>>) }

-----------------------------------------------------------------------------
(* For disassemblers: a base and what derives from it, whose sizes agree or   *)
(* do not; a type of the same leaf in another package; types that embed each  *)
(* other from the last to the first; members of every sort a cover of bytes   *)
(* can meet; enums wider than they say, and labels that several enums have;   *)
(* native functions alone at their address or not.                            *)
Byte  == Type("UInt8", "", 1, <<>>)
Word4 == Type("Int32", "", 4, <<>>)
Float4 == Type("Float", "", 4, <<>>)
Flag  == Type("Bool", "", 1, <<>>)
To(path) == Type("ObjectPtr", path, 8, <<>>)
Inner == Type("Struct", "P.Inner", 8, <<>>)
ArrayOf(type) == Type("Array", "", 16, <<type>>)
Wide  == Type("Enum", "P.Mode", 2, <<>>)

Bit(name, offset, index) ==
  [Field(name, Flag, offset) EXCEPT !.is_bitfield = TRUE, !.byte_mask = 2 ^ index, !.field_mask = 2 ^ index,
                                    !.bit_index = index]
Many(field, dim) == [field EXCEPT !.array_dim = dim, !.size = dim * field.type.size]

Derive(record, super, inherited) == [record EXCEPT !.super = super, !.inherited_size = inherited]

Native(name, rva) == [Function(name, <<[Param("to", To("P.Base"), 0) EXCEPT !.is_out = TRUE]>>)
                        EXCEPT !.flags = 1, !.native_rva = rva]

Members ==
  { <<Field("a", Word4, 16), Field("to", To("Q.Base"), 24)>>,
    <<Field("all", ArrayOf(To("P.Base")), 16), Field("mode", Wide, 32), Bit("on", 34, 0), Bit("off", 34, 1)>>,
    <<Field("list", ArrayOf(Inner), 16), Field("a.b", Byte, 32), Field("a_b", Byte, 33)>>,
    <<Many(Field("pair", Inner, 16), 2), Field("same", Float4, 32), Field("same", Word4, 36)>>,
    <<Field("name", Type("Name", "", 8, <<>>), 24), Field("in", Word4, 20), Field("within", Byte, 21)>>,
    <<Field("text", Type("String", "", 16, <<>>), 24), Bit("on", 16, 3), Field("modes", ArrayOf(Wide), 40)>>,
    <<Field("weak", Type("WeakPtr", "P.Base", 8, <<>>), 16), Field("early", Word4, 8), Field("odd", Type("Unknown", "", 3, <<>>), 24)>>,
    <<Field("inner", [Inner EXCEPT !.size = 4], 16), Many(Field("modes", Wide, 24), 3), Field("to", To("X.Gone"), 32)>>,
    <<Field("long", [ArrayOf(Byte) EXCEPT !.size = 24], 16), Field("mode", [Wide EXCEPT !.size = 4], 40)>>,
    <<Many(Field("bytes", Byte, 16), 7), Field("ended", Word4, 54), Field("beyond", Word4, 60)>> }

Worked(members, inherited, sizes) ==
  LET derived == [Derive(Struct("Derived", "P.Derived", 56, members), "P.Base", inherited)
                    EXCEPT !.functions = <<Native("Run", 4), Native("Stop", 5)>>]
      base    == [Struct("Base", "P.Base", 16, <<Field("self", To("P.Derived"), 8)>>)
                    EXCEPT !.functions = <<Native("Run", 6), [Native("Step", 7) EXCEPT !.flags = 0]>>]
      inner   == Struct("Inner", "P.Inner", 8, <<Field("innermost", Type("Struct", "P.Innermost", 4, <<>>), 0)>>)
      other   == [Derive(Struct("Base", "Q.Base", sizes, <<Field("mode", Wide, 16)>>), "Engine.Actor", 0)
                    EXCEPT !.functions = <<Native("Run", 5), Native("Walk", 8)>>]
      mode    == [Enum("Mode", "P.Mode", <<[name |-> "On", value |-> 1], [name |-> "Off", value |-> 300]>>)
                    EXCEPT !.underlying = "uint8"]
      again   == Enum("EMode", "Q.EMode", <<[name |-> "Off", value |-> 0], [name |-> "Off", value |-> 1]>>)
  IN  Dump(<<Package("P", <<derived, base>>, <<inner, Struct("Innermost", "P.Innermost", 4, <<Field("x", Word4, 0)>>)>>, <<mode>>),
             Package("Q", <<Struct("Actor", "Engine.Actor", 0, <<>>), other>>, <<>>, <<again>>)>>)

MCLeafOf ==
  ("P.Derived" :> "Derived") @@ ("P.Base" :> "Base") @@ ("P.Inner" :> "Inner") @@ ("P.Innermost" :> "Innermost")
  @@ ("Q.Base" :> "Base") @@ ("P.Mode" :> "Mode") @@ ("Q.EMode" :> "EMode") @@ ("Engine.Actor" :> "Actor")
  @@ ("X.Gone" :> "Gone") @@ ("Q.Mood" :> "Mood") @@ ("P-.Base" :> "Base") @@ ("P-.Derived" :> "Derived")
  @@ ("Q.User" :> "User")
MCStemOf ==
  [path \in DOMAIN MCLeafOf |-> CASE path \in {"Q.Base", "Q.EMode", "Q.Mood", "Q.User"} -> "Q" [] path = "Engine.Actor" -> "Engine"
                                          [] path = "X.Gone" -> "X" [] OTHER -> "P"]
  @@ ("P" :> "P") @@ ("P-" :> "P") @@ ("Q" :> "Q") @@ ("A.dll" :> "A") @@ ("B.dll" :> "B")
MCSanitized == "a.b" :> "a_b"
MCENames == {"EMode"}
MCMangled == "" :> ""
MCAlphabetical ==
  <<"FName", "FString", "ZTArray_24", "ZTArray_EMode", "ZTArray_FInner", "ZTArray_UBase_Ptr", "ZTArray_void_Ptr", "ZTArray_unsigned2",
    "ZTWeakObjectPtr_8">>
MCCarries == {}

Disassembled ==
  {Worked(members, inherited, sizes) : members \in Members, inherited \in {16, 8}, sizes \in {24}}

(* For a type checker: the same, with another name for the second enum, and a *)
(* module of two packages that both want a name.                              *)
Checked(dump) == [dump EXCEPT !.packages[2].enums = <<[@[1] EXCEPT !.path = "Q.Mood", !.name = "Mood"]>>]

OneModule ==
  Dump(<<Package("P", <<Struct("Base", "P.Base", 8, <<Field("in", To("P-.Base"), 0), Field("in_", Word4, 4)>>)>>, <<>>, <<>>),
         Package("P-", <<Struct("Base", "P-.Base", 8, <<Field("to", To("P.Base"), 0)>>),
                         Derive(Struct("Derived", "P-.Derived", 16, <<Field("all", ArrayOf(To("P-.Base")), 8)>>), "P-.Base", 8)>>,
                 <<>>, <<>>),
         Package("Q", <<Derive(Struct("User", "Q.User", 16, <<Field("to", To("P-.Derived"), 0), Field("mode", Wide, 8)>>), "P.Base", 8)>>, <<>>,
                 <<Enum("Mood", "Q.Mood", <<[name |-> "Off", value |-> 0], [name |-> "Off", value |-> 1]>>)>>)>>)

TypeChecked == {Checked(Worked(members, 16, 24)) : members \in Members} \cup {OneModule}

(* For tools that read assets: members of several elements and of types of    *)
(* types, types only the engine names, more values and names longer than fit. *)
Deep == ArrayOf(ArrayOf(ArrayOf(Word4)))
Raw(raw) == [Type("Unknown", "", 4, <<>>) EXCEPT !.raw = raw]

Serialized ==
  { <<Field("a", Word4, 0), Field("b", Wide, 4)>>,
    <<Many(Field("a", Inner, 0), 2), Field("b", Raw("AnsiStrProperty"), 16), Many(Field("a", Float4, 24), 3), Field("c", Byte, 40)>>,
    <<Field("map", Type("Map", "", 80, <<Inner, To("P.Base")>>), 0), Field("map2", Type("Map", "", 80, <<Wide>>), 80)>>,
    <<Field("deep", Deep, 0), Field("deeper", ArrayOf(Deep), 16), Field("none", Raw("Odd"), 32)>>,
    <<Field("a_name_too_long", [Wide EXCEPT !.params = <<Byte>>], 0),
      Field("set", Type("Set", "", 80, <<Type("Optional", "", 8, <<Type("Name", "", 8, <<>>)>>)>>), 8)>> }

Mapped(members, super) ==
  Dump(<<Package("P", <<Derive(Struct("Derived", "P.Derived", 96, members), super, 0), Struct("Base", "P.Base", 8, <<>>)>>,
                 <<Struct("Inner", "P.Inner", 8, members)>>,
                 <<Enum("Mode", "P.Mode", <<[name |-> "On", value |-> 1], [name |-> "a_name_too_long", value |-> 300],
                                            [name |-> "Off", value |-> 0], [name |-> "On", value |-> 3]>>)>>),
         Package("Q", <<>>, <<>>, <<Enum("Mood", "Q.Mood", <<>>)>>)>>)

(* In a game: members of one and of several bytes, flags that share one, what *)
(* is of an enum; names that are declared again; text that must be quoted.    *)
Name2 == Type("Enum", "P.Mode", 1, <<>>)

Touched ==
  LET base == Struct("Base", "P.Base", 8, <<Field("n", Byte, 1), Bit("on", 2, 0), Bit("off", 2, 3),
                                            [Field("mode", Name2, 3) EXCEPT !.default_value = "quoted"], Field("set", Flag, 4)>>)
      derived == Derive(Struct("Derived", "P.Derived", 16, <<Field("slashed", Word4, 8), Field("set", Type("UInt16", "", 2, <<>>), 12),
                                                             Field("inner", Inner, 8)>>), "P.Base", 8)
      mode == Enum("Mode", "P.Mode", <<[name |-> "On", value |-> 1], [name |-> "Off", value |-> 30]>>)
  IN  Dump(<<Package("P", <<derived, base>>, <<>>, <<mode>>)>>)

MCAgents ==
  LET memory(n) == [o \in 0..15 |-> IF n = 0 THEN 0 ELSE (16 * o) + (IF n = 1 THEN 15 ELSE o)]
      Agent(path, name, values) ==
        {[path |-> path, name |-> name, value |-> v, memory |-> memory(n)] : v \in values, n \in 0..2}
  IN  UNION {Agent(path, "on", BOOLEAN) \cup Agent(path, "off", BOOLEAN) \cup Agent(path, "mode", {"On", "Off", "Gone"})
             : path \in {"Derived", "P.Base"}}
      \cup Agent("P.Base", "set", BOOLEAN) \cup Agent("P.Derived", "set", {0, 7, -1})
      \cup Agent("P.Derived", "slashed", {7, -1}) \cup Agent("Derived", "inner", {7})

(* Sources: types in types, types of the same name in other namespaces,       *)
(* assemblies and packages, and ones that differ in what a file name cannot   *)
(* have; fields with and without offsets.                                     *)
Typed(path, name_space, fields) == [Struct("", path, 16, fields) EXCEPT !.name_space = name_space]

Coded(kind) ==
  LET fields == <<Field("a", Word4, 16), [Field("b", Word4, 0) EXCEPT !.is_static = TRUE],
                  [Field("in", [To("N.T, A") EXCEPT !.kind = "Array", !.params = <<To("N.T, A")>>], 0) EXCEPT !.offset_unresolved = TRUE],
                  [Field("boxed", [Raw("System.Int32") EXCEPT !.kind = "Interface"], 4) EXCEPT !.boxed_offset = 20],
                  Field("said", Raw("a sentence"), 8), [Bit("on", 12, 3) EXCEPT !.type = Raw("Odd")],
                  Field("all", To("N.L#1 of Int32[], A"), 24)>>
      method == [Function(".ctor", <<Param("of", To("System.Int32"), 0), [Param("", To("N.T, A"), 0) EXCEPT !.is_return = TRUE]>>)
                   EXCEPT !.native_rva = 4]
      types  == <<[Typed("N.T, A", "N", fields) EXCEPT !.functions = <<method, [method EXCEPT !.name = "Run"]>>],
                  [Typed("N.T.In, A", "N", fields) EXCEPT !.super = "N.T, A"],
                  [Typed("N.T.In.Most, A", "N", <<>>) EXCEPT !.is_interface = TRUE, !.accessors = Accessors],
                  Typed("T, A", "", fields), [Typed("N.T#1, A", "N", <<>>) EXCEPT !.is_abstract = TRUE],
                  [Typed("N.T_T, A", "N", fields) EXCEPT !.super = "N.L#1 of Int32, A"],
                  [Typed("M.T.In, A", "M", fields) EXCEPT !.is_valuetype = TRUE, !.super = "System.ValueType"]>>
      other  == <<Typed("N.T, B", "N", <<>>), Typed("N.T", "N", fields), Typed("N.U", "N", <<>>), Typed("N.U, B*", "N", fields),
                  Typed("N.U, B_", "N", fields)>>
  IN  [Dump(<<[Package("A.dll", types, <<>>, <<Enum("", "N.T.Kind, A", <<[name |-> "On", value |-> 1]>>),
                                               Enum("", "Mode, A", <<>>)>>) EXCEPT !.mvid = ""],
              Package("B.dll", other, <<Typed("S, A", "", fields)>>, <<>>)>>)
         EXCEPT !.header.runtime = "mono", !.header.source.kind = kind]

MCPartsOf ==
  ("N.T, A" :> <<"N", "T">>) @@ ("N.T.In, A" :> <<"N", "T", "In">>) @@ ("N.T.In.Most, A" :> <<"N", "T", "In", "Most">>)
  @@ ("T, A" :> <<"T">>) @@ ("N.T#1, A" :> <<"N", "T#1">>) @@ ("M.T.In, A" :> <<"M", "T", "In">>)
  @@ ("N.T, B" :> <<"N", "T">>) @@ ("N.T" :> <<"N", "T">>) @@ ("N.U" :> <<"N", "U">>) @@ ("S, A" :> <<"S">>)
  @@ ("N.T.Kind, A" :> <<"N", "T", "Kind">>) @@ ("Mode, A" :> <<"Mode">>) @@ ("N" :> <<"N">>) @@ ("M" :> <<"M">>)
  @@ ("System.ValueType" :> <<"System", "ValueType">>) @@ ("System.Int32" :> <<"System", "Int32">>)
  @@ ("N.T_T, A" :> <<"N", "T_T">>) @@ ("N.L#1 of Int32, A" :> <<"N", "L#1 of Int32">>)
  @@ ("N.U, B*" :> <<"N", "U">>) @@ ("N.U, B_" :> <<"N", "U">>)
MCAssemblyOf ==
  [path \in DOMAIN MCPartsOf |->
     CASE path \in {"N.T", "N.U", "System.Int32", "System.ValueType"} -> "" [] path = "N.T, B" -> "B"
       [] path = "N.U, B*" -> "B*" [] path = "N.U, B_" -> "B_" [] OTHER -> "A"]
MCElementPath == "N.L#1 of Int32[], A" :> "N.L#1 of Int32, A"
MCParameters == ("T#1" :> [of |-> "T", with |-> "<T>"]) @@ ("L#1 of Int32" :> [of |-> "L", with |-> "<System.Int32>"])
MCSentences == {"a sentence"}
MCCsNames == ("in" :> "@in") @@ ("" :> "_unnamed")
MCFileStems == ("T<T>" :> "T_T") @@ ("L<System.Int32>" :> "L_System.Int32")
MCFolderNames == "B*" :> "B_"
MCFolded == "t" :> "T"
MCPyNames == ("a.b" :> "a_b") @@ ("in" :> "in_") @@ ("" :> "_")
MCTruncated == "a_name_too_long" :> "a_name_too"
MCStemOfProcess == "x" :> "x"

MCCases ==
  {[job |-> "save", dump |-> d, accepted |-> {}] : d \in Files}
  \cup {[job |-> "disassemble", dump |-> d, accepted |-> a] : d \in Disassembled, a \in {{"P"}, {"Q"}, {"P", "Q"}}}
  \cup {[job |-> "check types", dump |-> d, accepted |-> a] : d \in TypeChecked, a \in {{"P", "P-"}, {"Q"}, {"P", "P-", "Q"}}}
  \cup {[job |-> "read assets", dump |-> Mapped(members, super), accepted |-> a] :
           members \in Serialized, super \in {"", "P.Base", "X.Gone"}, a \in {{"P"}, {"P", "Q"}}}
  \cup {[job |-> "touch", dump |-> Touched, accepted |-> {"P"}]}
  \cup {[job |-> "read code", dump |-> Coded(kind), accepted |-> a] : kind \in {"", "static"}, a \in {{"A.dll"}, {"B.dll"}, {"A.dll", "B.dll"}}}
MCNumbers == -1..9
MCKinds == {"Unknown", "Int", "Bool", "Array", "Struct"}
=============================================================================
