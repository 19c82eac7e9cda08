-------------------------------- MODULE Merge -------------------------------
(* Dual mode: what the runtime said of a game and what its metadata says,     *)
(* made into one dump.  il2cpp/src/Static.cpp, mono/src/Static.cpp.           *)
EXTENDS Model, Integers, FiniteSets, SequencesExt

-----------------------------------------------------------------------------
(* IL2CPP.  A type both sides have keeps what the runtime said, takes the     *)
(* metadata's token when it has none, and gets the members only the metadata  *)
(* declares, with no offset.                                                  *)
OnlyDeclared(record, other) ==
  SelectSeq(other.fields, LAMBDA f : \A g \in ToSet(record.fields) : g.name # f.name)

WithoutOffset(fields) == [i \in DOMAIN fields |-> [fields[i] EXCEPT !.unresolved = TRUE]]

Corroborated(record, other) ==
  [record EXCEPT !.source = "both",
                 !.token  = IF @ = 0 THEN other.token ELSE @,
                 !.fields = @ \o WithoutOffset(OnlyDeclared(record, other))]

Disagreements(record, other) ==
  {[path |-> record.path, member |-> "", field |-> "token"] :
     t \in {t \in {record.token} : t # 0 /\ other.token \notin {0, t}}}
  \cup {[path |-> record.path, member |-> f.name, field |-> "field"] :
          f \in ToSet(OnlyDeclared(record, other))}

(* Pass one.  An enum is not looked up and stays as it is.                    *)
Filled(record, meta) ==
  IF record.kind = "enum" THEN record
  ELSE IF record.path \in PathsIn(Structs(meta))
    THEN Corroborated(record, Record(Structs(meta), record.path))
    ELSE [record EXCEPT !.source = "live"]

(* Pass two: what the runtime never built.  Whatever the live side already    *)
(* has at a path, an enum included, keeps the metadata's class off it.        *)
NeverBuilt(live, meta) ==
  {[r EXCEPT !.source = "static"] : r \in {r \in meta : r.kind = "class" /\ r.path \notin PathsIn(live)}}

MergeIl2Cpp(live, meta) ==
  [live EXCEPT
     !.sources   = {"live", "static"},
     !.engine    = IF @ = "" THEN meta.engine ELSE @,
     !.conflicts = UNION {Disagreements(r, Record(Structs(meta.records), r.path)) :
                            r \in {r \in Structs(live.records) :
                                     r.path \in PathsIn(Structs(meta.records))}},
     !.records   = {Filled(r, meta.records) : r \in live.records}
                     \cup NeverBuilt(live.records, meta.records)]

-----------------------------------------------------------------------------
(* Mono.  The runtime has no values for an enum: they come from the file, by  *)
(* name, and count as known only when every one was there.                    *)
EnumFilled(record, other) ==
  IF record.resolved \/ ~other.resolved THEN record
  ELSE [record EXCEPT
          !.values     = [v \in DOMAIN @ |-> IF v \in DOMAIN other.values THEN other.values[v] ELSE @[v]],
          !.resolved   = DOMAIN record.values # {} /\ DOMAIN record.values \subseteq DOMAIN other.values,
          !.underlying = IF other.underlying # "" THEN other.underlying ELSE @]

(* Mutant: overloads all get the body of the first of them.                   *)
BodyByName(method, methods) ==
  LET named == {i \in DOMAIN methods : methods[i].name = method.name}
  IN  IF method.il # 0 \/ named = {} THEN method.il ELSE methods[Min(named)].il

(* Where a method's IL is comes from the method of its token, or else from    *)
(* the first of its name.                                                     *)
BodyOf(method, methods) ==
  LET named    == {i \in DOMAIN methods : methods[i].name = method.name}
      tokened  == {i \in DOMAIN methods : methods[i].token = method.token /\ method.token # 0}
      from     == IF tokened # {} THEN tokened ELSE named
  IN  IF method.il # 0 \/ from = {} THEN method.il ELSE methods[Min(from)].il

BodiesPlaced(record, other) ==
  [record EXCEPT
     !.source  = "both",
     !.methods = [i \in DOMAIN @ |-> [@[i] EXCEPT !.il = BodyOf(record.methods[i], other.methods)]]]

MonoFilled(record, meta) ==
  LET same == {r \in meta : r.path = record.path /\ (r.kind = "enum") = (record.kind = "enum")}
  IN  IF same = {} THEN IF record.kind = "enum" THEN record ELSE [record EXCEPT !.source = "live"]
      ELSE IF record.kind = "enum" THEN EnumFilled(record, Record(same, record.path))
      ELSE BodiesPlaced(record, Record(same, record.path))

(* Types and enums the file has and the runtime does not come over as they    *)
(* are.                                                                       *)
MergeMono(live, meta) ==
  [live EXCEPT
     !.sources = {"live", "static"},
     !.partial = FALSE,
     !.records = {MonoFilled(r, meta.records) : r \in live.records}
                   \cup {r \in meta.records : r.path \notin PathsIn(live.records)}]
=============================================================================
