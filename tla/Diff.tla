-------------------------------- MODULE Diff --------------------------------
(* Comparing two dumps: diff/src/Diff.cpp, and the verdict CommandDiff makes  *)
(* of the result.                                                             *)
(*                                                                            *)
(* A dump is a record of the model (ir/Model.h) reduced to what is compared:  *)
(* its engine version, its derived offsets and the set of its types and       *)
(* enums, each with its path, which is its identity.  The words of a report   *)
(* are left out; a change is its kind, severity, type and member.             *)
EXTENDS Model, Integers, FiniteSets, SequencesExt

(* Severity, least first.                                                     *)
Info     == 0
Low      == 1
Medium   == 2
High     == 3
Critical == 4

Additions == {"package_added", "type_added", "property_added", "function_added",
              "enum_added", "enum_value_added"}

DefaultSeverity(kind) ==
  CASE kind \in {"property_moved", "property_resized", "property_type_changed",
                 "property_bit_moved", "property_removed", "type_removed",
                 "function_removed"} -> Critical
    [] kind \in {"type_resized", "type_super_changed", "function_moved",
                 "function_signature_changed", "enum_value_changed",
                 "enum_value_removed", "package_removed", "enum_removed"} -> High
    [] kind \in {"type_realigned", "property_renamed", "engine_version_changed",
                 "layout_offset_changed"} -> Medium
    [] kind \in {"property_flags_changed", "function_flags_changed",
                 "property_default_changed"} -> Low
    [] kind \in Additions -> Info

Change(kind, path, member) ==
  [kind |-> kind, severity |-> DefaultSeverity(kind), path |-> path, member |-> member]

If(test, kind, path, member) == IF test THEN <<Change(kind, path, member)>> ELSE <<>>

(* What a report keeps of what is found: nothing under the minimum, and       *)
(* additions only when they are asked for.                                    *)
Kept(change, options) ==
  /\ change.severity >= options.minimum
  /\ options.additions \/ change.kind \notin Additions

-----------------------------------------------------------------------------
(* Members.  Names are not unique within a type, so members are paired by     *)
(* name and occurrence: the second x of the one with the second x of the      *)
(* other.                                                                     *)
Occurrence(list, i) == Cardinality({j \in 1..i : list[j].name = list[i].name})

Partners(list, i, other) ==
  {j \in DOMAIN other : /\ other[j].name = list[i].name
                        /\ Occurrence(other, j) = Occurrence(list, i)}

Alone(list, other) ==
  LET Unpaired(i) == Partners(list, i, other) = {}
      indices     == SelectSeq([i \in DOMAIN list |-> i], Unpaired)
  IN  [k \in DOMAIN indices |-> list[indices[k]]]

Pairs(list, other) ==
  LET Paired(i)  == Partners(list, i, other) # {}
      indices    == SelectSeq([i \in DOMAIN list |-> i], Paired)
      Partner(i) == CHOOSE j \in Partners(list, i, other) : TRUE
  IN  [k \in DOMAIN indices |-> <<list[indices[k]], other[Partner(indices[k])]>>]

(* A type is compared by what it prints as, with what it is made of, and by   *)
(* its size, never by the engine's own word for it.                           *)
Signature(type) == <<type.kind, type.names, type.params, type.size>>

(* Mutant: a bit that moves within its byte goes unseen.                      *)
OffsetChanges(path, was, now) ==
  If(was.offset # now.offset, "property_moved", path, was.name)
  \o If(was.size # now.size, "property_resized", path, was.name)
  \o If(Signature(was.type) # Signature(now.type), "property_type_changed", path, was.name)

(* bit is 0 for a member that is not a bool packed into a byte; a default is  *)
(* "" when the dump was taken without them.                                   *)
PropertyChanges(path, was, now) ==
  If(was.offset # now.offset, "property_moved", path, was.name)
  \o If(was.size # now.size, "property_resized", path, was.name)
  \o If(Signature(was.type) # Signature(now.type), "property_type_changed", path, was.name)
  \o If(was.bit # 0 /\ now.bit # 0 /\ was.bit # now.bit, "property_bit_moved", path, was.name)
  \o If(was.flags # now.flags, "property_flags_changed", path, was.name)
  \o If(was.default # "" /\ now.default # "" /\ was.default # now.default,
        "property_default_changed", path, was.name)

(* One that is gone is taken for renamed when a new one is where it was with  *)
(* its type: the first such that has not been taken for another.              *)
Stands(gone, fresh) ==
  fresh.offset = gone.offset /\ Signature(fresh.type) = Signature(gone.type)

(* Mutant: one new member may stand for several that are gone.                *)
RenamesShared(path, removed, added) ==
  LET fits(gone)   == {k \in DOMAIN added : Stands(gone, added[k])}
      kind(gone)   == IF fits(gone) = {} THEN "property_removed" ELSE "property_renamed"
  IN  [taken   |-> UNION {fits(gone) : gone \in ToSet(removed)},
       changes |-> [k \in DOMAIN removed |-> Change(kind(removed[k]), path, removed[k].name)]]

Renames(path, removed, added) ==
  LET Match(found, gone) ==
        LET fits == {k \in DOMAIN added \ found.taken : Stands(gone, added[k])}
        IN  IF fits = {}
              THEN [found EXCEPT !.changes = Append(@, Change("property_removed", path, gone.name))]
              ELSE [taken   |-> found.taken \cup {Min(fits)},
                    changes |-> Append(found.changes, Change("property_renamed", path, gone.name))]
  IN  FoldLeft(Match, [taken |-> {}, changes |-> <<>>], removed)

DiffProperties(path, before, after) ==
  LET pairs   == Pairs(before, after)
      added   == Alone(after, before)
      renames == Renames(path, Alone(before, after), added)
      New(k)  == If(k \notin renames.taken, "property_added", path, added[k].name)
  IN  FlattenSeq([k \in DOMAIN pairs |-> PropertyChanges(path, pairs[k][1], pairs[k][2])])
      \o renames.changes
      \o FlattenSeq([k \in DOMAIN added |-> New(k)])

(* An address is compared when both dumps have one.                           *)
FunctionChanges(path, was, now) ==
  If(was.signature # now.signature, "function_signature_changed", path, was.name)
  \o If(was.native # 0 /\ now.native # 0 /\ was.native # now.native,
        "function_moved", path, was.name)
  \o If(was.flags # now.flags, "function_flags_changed", path, was.name)

DiffFunctions(path, before, after) ==
  LET pairs == Pairs(before, after)
      gone  == Alone(before, after)
      fresh == Alone(after, before)
  IN  FlattenSeq([k \in DOMAIN pairs |-> FunctionChanges(path, pairs[k][1], pairs[k][2])])
      \o [k \in DOMAIN gone  |-> Change("function_removed", path, gone[k].name)]
      \o [k \in DOMAIN fresh |-> Change("function_added", path, fresh[k].name)]

DiffEnum(path, before, after) ==
  SetToSeq({Change("enum_value_removed", path, v) : v \in DOMAIN before \ DOMAIN after}
           \cup {Change("enum_value_changed", path, v) :
                   v \in {v \in DOMAIN before \cap DOMAIN after : before[v] # after[v]}}
           \cup {Change("enum_value_added", path, v) : v \in DOMAIN after \ DOMAIN before})

-----------------------------------------------------------------------------
(* Whole dumps.  A package filter leaves out what is in no package that       *)
(* matches it.                                                                *)
Indexed(dump, options) == {r \in dump.records : r.pkg \in options.packages}
Packages(index)        == {r.pkg : r \in index}

DiffType(was, now) ==
  If(was.size # now.size, "type_resized", was.path, "")
  \o If(was.alignment # now.alignment, "type_realigned", was.path, "")
  \o If(was.super # now.super, "type_super_changed", was.path, "")
  \o DiffProperties(was.path, was.fields, now.fields)
  \o DiffFunctions(was.path, was.methods, now.methods)

DiffHeader(before, after) ==
  If(before.engine # after.engine, "engine_version_changed", "<engine>", "")
  \o SetToSeq({Change("layout_offset_changed", "<layout>", o) :
                 o \in {o \in DOMAIN before.offsets \cap DOMAIN after.offsets :
                          before.offsets[o] # after.offsets[o]}})

Found(before, after, options) ==
  LET was    == Indexed(before, options)
      now    == Indexed(after, options)
      All(kind, paths) == SetToSeq({Change(kind, p, "") : p \in paths})
      In(was1, now1, Compare(_, _)) ==
        LET shared == SetToSeq(PathsIn(was1) \cap PathsIn(now1))
        IN  FlattenSeq([i \in DOMAIN shared |-> Compare(Record(was1, shared[i]), Record(now1, shared[i]))])
      Values(e, f) == DiffEnum(e.path, e.values, f.values)
  IN  DiffHeader(before, after)
      \o All("package_removed", Packages(was) \ Packages(now))
      \o All("package_added", Packages(now) \ Packages(was))
      \o All("type_removed", PathsIn(Structs(was)) \ PathsIn(Structs(now)))
      \o In(Structs(was), Structs(now), DiffType)
      \o All("type_added", PathsIn(Structs(now)) \ PathsIn(Structs(was)))
      \o All("enum_removed", PathsIn(Enums(was)) \ PathsIn(Enums(now)))
      \o In(Enums(was), Enums(now), Values)
      \o All("enum_added", PathsIn(Enums(now)) \ PathsIn(Enums(was)))

(* Most severe first.                                                         *)
Sorted(changes) ==
  LET Of(severity) == SelectSeq(changes, LAMBDA c : c.severity = severity)
  IN  Of(Critical) \o Of(High) \o Of(Medium) \o Of(Low) \o Of(Info)

Diff(before, after, options) ==
  Sorted(SelectSeq(Found(before, after, options), LAMBDA c : Kept(c, options)))

HasBreakingChanges(changes) == \E i \in DOMAIN changes : changes[i].severity >= High

(* CommandDiff: --breaking asks for what breaks and nothing else.             *)
CommandOptions(breaking, packages) ==
  [minimum   |-> IF breaking THEN High ELSE Info,
   additions |-> ~breaking,
   packages  |-> packages]

ExitCode(changes) == IF HasBreakingChanges(changes) THEN 8 ELSE 0
=============================================================================
