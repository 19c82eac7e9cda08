-------------------------------- MODULE Lint --------------------------------
(* Whether what is in a dump makes sense: ir/src/Lint.cpp.                    *)
(*                                                                            *)
(* A finding is its severity, the check and the path of the type; where in    *)
(* the type and the words are left out.  So are the checks of what a dump of  *)
(* this model cannot have: members, packages or paths without a name, arrays, *)
(* masks of no bit, parameters, decompiled scripts and interfaces.            *)
EXTENDS Model, Integers, FiniteSets, SequencesExt

Finding(severity, check, path) == [severity |-> severity, check |-> check, path |-> path]

(* The findings of one severity whose checks, listed with what they hold on,  *)
(* hold.                                                                      *)
Reported(severity, path, checks) ==
  {Finding(severity, c[2], path) : c \in {c \in checks : c[1]}}

-----------------------------------------------------------------------------
(* Widths are those of an underlying type, and a name that is none of them    *)
(* reads as a byte, signed when it begins with an i.                          *)
Bits(underlying) ==
  CASE underlying \in {"int16", "uint16"} -> 16
    [] underlying \in {"int32", "uint32"} -> 32
    [] underlying \in {"int64", "uint64"} -> 64
    [] OTHER -> 8

Signed(underlying) == underlying \in {"int8", "int16", "int32", "int64"}

FitsUnderlying(underlying, value) ==
  LET bits == Bits(underlying)
  IN  \/ bits = 64
      \/ Signed(underlying) /\ -(2 ^ (bits - 1)) <= value /\ value < 2 ^ (bits - 1)
      \/ ~Signed(underlying) /\ 0 <= value /\ value < 2 ^ bits

CheckEnum(record) ==
  Reported("error", record.path,
    {<<~FitsUnderlying(record.underlying, record.values[v]), "enum-underlying-narrow">> :
       v \in DOMAIN record.values})

-----------------------------------------------------------------------------
(* Only members that are in an instance, at an offset that is known, take     *)
(* part in the checks of the layout.                                          *)
InLayout(field) == ~field.static /\ ~field.unresolved

Overruns(record, field) ==
  InLayout(field) /\ record.size > 0 /\ field.size > 0 /\ field.offset + field.size > record.size

CheckMember(record, field, types, enums) ==
  Reported("error", record.path,
    { <<field.offset < 0 /\ ~field.unresolved, "negative-offset">>,
      <<field.size < 0, "negative-size">>,
      <<Overruns(record, field), "member-overruns-type">> })
  \cup Reported("warning", record.path,
    { <<field.size > 0 /\ field.type.size > 0 /\ field.type.size # field.size,
        "size-disagrees-with-type">>,
      <<field.type.names \notin ({""} \cup IF field.type.kind = "enum" THEN enums ELSE types),
        "dangling-type-ref">> })

(* Mutant: as declared, so that neighbours need not be neighbours in memory.  *)
AsDeclared(record) == SelectSeq(record.fields, InLayout)

(* The members in the layout by offset, declaration order among equals.       *)
Ordered(record) ==
  LET Before(i, j) == \/ record.fields[i].offset < record.fields[j].offset
                      \/ record.fields[i].offset = record.fields[j].offset /\ i < j
      indices == SetToSortSeq({i \in DOMAIN record.fields : InLayout(record.fields[i])}, Before)
  IN  [k \in DOMAIN indices |-> record.fields[indices[k]]]

(* One comparison against the member before.  Two packed bools may share a    *)
(* byte, each with a bit of its own.  In a type that places its own members   *)
(* anything may.                                                              *)
Overlaps(previous, current) ==
  LET same   == previous.offset = current.offset
      packed == previous.bit # 0 /\ current.bit # 0
  IN  IF previous.size <= 0 \/ current.size <= 0 THEN {}
      ELSE { <<same /\ packed /\ previous.bit = current.bit, "bitfield-mask-clash">>,
             <<same /\ ~packed, "shared-offset">>,
             <<~same /\ current.offset < previous.offset + previous.size, "property-overlap">> }

CheckLayout(record) ==
  LET ordered == Ordered(record)
  IN  IF record.explicit THEN {} ELSE Reported("error", record.path,
        UNION {Overlaps(ordered[i - 1], ordered[i]) : i \in 2..Len(ordered)})

CheckStruct(record, structs, enums) ==
  LET fields == ToSet(record.fields)
      types  == PathsIn(structs)
      bases  == {r \in structs : r.path = record.super}
  IN  Reported("error", record.path,
        { <<record.inherited > record.size /\ record.size > 0, "inherited-exceeds-size">>,
          <<record.size <= 0 /\ (\E f \in fields : InLayout(f)), "zero-size-with-members">>,
          <<record.super = record.path, "self-inheritance">> })
      \cup Reported("warning", record.path,
        { <<record.super # "" /\ record.super \notin types, "dangling-super">>,
          <<record.inherited > 0 /\ (\E base \in bases : base.size # record.inherited),
            "inherited-size-mismatch">>,
          <<\E i, j \in DOMAIN record.fields :
              i # j /\ record.fields[i].name = record.fields[j].name, "duplicate-property">> })
      \cup UNION {CheckMember(record, f, types, enums) : f \in fields}
      \cup CheckLayout(record)

-----------------------------------------------------------------------------
(* Two types, or two enums, of one path: a type and an enum are not compared. *)
DuplicatePaths(records) ==
  UNION {Reported("error", r.path,
           {<<\E s \in records : s # r /\ s.path = r.path /\ (s.kind = "enum") = (r.kind = "enum"),
              "duplicate-path">>}) : r \in records}

Lint(dump) ==
  LET structs == Structs(dump.records)
      enums   == Enums(dump.records)
  IN  DuplicatePaths(dump.records)
      \cup UNION {CheckEnum(r) : r \in enums}
      \cup UNION {CheckStruct(r, structs, PathsIn(enums)) : r \in structs}

Errors(findings) == {f \in findings : f.severity = "error"}
=============================================================================
