-------------------------------- MODULE Names -------------------------------
(* The names emitters make of a dump: emit/src/Util.cpp.  A path is the       *)
(* package of a type and its leaf; what characters do to an identifier is in  *)
(* Sanitized, which says how names that are not identifiers come out.         *)
EXTENDS Integers, SequencesExt, TLC

CONSTANTS
  LeafOf,       \* the last part of each path
  StemOf,       \* the file name made of the package of each path
  Sanitized     \* what is left of a name that is not an identifier

SanitizeIdentifier(name) == IF name \in DOMAIN Sanitized THEN Sanitized[name] ELSE name
LeafName(path)           == IF path \in DOMAIN LeafOf THEN LeafOf[path] ELSE path
PackageFileStem(path)    == IF path \in DOMAIN StemOf THEN StemOf[path] ELSE path

(* A name that is taken gets the first number, from a given one on, that      *)
(* makes it another.                                                          *)
Numbered(name, first, taken) ==
  LET Candidate(n) == name \o "_" \o ToString(n)
  IN  IF name \notin taken THEN name
      ELSE Candidate(Min({n \in first..first + Cardinality(taken) : Candidate(n) \notin taken}))

(* The values of a function, computed once.                                   *)
Tabled(f) == f @@ <<>>

(* The types of the packages asked for: in the order of the dump, the classes *)
(* of a package before its structs.  The first of a path is the one that it   *)
(* names.                                                                     *)
Accepted(dump, accepted) == SelectSeq(dump.packages, LAMBDA p : p.name \in accepted)

TypesOf(dump, accepted) ==
  LET packages    == Accepted(dump, accepted)
      Of(is, p, s) == [i \in DOMAIN s |-> [is_class |-> is, package |-> p.name] @@ s[i]]
  IN  FlattenSeq([k \in DOMAIN packages |-> LET p == packages[k]
                                            IN  Of(TRUE, p, p.classes) \o Of(FALSE, p, p.structs)])

EnumsOf(dump, accepted) ==
  LET packages == Accepted(dump, accepted) IN FlattenSeq([k \in DOMAIN packages |-> packages[k].enums])

FirstOf(records, path) == records[Min({i \in DOMAIN records : records[i].path = path})]
PathsOf(records)       == {records[i].path : i \in DOMAIN records}
=============================================================================
