-------------------------------- MODULE Model -------------------------------
(* The records of a dump: ir/Model.h.  A record is a class, a script struct   *)
(* or an enum, and its path is its identity.                                  *)

Structs(records) == {r \in records : r.kind # "enum"}
Enums(records)   == {r \in records : r.kind = "enum"}
PathsIn(records) == {r.path : r \in records}
Record(records, path) == CHOOSE r \in records : r.path = path
=============================================================================
