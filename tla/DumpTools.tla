------------------------------ MODULE DumpTools -----------------------------
(* Dumps being taken of a game and compared: the readings of each runtime,    *)
(* their merge (Merge), the linter (Lint), the diff (Diff) and the C++        *)
(* headers (CppSdk), composed the way a user composes them: a dump and an SDK *)
(* of it; or a dump, perhaps a patch of the game, another dump, a comparison. *)
(*                                                                            *)
(* A build of a game is what is true of it: its types by path, with their     *)
(* members.  A reading reaches a part of the types, the ones a walk gets to:  *)
(* what the runtime never built and what is on the skip list it does not      *)
(* have, an instantiation only once something has used it.                    *)
EXTENDS Diff, Lint, Merge, CppSdk

CONSTANTS
  Builds,     \* the builds of all games; builds of one game can follow each other
  Breaking    \* whether comparisons are made with --breaking: a subset of BOOLEAN

ASSUME ConstantsAssumption == Builds # {} /\ Breaking \subseteq BOOLEAN

VARIABLES
  build,      \* the build that is installed
  dumps,      \* the dumps that have been taken, with how and of what
  report      \* what was made of them: a comparison, an SDK, or nothing yet

vars == <<build, dumps, report>>

Nothing == [compared |-> FALSE, emitted |-> FALSE]

MaxDumps == 2   \* bound: a comparison takes two

-----------------------------------------------------------------------------

(* What each reading has of a member.  A Unity runtime gives a negative       *)
(* offset to what has no place in an instance; the metadata has no offsets,   *)
(* sizes or types at all.                                                     *)
LiveField(runtime, f) ==
  IF runtime # "unreal" /\ f.offset < 0
    THEN [f EXCEPT !.offset = 0, !.unresolved = TRUE]
    ELSE f

InTheBinary == [kind |-> "unknown", size |-> 0, names |-> "", params |-> <<>>]

Declared(name) ==
  [name |-> name, offset |-> 0, size |-> 0, type |-> InTheBinary, bit |-> 0, flags |-> 0,
   default |-> "", static |-> FALSE, unresolved |-> TRUE]

LiveMethod(m) == [m EXCEPT !.il = 0]

StaticMethod(runtime, m) ==
  [m EXCEPT !.native = 0, !.signature = "", !.il = IF runtime = "mono" THEN @ ELSE 0]

(* The live walks.  Mono has no call that reads a constant.                   *)
LiveEnum(runtime, t) ==
  IF runtime = "mono"
    THEN [t EXCEPT !.resolved = FALSE, !.values = [v \in DOMAIN @ |-> 0]]
    ELSE t

LiveStruct(runtime, t) ==
  [t EXCEPT !.fields  = [i \in DOMAIN @ |-> LiveField(runtime, @[i])],
            !.methods = [i \in DOMAIN @ |-> LiveMethod(@[i])]]

Live(b, reached) ==
  [runtime |-> b.runtime, engine |-> b.engine, offsets |-> b.offsets, partial |-> FALSE,
   sources |-> {"live"}, conflicts |-> {},
   records |-> {IF t.kind = "enum" THEN LiveEnum(b.runtime, t) ELSE LiveStruct(b.runtime, t) :
                  t \in {t \in b.types : t.path \in reached}}]

(* The metadata.  IL2CPP's does not say which types are enums: they are all   *)
(* filed as classes, and an enum's constants are members like any other.      *)
StaticStruct(runtime, path, pkg, kind, token, names, methods) ==
  [path |-> path, pkg |-> pkg, kind |-> kind, source |-> "static", super |-> "", size |-> 0,
   alignment |-> 0, inherited |-> 0, explicit |-> FALSE, token |-> token,
   fields |-> [i \in DOMAIN names |-> Declared(names[i])],
   methods |-> [i \in DOMAIN methods |-> StaticMethod(runtime, methods[i])]]

StaticRecord(runtime, t) ==
  IF t.kind # "enum"
    THEN StaticStruct(runtime, t.path, t.pkg, IF runtime = "il2cpp" THEN "class" ELSE t.kind, t.token,
                      [i \in DOMAIN t.fields |-> t.fields[i].name], t.methods)
    ELSE IF runtime = "il2cpp"
      THEN StaticStruct(runtime, t.path, t.pkg, "class", t.token, SetToSeq(DOMAIN t.values), <<>>)
      ELSE t

Static(b) ==
  [runtime |-> b.runtime, engine |-> "", offsets |-> <<>>, partial |-> TRUE,
   sources |-> {"static"}, conflicts |-> {},
   records |-> {StaticRecord(b.runtime, t) : t \in {t \in b.types : t.path \in b.declared}}]

Dual(b, reached) ==
  IF b.runtime = "il2cpp" THEN MergeIl2Cpp(Live(b, reached), Static(b))
                          ELSE MergeMono(Live(b, reached), Static(b))

Reading(b, mode, reached) ==
  CASE mode = "live"   -> Live(b, reached)
    [] mode = "static" -> Static(b)
    [] mode = "dual"   -> Dual(b, reached)

-----------------------------------------------------------------------------
PathsOf(b) == {t.path : t \in b.types}

(* What a reading may reach: all of it, unless a Unity runtime is asked.      *)
Reaches(b, mode) ==
  IF b.runtime = "unreal" \/ mode = "static" THEN {PathsOf(b)} ELSE SUBSET PathsOf(b)

ModesOf(b) == IF b.runtime = "unreal" THEN {"live"} ELSE {"live", "static", "dual"}

Init ==
  /\ build \in Builds
  /\ dumps = <<>>
  /\ report = Nothing

Take(mode) ==
  /\ Len(dumps) < MaxDumps /\ report = Nothing
  /\ \E reached \in Reaches(build, mode) :
       dumps' = Append(dumps, [build |-> build, mode |-> mode, reached |-> reached,
                               dump |-> Reading(build, mode, reached)])
  /\ UNCHANGED <<build, report>>

(* Somebody updates the game between two dumps.                               *)
Patch ==
  /\ Len(dumps) = 1 /\ report = Nothing
  /\ build = dumps[1].build
  /\ \E b \in {b \in Builds : b.game = build.game} \ {build} : build' = b
  /\ UNCHANGED <<dumps, report>>

(* CommandDiff on the two, in the order they were taken.                      *)
Compare(breaking) ==
  /\ Len(dumps) = MaxDumps /\ report = Nothing
  /\ LET packages == {t.pkg : t \in dumps[1].build.types \cup dumps[2].build.types}
         changes  == Diff(dumps[1].dump, dumps[2].dump, CommandOptions(breaking, packages))
     IN  report' = [compared |-> TRUE, emitted |-> FALSE, breaking |-> breaking, changes |-> changes,
                    exit |-> ExitCode(changes)]
  /\ UNCHANGED <<build, dumps>>

(* The C++ headers of a dump, or of some packages of it.  In which order the  *)
(* walk found types and how packages sort are no property of the game.        *)
Emit ==
  /\ Len(dumps) = 1 /\ report = Nothing
  /\ LET records == dumps[1].dump.records
     IN  \E asked \in SUBSET {r.pkg : r \in records} :
           \E sequence \in SetToSeqs(records), packages \in SetToSeqs(asked) :
             report' = [compared |-> FALSE, emitted |-> TRUE, packages |-> asked,
                        files |-> EmitCppSdk(dumps[1].dump, sequence, packages)]
  /\ UNCHANGED <<build, dumps>>

Next ==
  \/ Emit
  \/ \E mode \in ModesOf(build) : Take(mode)
  \/ Patch
  \/ \E breaking \in Breaking : Compare(breaking)

Spec == Init /\ [][Next]_vars

-----------------------------------------------------------------------------

WasDump == dumps[1].dump
NowDump == dumps[2].dump
Told    == ToSet(report.changes)

(* Code that read a member where the first dump has it may go on doing so     *)
(* unless the report says otherwise: if it says of a type that is still there *)
(* nothing that breaks and names a member, then the second dump has a member  *)
(* of that type in that place, and a packed bool of that name in that bit.    *)
(* With --breaking no less than without.                                      *)
StillRead(f, g) ==
  /\ Stands(f, g)
  /\ (f.name = g.name /\ f.bit # 0 /\ g.bit # 0) => f.bit = g.bit

NothingMovedUnsaid ==
  report.compared =>
    \A r \in Structs(WasDump.records) :
      \/ \E c \in Told : c.kind = "type_removed" /\ c.path = r.path
      \/ \E s \in Structs(NowDump.records) :
           /\ s.path = r.path
           /\ \A i \in DOMAIN r.fields :
                \/ \E c \in Told : c.severity >= High /\ c.path = r.path /\ c.member = r.fields[i].name
                \/ \E j \in DOMAIN s.fields : StillRead(r.fields[i], s.fields[j])

(* A full report accounts for every member once: what a type has more or less *)
(* of is what was added less what was removed, and a rename is neither.       *)
Count(kind, path) ==
  Len(SelectSeq(report.changes, LAMBDA c : c.kind = kind /\ c.path = path))

MembersAddUp ==
  (report.compared /\ ~report.breaking) =>
    \A r \in Structs(WasDump.records), s \in Structs(NowDump.records) : r.path = s.path =>
      /\ Len(s.fields) - Len(r.fields)
           = Count("property_added", r.path) - Count("property_removed", r.path)
      /\ Len(s.methods) - Len(r.methods)
           = Count("function_added", r.path) - Count("function_removed", r.path)

(* Two readings of one build that reached the same are reported to be the     *)
(* same, members of one name and overloads included.                          *)
RereadIsQuiet ==
  (/\ report.compared
   /\ dumps[1].build = dumps[2].build
   /\ dumps[1].mode = dumps[2].mode /\ dumps[1].reached = dumps[2].reached)
    => report.changes = <<>>

(* A comparison reports what happened, and no more.                           *)
ReportAddsUp == MembersAddUp /\ RereadIsQuiet

(* However much a walk reached, a dual dump has each type of the build that   *)
(* was declared or reached, and it has it once.                               *)
DualHasEachOnce ==
  \A i \in DOMAIN dumps : dumps[i].mode = "dual" =>
    LET records == dumps[i].dump.records
    IN  /\ PathsIn(records) = dumps[i].build.declared \cup dumps[i].reached
        /\ \A r, s \in records : r.path = s.path => r = s

(* What a dual dump says for certain is so: offsets it calls resolved, values *)
(* of an enum it calls resolved, and what only the metadata can tell, tokens  *)
(* and where the IL of each overload is.                                      *)
TrueOf(r, t) ==
  IF r.kind = "enum" THEN r.resolved => r.values = t.values
  ELSE /\ r.token = t.token
       /\ \A k \in DOMAIN r.fields :
            \/ r.fields[k].unresolved
            \/ t.kind # "enum" /\ \E l \in DOMAIN t.fields :
                 t.fields[l].name = r.fields[k].name /\ t.fields[l].offset = r.fields[k].offset
       /\ \A k \in DOMAIN r.methods : \E l \in DOMAIN t.methods :
            t.methods[l].token = r.methods[k].token /\ t.methods[l].il = r.methods[k].il

DualTellsTruth ==
  \A i \in DOMAIN dumps : dumps[i].mode = "dual" =>
    \A r \in dumps[i].dump.records : TrueOf(r, Record(dumps[i].build.types, r.path))

(* Merging two readings neither loses nor doubles nor invents anything.       *)
DualIsTrue == DualHasEachOnce /\ DualTellsTruth

(* The linter rejects a dump exactly when a type of it could not be laid out  *)
(* the way it says: a member that runs out of the type, or two that share a   *)
(* byte without being bools of different bits or placed there explicitly.  It *)
(* looks at neighbours only; here every pair is looked at.                    *)
Bytes(f) == f.offset..(f.offset + f.size - 1)

Clash(f, g) ==
  /\ Bytes(f) \cap Bytes(g) # {}
  /\ ~(f.offset = g.offset /\ f.bit # 0 /\ g.bit # 0 /\ f.bit # g.bit)

Possible(r) ==
  \A i, j \in {i \in DOMAIN r.fields : InLayout(r.fields[i])} :
    /\ Bytes(r.fields[i]) \subseteq 0..(r.size - 1)
    /\ (i # j /\ ~r.explicit) => ~Clash(r.fields[i], r.fields[j])

LintTellsLayout ==
  \A i \in DOMAIN dumps :
    (Errors(Lint(dumps[i].dump)) = {}) = (\A r \in Structs(dumps[i].dump.records) : Possible(r))

(* The headers compile, all of them from SDK.hpp and each one included alone: *)
(* every type asked for is defined, once, and what it names is complete or    *)
(* declared by then.                                                          *)
Index == IndexOf(dumps[1].dump, report.packages)
Asked == Index.records

Units == {SetToSeq(DOMAIN report.files)} \cup {<<stem>> : stem \in DOMAIN report.files}

Written == report.emitted /\ report.files # <<>>

SdkCompiles ==
  Written =>
    /\ \A unit \in Units : Compile(Index, report.files, unit).errors = {}
    /\ DOMAIN Compile(Index, report.files, SetToSeq(DOMAIN report.files)).sizes = PathsIn(Asked)

(* Of a dump the linter accepts, the SDK lays every type out as the engine    *)
(* does: its size, and every member and packed bool of it where it is.        *)
BitPlaces(bits) ==
  [k \in DOMAIN bits |-> WidthOf(SubSeq(bits, 1, k - 1))]

LiesAt(layout, f) ==
  \E k \in DOMAIN layout.members :
    LET m == layout.members[k]
    IN  /\ layout.places[k] = f.offset
        /\ \/ m.is = "member" /\ m.field = f
           \/ m.is = "bits" /\ \E b \in DOMAIN m.bits :
                m.bits[b].name = f.name /\ BitPlaces(m.bits)[b] = f.bit - 1

SdkLaysOut ==
  (Written /\ Errors(Lint(dumps[1].dump)) = {}) =>
    LET unit == Compile(Index, report.files, SetToSeq(DOMAIN report.files))
    IN  \A r \in {r \in Structs(Asked) : r.path \in DOMAIN unit.layouts} :
          /\ r.size > 0 => unit.sizes[r.path] = r.size
          /\ \A f \in ToSet(r.fields) : LiesAt(unit.layouts[r.path], f)

(* A call of a wrapper calls what it says: the method its class declares,     *)
(* with each argument where the callee reads it and each result where it      *)
(* comes back; as long as no two methods of the class are spelled the same.   *)
ReachesParameter(method, block, layout, i) ==
  \E k \in DOMAIN block :
    /\ block[k].is = "member" /\ block[k].param = i
    /\ block[k].name = BodyNames(method)[i]
    /\ layout.places[k] = method.params[i].offset

BlocksApart(r) ==
  IsInjective([k \in DOMAIN Wrapped(Index, r) |-> ParamsStructName(r, Wrapped(Index, r)[k])])

WrappersReach ==
  (Written /\ SdkCompiles) =>
    LET unit == Compile(Index, report.files, SetToSeq(DOMAIN report.files))
    IN  \A r \in {r \in Structs(Asked) : BlocksApart(r)} :
          /\ EmitStruct(Index, r).declares = BodiesOf(Index, r)
          /\ \A method \in ToSet(Wrapped(Index, r)) :
               LET block  == ParameterBlock(Index, method)
                   layout == Layout(Index, unit.sizes, [base |-> "", members |-> block])
               IN  \A i \in DOMAIN method.params : ReachesParameter(method, block, layout, i)
=============================================================================
