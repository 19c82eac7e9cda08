# Zircon: specifications

TLA+ models of Zircon, the game-reflection dumper in `src/` (program code in
`src/src/`, about 41,000 lines of C++), with the TLC configurations that check
them on small instances and proofs that hold for every instance.

Paths below are relative to `src/src/` unless they start with `src/`.

- [The system](#the-system): its parts, their state, how they interact
- [What is modelled](#what-is-modelled): each module against the code
- [What is checked](#what-is-checked): the runs, their bounds, the fairness
- [What is proved](#what-is-proved)
- [What does not hold](#what-does-not-hold)
- [What is not modelled](#what-is-not-modelled) and [the plan](#the-plan)

To check: `tlc -config CrashResume.cfg MCCrashResume` and so on, the pairs
being in the table of runs; to prove: `tlapm CrashResumeProofs.tla` and so on
for each module whose name ends in `Proofs`.

## The system

Zircon finds out what classes, structs and functions a game has, by reading the
reflection data of its engine (Unreal, Unity IL2CPP, Unity Mono), and emits
it as JSON, headers, disassembler scripts and so on.  It works in three ways:
from outside the process, from a memory dump or from the files on disk, and
from inside, by a payload DLL that is injected into the game.

| Part | Code | State it keeps | Operations | Interacts with |
|---|---|---|---|---|
| Memory providers | `core` `*MemorySource.cpp` | module and region tables, a page cache | read, write, refresh | the target's memory, which changes under them |
| Injector | `core/Injector.cpp`, `app/main.cpp` CommandInject, CommandBatch, LaunchAndWait | a handoff file, a status file per pid | inject, wait, batch, launch | the payload, through files only |
| Payload | `dll/dllmain.cpp` | its walk, its options, the fault watch | take handoff, wait for a runtime, walk, report, unload | the game's runtime, which may fault under it |
| Breadcrumbs | `core/Breadcrumb.cpp`, `dll/dllmain.cpp` | `.breadcrumb` (mapped), `.unreadable` | note, read, trim, remember | the same payload in the next process |
| IL2CPP, Mono | `il2cpp`, `mono` | bridges into the runtime, metadata | walk live, read static, merge | providers, breadcrumbs, the model |
| Unreal | `engine` | found offsets (`Reflection`), name pool, object array, hooks | derive each layout, resolve types, build a dump, read and write values, call functions | providers, the game that runs on, the browser |
| Model | `ir` | a dump: packages, structs, enums, functions | to and from JSON, lint | everything that makes or uses a dump |
| Diff | `diff` | none | match, detect renames, report | the model |
| Emitters | `emit` | a registry | one per output format | the model |
| Plugins | `plugin`, `plugins/lua` | loaded plugins, their nodes and handles | load, call, unload | emitters, the browser, the model |
| Publishing | `zdex`, `app/Publish.cpp` | `uploads.json`, `published.txt`, key, temporary file, sessions on the server | login, publish, resume, retry, fetch | HTTP, dumps on disk |
| Browser | `gui/Browser.cpp` | selection, edits, frozen values, a dump thread, a publish thread | attach, browse, edit, freeze, dump, publish, detach | all of the above |
| Command line | `app/main.cpp` | none | one command per component | all of the above |

What is hard here is not the algorithms but what happens around them:

- **Faults and deaths.**  The payload calls into a runtime that may fault on
  its own types.  The whole process goes, and the only thing that carries over
  to the next is two files.  Whatever is on them decides what the next walk
  leaves out, so a wrong entry silently loses types from every later dump.
- **Processes that share files.**  The injector and the payload have no
  channel, only files whose existence is a signal; files of a name that
  several processes may use at once; files that are truncated before they are
  written.
- **An unreliable network.**  Requests and replies get lost, sessions expire,
  the user cancels or kills the command, the dump is rewritten while it is
  going up; and a run after all that has to go on where the last one stopped,
  without splicing two dumps together.
- **Threads.**  The browser's dump and publish threads against its frame loop,
  the payload's thread against the game's, the loader thread of an injection
  that outlives the call that made it.
- **Memory that changes.**  Everything read through a cache may be stale, and
  everything found by an index (a class cache slot, an object index) may be
  something else the next time.
- **Layouts that are guessed.**  Nothing says where an Unreal build keeps its
  members: each offset is searched for by what must hold of it, every search
  rests on those before it, and a wrong offset that scores well is worse than
  none, since everything after it is read through it.
- **Readers nobody tests against.**  What the emitters write is read by
  compilers, disassemblers, mapping readers and type checkers, which take names
  and positions at their word: a name used twice, or a member that moved by a
  byte, is not an error there but another type.

What makes each part correct:

| Part | Properties |
|---|---|
| Breadcrumbs and walk | a runtime fault is recorded and walked past; nothing readable is ever given up; no record is lost; every game is dumped in the end |
| Injection | options reach the load they were written for; "done" is the word of the caller's own run; a living payload is not said to have given up; waits end |
| Publishing | what is published is of one dump and one length throughout, the one named, under the label asked for; a resume resumes; nothing is remembered that was not published; trying on succeeds |
| Page cache | a read returns bytes the target had since the last invalidation |
| Browser | one reader at a time; a dump is of its own time; nothing is written while edits are not allowed; frozen values hold; closing waits for its threads |
| Merges | nothing of the live or of the static half is lost or taken twice |
| Diff | what is matched is matched once; applying it twice changes nothing |
| Unreal layouts | an offset is the true one or stays unknown, on every build; a dump says of a type what the game declares, whatever is collected or loaded meanwhile |
| Dump files | what is read back is what was saved; a file that was cut short is refused |
| C++ emitter | a type is complete before it is used by value |
| Other emitters | what their reader makes of the file is what the dump says: sizes, places, types, names |
| Plugins | nothing of an unloaded plugin is called |

## What is modelled

### CrashResume and ResumePromise: breadcrumbs, fault watch, auto-resume

`CrashResume.tla` is the IL2CPP payload from looking at what the last run left
(`dll/dllmain.cpp:717`) to writing its dump, for any number of processes of one
exe name: the files are built from that name alone, so processes share them.

| Model | Code |
|---|---|
| `crumb` | the `.breadcrumb` file: first line and fault line, or absent; `Empty` is a zeroed or truncated one |
| `holder` | the process that has it open for writing (`FILE_SHARE_READ`, `Breadcrumb.cpp:17`) |
| `unreadable` | the `.unreadable` file |
| `armed` | `g_fault_seen == 0` (`dllmain.cpp:452`) |
| `NothingLeft`, `ReadLeftBehind`, `WriteTrimmed`, `RememberUnreadable` | `RunIl2CppDump` 717-743: read, truncate, write back, decide, append |
| `OpenBreadcrumb` | `CREATE_ALWAYS`, which zeroes the file, and installing the watch |
| `SettleFault`, `BeginWalk` | `WaitForSettle` enumerating the class cache; `WalkOptions` |
| `NoteSlot`, `NotePath`, `ReadMembers`, `PassOverSeen`, `NotInflated`, `Sweep` | `Walker::Run` and `Walker::Visit`, one type at a time, in their order; a type is a class here, so that the second check by path (`Walker.cpp:406`) adds nothing to the one by class |
| `NameFault`, `MemberFault`, `SweepFault` | the runtime faulting while a class is named, read, or the cache enumerated; `Watch` is `FaultWatch`.  The sweep stands for what the walk asks of the runtime without a note: opening the next image (`il2cpp/src/Walker.cpp:183`) is blamed on the last type noted in the same way, and the model has one image |
| `GuardedFault` | `GuardedCopy` in `InternalMemorySource.cpp` handling a fault of the payload's own, which the watch sees first |
| `FinishWalk` | watch off, breadcrumb deleted, dump written |
| `Kill`, `Relaunch` | somebody closes the game; somebody starts and injects it again |

A type is a model value and its data is reduced to whether the dump has it.
The keys are the three the code uses: an image slot, a class cache slot, an
assembly-qualified path.  `NameFaults` and `MemberFaults` say where the runtime
faults; `CacheOrders` what enumerating the class cache may return.

`ResumePromise.tla` is what auto-resume promises: each death teaches at most
one key, only keys the runtime faults on, nothing learned is forgotten, and a
walk comes back only if every place it would have faulted at is covered.
`CrashResume` implements it with `learned <- unreadable` (`ResumesAsPromised`).

### InjectHandshake: a call and the payload it loads

`InjectHandshake.tla` has `CommandInject` and `WaitForPayload` on one side,
`TakeHandoff`, the walk, `ReportStatus` and `FinishPayload` on the other, and
between them the one handoff file beside the DLL and one status file per pid.
A file being written is `Blank` until it is flushed, and cannot be removed
while it is open (`std::filesystem::remove` with the error ignored).
`PollStatus` reads the file and `TakeAnswer` removes it, whatever it says by
then; `answer` is what was read.  `CannotOpenHandoff` leaves what is there.
`LoadInto` is `LoadLibraryW`: `DllMain`, and with it the payload's thread, runs
on the first load only (`refs`).  `LoadStalls` and `LateLoad` are the loader
thread outliving the ten seconds `Inject` gives it (`Injector.cpp:128`).  The
walk is one step with one of four outcomes: dumped where it was asked,
dumped elsewhere (the Unreal path, which ignores `-o`), not written, failed.
Of the first three the payload says "ok" (`Said`): what an "ok" is worth is
whose word it is (`OkIsOfTheCall`), not that there is a dump.

### Batch: every game, one after the other

`Batch.tla` extends `InjectHandshake`: its calls are the injections of the
entries of a manifest, `<<entry, game>>` for whatever game `LaunchAndWait`
settled for (`Settle`): the one that was started while that lives, any with a
runtime once it does not.  `at` and `doing` are where `CommandBatch` is; every
step of a call or a payload is a step of the handshake with the batch waiting.
`WalkWrites` is the handshake's `Walk` with the file it leaves; `Done` closes
the game as `CommandInject` does; `FallBack` and `ReadFiles` read its files
instead, into the same path.  `Exit` counts.  `file` is by path, which is the
folder and the name of the entry (`PathOf`): entries of one name share it.  What
is at a path is the game whose walk it is, "files", or "mixed" when two were
writing it.  That two names may differ in case only and be one file is left out.

The entries are not given but read: `ReadManifest(ScanGames(Found))`.
It has the writing and reading of the manifest's strings over pieces of text
that quoting tells apart: apostrophes, quotes, breaks, backslashes, and
backslashes before an n, r or t.  A path that came back as another would name
no executable, and `EveryGameTried` would fail.

### UploadSession: publish, retry, resume

`UploadSession.tla` has the publish command and the browser's publish thread
as *runs* over *files*.  Content is what was read of a file: `<<file, version>>`,
or `<<file, part>>` with a part of `Torn` while the file is being written over.
A run goes through `Begin` (published.txt), `ChooseWhatToSend`, `Compress` (to
a temporary file named after the stem), `ReadPayload`, `LookForSession`
(fingerprint, `uploads.json`), a status or an init request, chunks, finish,
`LogPublished`.  `copy` is the list `LoadUploads` read, which `RememberUpload`
and `ForgetUpload` change and write back with no lock.  Each request may be
lost, lose its reply, or be refused; `Again` is the retry loop of
`Client::Send`.  `Kill`, `TearUploads` (killed while `uploads.json` is
truncated), `Cancel`, `Expire` and `LoseChunk` are the other faults.  The
server is modelled from what the client relies on: sessions with chunks, a
duplicate answer, an incomplete one.

A dump is written over in two steps, `BeginRewrite` (`WriteJsonFile` truncates)
and `EndRewrite`.  In between, `Seen` is what is read of it: some part, which
may have any length, that of a version included.  Reading and fingerprinting
share the file with whoever writes it (`std::ifstream`, `file_size`), so they
see such parts.  A look that takes time and is overtaken by a rewrite either
has all of the old version or saw the file while it was written, so one step
stands for it.  `Compress` does not see parts, and this is the
code's doing: `GzipFile` opens both files with `fopen_s`, which shares a file
that is read with readers only and one that is written with nobody
(`zdex/src/Gzip.cpp:285`; `core/src/Log.cpp:51` says so).  While it reads the
dump nobody can truncate it, and a dump that is being written, or a temporary
file another run is writing, it cannot open (`CannotCompress`).  Killed in the
middle it leaves a part of the temporary file (`Kill`).  So a torn payload comes
from a dump that is sent as it is, or was short for a moment
(`ChooseWhatToSend`), and the model publishes it, as the code does: nothing in
`Upload` holds what it read against the dump.  The check of a dump's header that
comes before the upload (`app/Publish.cpp:464`) would refuse most torn dumps that
are torn by then, and is not modelled.

### Browser: one UI thread, two workers, one cache

`Browser.tla` is the window of `gui/Browser.cpp` over a target that changes.
An object is an address with a page of its own; a page is the set of flags set
in the byte its bools are packed into, the one kind of value whose write
depends on a read.  `cache` is `CachedMemorySource`: a page is either in its
slot or not, a miss stays in it like a hit, and only `Invalidate` and a write
take it out.

| Model | Code |
|---|---|
| `mem`, `GameTick` | the target, and the game changing or unmapping it |
| `provider`, `writes` | the provider's switch and the box that shows it |
| `entries`, `selected`, `rows`, `readFrom`, `editRow`, `frozen`, `popup` | the members of `Browser` of those names (a row is a flag, an index an address) |
| `dumping`, `DumpRead`, `DumpEnds` | the dump worker, which reads through the same cache without a lock |
| `publishing`, `TellPublish` | the publish worker and `publish_cancel_`: only what the flag says while one runs |
| `Reachable` | a modal popup takes every click outside it |
| `window`, `Occlude`, `Quit`, `Join` | `RunLoop` and `~Browser` |

What one click, timer or worker does is one step; the game may change a page
between any two.  `held` is a history of what each page held since the dump
began.

### Memory, Images and Scanner: how everything is read

`Memory.tla` is a source of memory (`core/include/core/MemorySource.h`) with
all that is asked of it: the four providers, the page cache in front of those
that have live objects, strings, writes, and a scan for a pattern.

| Model | Code |
|---|---|
| `mem`, `protect`, `GameWrites`, `GameFrees`, `GameMaps` | the target, which goes on running between any two pages that are read |
| `ReadLive`, `Write`, `Restored` | `InternalMemorySource.cpp`, `ExternalMemorySource.cpp`: reads that stop at a page, protection lifted and put back |
| `Images`, its dumps | `DumpMemorySource.cpp`: ranges packed or listed, their lookup, reads from one to the next |
| `Images`, its images | `PeImage.cpp`, `StaticMemorySource.cpp`: headers, sections, tails of zeros |
| `regions`, `modules` | tables filled when the source is opened; only modules are filled again |
| `cache`, `FetchPage`, `InvalidateRange` | `CachedMemorySource.cpp`: a slot per page modulo their number, what could be read of it, misses kept |
| `fetch`, `ReadPage`, `FromPage` | the loop of `CachedMemorySource::Read`: what is wanted, and a step for each page of it; without a cache the provider is asked for all of it at once |
| `call`, `Read`, `ReadReturns` | who asked for it |
| `ReadCString`, `StringChunkRead` | `MemorySource.cpp:35`, chunk by chunk |
| `Scanner`, `scan`, `ReadChunk`, `ScanChunk` | `PatternScanner.cpp`: ranges, and for each chunk its read and what is found in it |

A read, a string and a scan take a step for each page, so the game may move in
the middle of them; one thread asks, so nothing else is asked meanwhile
(`Idle`).  `held` is a history: what each byte has been since the cache
was emptied, by the game, or by a write of one's own since that write.  It is
what a read may return, and a byte that was never `Gone` is one it must.  Sizes
are scaled down together: `PageSize = 2` for 4096, `Slots = 2`, `ChunkSize = 2`
for a MiB, `StringChunk = 2` for 64.  For a dump and an image `mem` is the
memory they stand for, made from the same ranges and sections by a definition
of its own in `MCMemory`; `ReadDump` and `ReadRva` are held against that.

### Diff, Lint, Merge, CppSdk and DumpTools: what is done with dumps

`Diff.tla`, `Lint.tla`, `Merge.tla` and `CppSdk.tla` are the pure algorithms
over dumps, an operator for each function.  A dump is reduced to what they
compare: a set of records (`Model.tla`) with their paths, each with its members,
methods or values.

| Model | Code |
|---|---|
| `Partners`, `Pairs`, `Alone`, `Renames`, `DiffProperties` | pairing members by name and occurrence, then renames by place and type (`diff/src/Diff.cpp`) |
| `Diff`, `Kept`, `HasBreakingChanges`, `ExitCode` | the report, its filter and its order; what `zircon diff` returns |
| `CheckEnum`, `CheckMember`, `CheckLayout`, `CheckStruct`, `Lint` | `ir/src/Lint.cpp`, neighbours by offset |
| `MergeIl2Cpp`, `MergeMono` | `il2cpp/src/Static.cpp`, `mono/src/Static.cpp` |
| `Measured`, `ExpectedSize`, `RenderType`, `RenderMember` | what the C++ SDK takes a type's size for, and what it writes a member as, bytes if in doubt (`emit/src/CppSdk.cpp`) |
| `EmitStruct`, `TopoSort`, `Header`, `Files` | definitions, their order, what each header includes and declares ahead |
| `ParameterBlock`, `BodyNames`, `BodiesOf` | the wrappers of methods |

`DumpTools.tla` composes them.  A *build* is what is true of a game; a
*reading* is what one way of dumping has of it: `Live` what the runtime got to,
`Static` what the metadata declares, `Dual` the merge of both.  `Take` takes a
dump, `Patch` updates the game, `Compare` is `CommandDiff`, `Emit` is
`CommandEmit` for the C++ SDK of any of the dump's packages.  Each dump remembers
the build it is of, so what is said of two dumps is held against what is true
of two builds, rather than against another diff.

A header is a structure here, not a text: what it includes, what it declares
ahead, its definitions, each with its base and its members in order.
The last part of `CppSdk.tla` is the other side, a compiler, external to the
code: it reads includes once, asks of every name whether it is complete or declared by then, and places
members under `pack(1)`.  So `SdkCompiles`, `SdkLaysOut` and `WrappersReach`
compare what a compiler makes of the headers with what the dump says.
Templates are as `Basic.hpp` has them: `TArray` and `FName` of a fixed size,
the others of the size that was measured.

### Reflect and the Unreal modules: finding out how a build lays itself out

| Module | Code |
|---|---|
| `UnrealLayouts` | reads of a target; the object array and its items (`ObjectArray.cpp`); `ObjectLayout.cpp`, `StructLayout.cpp`: where a UObject has its class, name and outer, and a UStruct its super, children and sizes |
| `UnrealMembers` | `PropertyLayout.cpp`, the subclass slots of `TypeResolver.cpp` |
| `UnrealFunctions` | `ClassLayout.cpp`, `FunctionLayout.cpp`, `EnumLayout.cpp` and the accessors that read through a layout |
| `Reflect` | the driver: `Reflect` stage by stage, `ResolveType`, `BuildDump` object by object, the widths of enums |
| `UnrealGame` | the other side, external: a small game, and the memory a build of the engine keeps of it |

Memory is a function from addresses to dwords, and every derivation is an
operator from memory and the layouts before it to a layout: the candidates, the
samples, the score, the threshold and the tie-break of the code.  A *build* is
what differs from one game to the next: how much a fork appends to UObject,
whether UStruct has a base chain, whether properties are objects or fields,
where the array has its counters, how wide the alignment is, one or two arrays
per enum, and whether the data holds what looks like an array.  `Truth` is
where a build really has its members, known to the properties only.

`Derive` is one step per stage, `WalkObject` one per slot; `Collect` and `Load`
are the game, which is not stopped: objects are freed and their slots go null,
new ones come and the count grows, between any two steps.  So a later stage may
see other objects than an earlier one.

Scaled down with the game: the numbers of samples and of hits asked for (the
constants that begin with `Min`, each named after the one in the code).  Left
out: caps no instance reaches (`kMaxObjects`, the sampling limits of 200 to 400,
the guards of 32 to 128 links), default values, vtables, script layouts, hooks
other than the one that gives the array, and the filter by package.

### Json, Names, the emitters and Workbench: what a dump is made into

`Workbench.tla` is what is done with a dump after it is taken: it is saved and
read back, or made into the files of another tool.  Each emitter is an operator
from a dump to the structure it writes, and beside it, marked external, is what
the tool makes of that: its *reader*.  The properties are about what comes out
at the far end.

| Module | Code | Reader |
|---|---|---|
| `Json` | `ir/src/Json.cpp`: the writer and the recursive descent parser, symbol by symbol | itself; the header alone off the beginning of a file |
| `Names` | `emit/src/Util.cpp` | |
| `Disasm` | `emit/src/DisasmCommon.h`: names in one flat space, members that fit, the order of definition, functions worth naming | |
| `Ghidra`, `BinaryNinja`, `Ida` | the emitters of those names | types by name; for IDA a C compiler |
| `ReClass` | `emit/src/ReClass.cpp` | a row of nodes, each where the last one ends |
| `Usmap` | `emit/src/Usmap.cpp` | a reader of mappings, to whom only positions tell what a byte is |
| `FridaJs` | `emit/src/FridaJs.cpp`, its table and its runtime | an agent that sets and reads a member |
| `PythonStubs` | `emit/src/PythonStubs.cpp` | a type checker: what a name means in a module |
| `CSharp` | `emit/src/CSharp.cpp` | a file system that does not tell case apart; what a file declares |

A path, a name or a label is a model string, and what characters do to it is in
tables of an instance (`Sanitized`, `Mangled`, `CsNames`, ...).  A saved dump is
the sequence of its symbols, and `StopWhileWriting` leaves any beginning of it:
the file is written in place.  `ReadJsonHeaderFile` looks at the first `kPrefix`
symbols, as the code does at the first 1 MiB: a header that ends within them is
read from a whole or a cut file, and one that does not is refused though all of it be there
(`SavedReadsBack`).  Left out: the white space of JSON, surrogate
escapes, the widths of numbers, error positions; of the emitters comments,
banners and the Python, JavaScript and C around the tables, and what happens to
paths that are too long.

## What is checked

| Run | Module | Bounds | Shows |
|---|---|---|---|
| CrashResume | MCCrashResume | 1 process, 3 declared types, 4 cache slots, faults on 3 types, 2 kills | every fault is recorded, kept, and walked past; nothing readable is lost; the game is dumped; implements `ResumePromise` |
| CrashResumeShared | MCCrashResume | 2 processes, 1 kill, guarded faults, cache enumeration that may fault | only what faulted, or was last noted, is listed; the breadcrumb has one owner |
| Batch | MCBatch | a manifest of 5 games, 4 entries, 2 of them of one name, 2 to inject into 2 processes, both wrapped and frail; timeouts, failed loads, deaths, walks that write nothing | options reach their game; what is counted as dumped or degraded is what the files are, as long as the right game was settled for; the batch ends having tried every game |
| InjectInTurn | MCInjectHandshake | 3 calls that take turns, 2 games, one of them Unreal; stalled loaders, timeouts, deaths, walks that write nothing | an "ok" is the word of a run on options for the call's game, in it or in one where a call left its payload behind |
| InjectEmptyStatus | MCInjectHandshake | 1 call | **violation**: an empty status file reads as giving up |
| UploadResume | MCUploadSession | 2 runs of 1 dump, 2 versions, rewritten between runs, 2 chunks, 2 faults (lost, refused, killed, cancelled, expired) | resuming, remembering, succeeding in the end |
| UploadTogether | MCUploadSession | 2 runs of 2 dumps at once, 1 fault, a dump rewritten at any time, 2 torn readings, one of a version's length | what is published is of one dump and one length, by sessions that agree with their records; an "ok" is the dump named, under its label |
| Memory | MCMemory | 5 pages of 2 bytes, 2 slots, chunks of 2; 2 processes, 4 dumps and 3 images; 1 touch of the game, 1 write | what is read was there, what is missing could not be read, a scan tells of every match and no other |
| Browser | Browser | 2 objects, 1 flag, 2 targets, 1 change by the game, 1 frozen value | a dump is of its own time; nobody reads beside it; a frozen value is put back while there are frames; closing ends |
| DumpTools | MCDumpTools | every type of at most 2 of 10 members and 3 of 6; 3 types in 2 packages, 22 kinds of member under 3 kinds of base; 2 methods of 4 signatures; 2 dumps | what moved is said; members add up; merging loses, doubles and invents nothing; the linter sees what there is; the SDK compiles, lays out and calls as it should |
| Reflect | MCReflect | 5 builds, about 50 objects, a collection and a load at any point | every offset is true or unknown, none is missed, and the dump is what the game declares |
| Workbench | MCWorkbench | 135 dumps and orders for one tool each; files cut at every symbol | a file reads back or is refused; what each reader makes of its file is what the dump says |

Why the bounds are enough.  In CrashResume each kind of key, each kind of
fault, a type met twice (declared and again in the cache), one skipped by hand
and two kills around every step all happen; more types repeat these.  Two
processes are all it takes to share a file, and the theorems below need no
bound.  In InjectHandshake two calls with two games is the smallest instance
with "somebody else's", and a third call is quiet so that removing and writing
the handoff meet.  That they take turns leaves what a loader or a payload does
that was given up on, which is what crosses from one call to the next.  In Batch two games to inject make a predecessor that is
still walking, or dead with its handoff unread; the others are one for each
branch that injects nothing, one of them of the name of a game that is injected.  In UploadSession two chunks make "beginning of one and end
of the other" possible, two versions a rewrite of another length, two parts one
of a length of its own and one of the second version's, two attempts a retry that gives
up, two runs a resume.  In Memory five pages are code,
data, one nobody may touch and the one at 0; two slots make pages share them; a
pattern of three bytes lies across two chunks and two pages, and reads of six
bytes across three pages; one touch of the game in the middle is what makes a
copy stale (two, in 2.5 minutes, show no more).  In Browser two objects are the selected one and another,
two targets are before and after a detach, and one change by the game between
any two steps is what makes a copy stale.  In DumpTools two members are a pair,
a duplicate, an overlap or a rename; three are what a linter that compares
neighbours could get wrong; a comparison takes two dumps.  For the SDK three
types are one that is inherited from, one that inherits and holds or points, and
an enum; two packages are as many as it takes to include, to leave out, and to
be read in either order.  In Reflect the five builds are the engine before and
after fields, with and without a base chain, an appended UObject, a narrow
alignment, split enums, each placement of the counters, a decoy, and a hook that
is right or wrong; the game has every property class that has a slot of its own
and as many objects as the scaled thresholds ask for.  In Workbench every dump
is made for what one tool could get wrong: names that collide once they are
sanitized, bases and members that share a byte, packed flags, unions, arrays of
everything, an enum that does not fit its width, cycles, nesting up to
`kMaxTypeDepth = 2` and `kMaxJsonDepth = 10` and one beyond, and
`kMaxEnumValues = 3`, smaller than the code's so that the limit is met
(`kMaxArrayDim = 255` and `kMaxPropertyCount = 65535` are the code's).
`CHECK_DEADLOCK FALSE` is set where
the system does stop: all calls returned, all dumps published, the window gone, the tool done.

Fairness.  `CrashResume`: a thread that can run runs (`Payload`), and whoever
wanted the dump injects again after a death (`Relaunch`): without somebody
doing that there is no next run to resume in.  Nobody has to kill a game.
`Batch`: the batch goes on, so does each injection, and the clock of
`LaunchAndWait` runs out; the payload's thread runs, and unloads itself since
it is headless.  A call does not wait for ever: `--timeout` is a number of
seconds greater than 0 (`app/main.cpp:4140`) that `WaitForPayload` counts, so
giving up (`GivesUp`), which is possible at every look at the status file, is
strongly fair; a late answer still races it.  No game has to start, to map its
runtime or to die.
`UploadSession`: a run goes on and somebody who was told it failed tries again;
faults are bounded by `MaxFaults`, which is the assumption that the network
works in the end, and a dump that is being written gets written (`EndRewrite`).
`Browser`: a dump is finite work and ends, an upload that is told to stop does,
the destructor comes back when both have; the user, the game and the server owe
nothing.  Apart from `GivesUp` all of that is weak fairness; `ApplyFrozen` is
strongly fair, since every frame that is drawn ends in it.  `Memory`,
`Reflect`, `DumpTools` and `Workbench` state no liveness: their steps are
bounded loops.

Every checked property has a mutation of the code's model in the modules
(marked *Mutant*), a bug somebody could plausibly make, under which TLC finds
the property violated.

## What is proved

TLC has checked each of these on its instance; the theorems say them for every
value of the constants, with the inductive invariant TLC would have no need of.
Each rests on the `ASSUME`s of its module, which say what the constants are and
not how many, and on the hypotheses named.

| Theorem | Of | Hypotheses | Says |
|---|---|---|---|
| `TypeCorrect` | `CrashResume` | | `Spec => []TypeOK` |
| `HolderOwnsFileAlways` | | | a breadcrumb has at most one writer, who is in its walk, and nobody trims a file somebody holds |
| `OnlyFaultingListedAlways` | | | only keys the runtime faults on get listed (and the last noted one, when it faults over its class cache) |
| `ResumesAsPromisedAlways` | | | `Spec => ResumesAsPromised`, the refinement of `ResumePromise` |
| `NothingReadableLostAlways` | | `OneCacheOrder`, `TRUE \notin SweepFaults` | what a finished dump lacks faults or was skipped by hand |
| `RecordKeptAlways` | | `NamesApart` | a record of a fault gets on the list, but for a kill while it is trimmed |
| `RuntimeFaultRecordedAlways` | | `~GuardedFaults` | a runtime fault leaves its record |
| `HandshakeTyped` | `InjectHandshake` | | `Spec => []TypeOK`: no count of loads falls below zero |
| `OkIsOwn` | | `OneAtATime` | "ok" is the word of a run on options for the call's game, there or where a payload was left behind |
| `OptionsReach` | | `Alone`, `[]EachGameOnce` | a payload runs on the options of the call that loaded it |
| `BatchIsHandshake` | `Batch` | | `BatchSpec => Spec`: a batch is a handshake with somebody to choose the calls |
| `BatchOptionsReach` | | `GamesApart`, `OneAtATime`, `~MayStall` | the same of the entries of a batch |
| `BatchTruth` | | `ExesApart`, `OneAtATime`, `~MayStall` | what a batch says of a game is true of the file it left, by path, while it settles for the right games, and when it may not |
| `UploadTyped` | `UploadSession` | `StemsApart` | `Spec => []TypeOK`: who asks something has a session and something to send |
| `PublishedIsOneDump` | | `StemsApart` | what is published is of one dump and one length, whatever is written over while it is read or sent |
| `OkTellsTruth` | | `StemsApart`, `OneLabelEach` | told "ok", all of what one read of one's own dump is on the server under its label, up to readings of that length |
| `LogTellsTruth` | | `StemsApart`, `Still` | `published.txt` names only what is on the server |
| `StartsOverOnlyWhenGone` | | `OneAtATime`, `~RewriteAnyTime`, `StemsApart`, `LossesOutside` | a session is opened only if none can be gone on with |
| `BrowserTyped` | `Browser` | | `Spec => []TypeOK` |
| `DumpTellsItsTime` | | | a dump has what the target held since it began |
| `DumpReadsAlone` | | | the cache, the table and the target are left alone while a dump runs |
| `CacheTrue` | `Memory` | `FilesTrue` | a slot of the cache has what its page held since the cache was emptied, up to a byte that could not be read |
| `ReadsTrue` | | `FilesTrue` | what a read or a string comes back with was there since then, and what is missing could not be read |
| `ScanTold` | | `FilesTrue` | a scan tells of real matches only, in order, and of every one that was there all the time |

The proofs of a module are in the module named after it with `Proofs`
(`HandshakeProofs` for `InjectHandshake`).

The hypotheses are what the code does not see to.  Those that are settings
(`OneAtATime`, `~MayStall`, `~GuardedFaults`, `~RewriteAnyTime`,
`TRUE \notin SweepFaults`) have the values of the runs, and
each is the other side of a row of [What does not hold](#what-does-not-hold):

- `NamesApart`: one process of an exe name.  `OneCacheOrder`: the class cache
  has the same order in every process.
- `Alone`: calls that wait, one at a time, with no loader that outlives its
  ten seconds.  `EachGameOnce`, that no game is entered twice, is asked of
  behaviours, since it is a person or `CommandBatch` who sees to it: a batch
  does, which is a lemma of `BatchProofs` (`OncePerGame`).
- `ExesApart`: a path names one game and no two entries to inject have the
  same.  `GamesApart`: and only the first of them is wrapped by a store or may
  die before its runtime is seen, since from then on `LaunchAndWait` takes any
  process with a runtime.  `BatchTruth` does without: it says of each batch when
  it can settle for a wrong game (`WrongOnlyAfter`), and the rest of those that
  have not.  `EntriesAssumption`, that what `ReadManifest` makes of a list is a
  sequence, would take induction over the list: TLC evaluates it.
- `StemsApart`: the temporary file is named after the stem.  `OneLabelEach`: a
  resumed session has the label it was opened with.  `Still`: no dump is written
  over while it is being published, and nobody is killed as it packs a file
  another run is about to send.
- `FilesTrue`: a minidump or an image that opens stands for its bytes, wherever
  and how far it is read.  That `ReadDump` and `ReadRva` do so is an induction over
  ranges and sections; TLC evaluates it for every file of the instance
  (`FilesStandForMemory` in `MCMemory`).  Of the tables `RegionsAssumption` says
  that regions come in order and apart, as `VirtualQuery`, the ranges of a dump
  and the sections of an image give them; `TargetAssumption` and
  `CallsAssumption` say what bytes, protections and calls are.
- `LossesOutside`: nobody tears `uploads.json`, and the server does not lose
  chunks it took.  A torn list has lost its sessions; a chunk that is lost
  twice makes a finish fail whose session is still open.

The arguments:

*CrashResume.*  `OnlyFaultingListed` is not inductive: what goes on the list was
read from a file, and the file holds what a dying walk left there.  `ListInv`
therefore says of every record that tells of a runtime fault, in the file or
already read (`TellsTrue`), that its key may be blamed; and of a process that
has the file (`KeyIsCurrent`), that the key in it is the slot or the path of the
type it is asking about, is empty before the walk, and is the last declared
type's when the cache is enumerated.  Then a fault, which only adds its line,
keeps `TellsTrue`, and appending the key keeps the list.  For the refinement
`WalkInv` adds that a walk has got past everything behind it (`Behind`): each
type it has passed would not fault or has one of its keys in `skip`, which is
part of what is learned or written by hand.  A walk that comes back has then
passed every place, which is `Covered`.  `NothingLostSoFar` is the other
direction, that each type behind a walk is in its dump, or faults, or was named
by hand: a skipped key is a faulting one by `OnlyFaultingListed`, and names this
type, by `OneCacheOrder`, and not one in its slot.  `RecordInHand` follows a
record from the file into `last` and onto the list; `WatchIsOn` says that the
watch is armed for as long as a walk may fault.

*Handshake and batch.*  `Counted` ties the number of loads to the payload.  For
`OkIsOwn` `TurnsTaken` says that one call is under way, and `RunsOwn` of every
payload, status file and answer whose it is (`IsOwn`): of the call that waits
for it, or of a run somebody left behind (`LeftBehind`), which stays so
(`LeftIsLeft`).  For `OptionsReach`
`OneCallEach` says that one call is under way and that the one handoff file is
its own from its note to its load (`CallsInTurn`), and that a payload begins
with the handoff of the call that loaded it, which waits until that payload has
a status to read (`PayloadsInTurn`); `ReportsInTurn` that a game is walked once
and reported of on those options.  A batch takes each of its
steps as one of the handshake or none, so that what is left is `BatchInv`: a
game that runs was started by an entry, and is entered by another only after
that (`Launches`), entries are judged in their order (`JudgedInTurn`), and the
file at the path of an entry is its walk's as long as its call was not given up
on and no entry of that name came over it (`FilesAreTheirs`).

*Publishing.*  A session is opened for one content (`of`), holds nothing that
does not fit it (`Fits`: of its dump and length, and itself where dumps are
`Still`) and is never opened again; every record and every copy of the list in
some run's hands leads to a session of the dump it names and the size it has
(`Leads`), and every run that has a session has what fits it to send
(`Agrees`).  These hold with runs that write over each other's records, since a
record that is lost leads nowhere, and with dumps that are written over, since
what was read is of the dump, whatever its length (`SeenIsContent`).  With dumps
at rest, `AtRest` makes fingerprint, payload and hash one content.  For `StartsOverOnlyWhenGone` `BooksInv` says that with one run at a
time the file *is* the copy (`KeepsBooks`), every open session that holds
something has its record (`SessionsRecorded`), and a run that takes its record
out has a session that is over (`Over`), since it has sent all that was missing
by the time it asks to finish (`SendsAll`).

*Browser.*  `DumpsBehindPopup`: while the worker runs its own popup is open
over the target it began with, and a modal popup takes every click; what the
frame does without one asks about `dumping`.  `OfItsTime` says of the target,
the cache and the dump that each is in what was held since it began, which the
cache is because `StartDump` empties it.

*Memory.*  That a read is of its time is not inductive without what the cache
has: `PageTrue` says of a slot that its bytes were held since the cache was
emptied, and that it ends early only where its page has a `Hole`; `FetchTrue` the
same of the read under way, page after page, the missing part of it being `Cut`
off; `CallOK` that what is fetched is what the caller waits for.  The game only
adds to `held`, which keeps all of these (`GrowsPage`, `GrowsFetch`); emptying the
cache and landing a write take from it, and leave no slot that had what is taken
(`WriteKeeps`).  For scans `PlaceTrue` says where a scan is in its ranges,
`ChunkTrue` that the chunk fetched is the one at that place, and `HitsTrue` that
what was told may match, is in order and behind that place, and that every match
that was there all the time is told or `Reached` later.  A chunk moves the place
(`PlaceMoves`) over no match it did not see whole: past the start of the last
pattern that fits in what was read, and further only if something in the range
could not be read, whose matches are nobody's promise (`ScanGoesOn`).  That
`Ascending` puts a finite set of numbers in order is proved from the least bound
that would fail (`AllCanBeOrdered`).

Only model-checked: liveness (`EveryGameDumped`, `EveryGameTried`,
`EventuallyPublished`, `FrozenHoldsWhileDrawn`, `ClosesInTheEnd`), which is out
of the prover's reach; and what is said of `DumpTools`, `Reflect` and
`Workbench`: these compute, in recursive operators over dumps, and what they
compute for every input is such an induction as well.  `CppSdk`, `Json`,
`Disasm`, `UnrealLayouts` and the modules over them use RECURSIVE operators,
which the prover cannot handle.

## What does not hold

One run shows the program not doing what its comments say (`PROJECT.json`,
"findings"): `InjectEmptyStatus`.

Other properties hold only under the constants their runs have.  Each of these
is reproduced by changing the constants as named, the builds in `MCDumpTools`
and `MCReflect`, or the dumps in `MCWorkbench`:

| Property | Fails when | Because |
|---|---|---|
| `NothingReadableLost` | `CacheOrders` with a second order | a class cache slot remembered from one process names another type in the next (`il2cpp/src/Walker.cpp:229`) |
| `NothingReadableLost` | `SweepFaults = {TRUE, FALSE}` | the last declared type is blamed for the fault and skipped from then on (`Walker.cpp:218`) |
| `RecordKept` | two `Procs` | one zeroes the record the other has not read yet (`dllmain.cpp:761`) |
| "an ok is a dump where it was asked for", which no run asks (`src/docs/IL2CPP.md:419`, "exited 4 without writing a dump, which is the `--wait` contract") | always | `RunIl2CppDump` reports "ok" over a file it could not write (`dllmain.cpp:863`); the Unreal path does not look at `-o` (`dllmain.cpp:1002`) |
| `OptionsReachTheirGame` | calls without `--wait` | the next call replaces a handoff that has not been read (`app/main.cpp:2426`) |
| `OkIsOfTheCall` | `OneAtATime = FALSE` | there is one handoff file for all calls, and it says where to report (`app/main.cpp:2385`): a payload may run on the options of a call into another game and answer to it, against `app/main.cpp:2376`, "so two injections at once do not read each other's" |
| `OkIsOfTheCall`, without `LeftBehind` | always | a payload that is loaded late, or that was entered again, takes the handoff of whichever call is next, and tells that call how it went (`core/src/Injector.cpp:134`) |
| `OptionsReachTheirGame` | `MayStall = TRUE` in Batch.cfg | a loader that outlives its call reads what the next entry handed over (`core/src/Injector.cpp:134`) |
| `BatchTellsTruth`, without `AllRight` | always (`Wrapped`, `Frail`) | a game that dies before its runtime is seen, or a wrapper, is followed by *any* process with a Unity runtime (`app/main.cpp:2167`): one an earlier entry left running is dumped under this one's name and counted as dumped, against "Loading a payload into the wrong game is not something to guess at" (`:2355`) |
| `BatchTellsTruth`, without `Overwritten` | two entries of one name | they are written to one path (`app/main.cpp:1169`) |
| `BatchTellsTruth`, of a degraded entry that timed out too | always | the walk that was given up on still writes the path the files are written to (`app/main.cpp:1203`) |
| "a fallback is never written over a walk that succeeded", which no run asks | always | a status file read empty counts as giving up (`app/main.cpp:2323`, `InjectEmptyStatus`), and so does a timeout just before the dump is there |
| "every game of a batch that exits 0 has a dump", which no run asks | an Unreal game in the manifest | nothing is done for it, which counts neither as done nor as failed (`app/main.cpp:1216`) |
| `EveryGameTried` | paths between double quotes with `\n`, `\r` or `\t` in them, as 0.7.0 wrote them (`TomlStringAsIs`) | they are read as escapes (`app/main.cpp:990`), against "the backslash was meant literally and both characters are kept" (`:995`) |
| `RuntimeFaultRecorded` | `GuardedFaults = TRUE` in CrashResume.cfg | a fault the payload itself handles is the first the watch sees, and the watch writes down only one (`dll/dllmain.cpp:480`, `core/src/InternalMemorySource.cpp:23`) |
| "a call that printed where the dump will be is walked for", which no run asks | two calls into one game | the second load runs nothing and looks like success (`Injector.cpp:121`) |
| "one version from the first chunk to the last", where `PublishedWhole` says one length | `RewriteAnyTime`, readings of one length | the bytes are read before the fingerprint is taken (`zdex/src/Upload.cpp:117`), and only the size is compared, so that two versions of one length, or a version and what was read of the file as that was written, are spliced |
| "what is published is a version of the dump", which no run asks | `RewriteAnyTime` | the file is read while it is written over (`zdex/src/Upload.cpp:103`, `ir/src/Json.cpp:1172`), and what was read goes up, is finished and reported as ok |
| `OkIsPublished` | `StemOf <- SameStem` | the temporary file is named after the stem alone (`Upload.cpp:82`) |
| `OkIsPublished` | two labels for one dump | a resume keeps the label of the session it takes over (`Upload.cpp:121`) |
| `ReadsAreOfTheirTime`, where a page is excused | a range of a dump begins, or a section ends, within a page | `FetchPage` reads whole pages and keeps what comes before the first gap (`core/src/CachedMemorySource.cpp:104`) |
| `ReadsAreOfTheirTime`, of the bytes after a write that failed | a page of several is not there | the cache is told of writes that succeed only (`CachedMemorySource.cpp:81`), and `WriteProcessMemory` may have written the first pages |
| `ScanTellsAll`, of a range with a hole | a page in it was freed | a short read ends the search of the range (`core/src/PatternScanner.cpp:213`), and regions are those of when the source was opened |
| "the target is left exactly as it was found" (`core/src/ExternalMemorySource.cpp:109`), which no run asks | a write over pages of different protection | the first page's is put back on all of them (`:120`) |
| `RememberedIsPublished` | `RewriteAnyTime = TRUE` | the hash remembered is the one taken before the upload (`app/Publish.cpp:628`) |
| `StartsOverOnlyIfGone` | for `unanswered` sessions too | a finish that goes unanswered forgets the session like one that was answered (`zdex/src/Upload.cpp:215`), and so does a status request (`:139`), against `README.md:879` |
| "a cancel leaves the record of its session", which no run asks | `OneAtATime = FALSE` | `uploads.json` is read, changed and written with no lock (`zdex/src/Config.cpp:185`) |
| `LintTellsLayout` | three packed bools in one byte, the outer two of one bit | only neighbours by offset are compared (`ir/src/Lint.cpp:238`) |
| `NothingMovedUnsaid`, asked of the bit whatever the names | packed bools | a rename is found by offset and type alone (`diff/src/Diff.cpp:204`) |
| "two dual dumps of one build report no move", which no run asks | the two walks reached different types | the placeholder offset of what only the metadata has is compared as one (`diff/src/Diff.cpp:134`), against `src/docs/IL2CPP.md:106` |
| `SdkLaysOut` | `name` types measured at another size than 8 | `FName` is of a fixed size (`emit/src/CppSdk.cpp:1087`), against the comment at 1043 that sizes come from the dump |
| `SdkCompiles` | structs that hold arrays of each other | a cycle is emitted as it comes, and an element is not declared ahead (`emit/src/CppSdk.cpp:404`) |
| `SdkCompiles` | two packages whose methods take each other's structs (`Builds <- Circular`) | includes go in a circle, and `forward_structs`, which would declare them ahead, is collected and never written (`emit/src/CppSdk.cpp:1332`), against the comment at 1325, "Every type named in a function signature, declared ahead of the first class that mentions it" |
| `SdkCompiles` | `StemOf` not injective | of two packages whose names end alike the second header replaces the first (`emit/src/Util.cpp:73`) |
| `WrappersReach` | parameters spelled alike, declared in another order than they are laid out | the block's members are named in the order of offsets, the body's in the order of declaration (`emit/src/CppSdk.cpp:560`) |
| `WrappersReach` | a method spelled like a member | the declaration's name is made unique among the members, the definition's is not (`emit/src/CppSdk.cpp:1402`) |
| `WrappersReach`, without `BlocksApart` | two methods spelled alike | their parameter blocks have one name (`emit/src/CppSdk.cpp:539`) |
| `LayoutIsTrue` | a build before 4.25 whose UObject has grown (`tail = 2`, `ffield = FALSE`) | a slot that is always null is taken for `UField::Next`: the head of each list counts as having reached properties (`engine/src/PropertyLayout.cpp:398`), against the comment at 409; `FunctionLayout.cpp:95` fixes the same search |
| `LayoutIsTrue` | no array property ends its struct (`trailing = FALSE`) | the link that follows every property is a property too, and is taken for the inner one of an array (`engine/src/TypeResolver.cpp:157`) |
| `NothingMissed` | enum entries of 24 bytes (`pair = 6`) | 16 is tried first and a tie does not replace it (`engine/src/EnumLayout.cpp:18`) |
| `DumpTellsTruth`, of the game at the end instead | a type is loaded after the array was found | the number of objects is read once (`engine/src/DumpBuilder.cpp:295`) |
| `DatabaseIsTrue` | helpers whose alphabetical order is not their order of use | IDA's are neither sorted nor declared ahead (`emit/src/Ida.cpp:343`) |
| `DatabaseIsTrue` | two empty enums; a struct named like a helper (`ZFName`) | both get `_zircon_empty` (`Ida.cpp:263`); one flat space holds both kinds of names |
| `DatabaseIsTrue` | a member that reaches past the end of its record | the type gets longer than where it is embedded (`emit/src/DisasmCommon.h:310`) |
| `DatabaseIsTrue` | one body shared by functions of an accepted and another package | only the functions of accepted packages are counted (`DisasmCommon.h:546`) |
| `NodesStayInPlace` | a member at the very end of its record, after a gap | the gap is filled twice (`emit/src/ReClass.cpp`) |
| `MappingReadsBack` | an array of more than 255 elements | the slots of a struct are counted from the unclamped number (`emit/src/Usmap.cpp:417`) |
| `AgentTouchesItsMember` | negative values of enums; arrays of enums | an enum is read unsigned; the size of the whole member is written (`emit/src/FridaJs.cpp`) |
| `StubsNameTypes` | two imports of one name in one module, or a class named like an import | only collisions within a module are numbered (`emit/src/PythonStubs.cpp:87`) |
| `SourcesTellAll` | two types whose file names differ in case only | `written` tells case apart and Windows does not (`emit/src/CSharp.cpp:721`), against "Numbered rather than silently overwritten" at 740 |
| `DatabaseIsTrue`, with as many pointers for Ghidra and Binary Ninja as for IDA | arrays of pointers to objects | `Data` is made a pointer to the pointee (`emit/src/Ghidra.cpp:99`, `emit/src/BinaryNinja.cpp:150`): `UBase*` where it is `UBase**`, against "A typed Data pointer is what lets you follow the allocation in BN and actually see elements" (`BinaryNinja.cpp:112`); IDA's has both (`emit/src/Ida.cpp:83`) |
| "a header that is all there is read", which `SavedReadsBack` says of the first `kPrefix` only | a header longer than 1 MiB | no more is looked at (`ir/src/Json.cpp:1210`), and conflicts are written into it in full (`:400`), against "A megabyte is far past any header this tool writes" (`:1208`) |
| `SourcesTellAll` | enums in namespaces; nested types of a path without assembly | enums get no folder of their namespace (`CSharp.cpp:655`); the outer type is looked up in another assembly (`CSharp.cpp:678`) |

Three more things the browser does are in the model and in the hazards, without
a property because it would not hold: an edit that is open when another object
is selected is written into the row of that number there
(`gui/Browser.cpp:463`); frozen addresses of a target are written into the next
one once edits are allowed again (`Browser.cpp:1364`); and a packed flag is
written with the neighbours the cache remembers, not those the game has
(`engine/src/ValueWriter.cpp:356`).

A frozen value is put back by the frame that is drawn, and no frame is drawn
while the window is covered (`gui/Host.cpp:341`): `FrozenHoldsWhileDrawn` is
what is left of "re-applied every 30ms" (`src/CHANGELOG.md:1465`).

## What is not modelled

- In the modelled parts: which runtime a payload finds and how long it waits
  for it; what a walk records of a type; waiting for the server to
  import a dump, the stored key, the cap of 32 records in `uploads.json`, the
  checks of labels and games before an upload.
- Parts that are pure conversions or I/O: gzip, SHA-256, HTTP itself, the
  documents and graphs emitters, drawing the browser, its filters and forms,
  the text of patterns, exports of a PE file, the list of processes.
- A page that guards a stack: from inside, reading one raises an exception
  `GuardedCopy` does not handle (`core/src/InternalMemorySource.cpp:27`).
- Finding Unreal's name pool and its globals: searches over the whole image,
  whose data a model would have to invent; an index of a name is external.
- Finding games on disk, Steam's build numbers and launching Unreal games
  (`LaunchAndWaitUnreal`).
- The Kismet walk and plugins: in the plan.
- Calling into a game (`ProcessEvent`, hooks): undefined as far as the program
  knows.
- Vendored ImGui and Lua, example plugins, resources, build files.

## The plan

In this order, the ones with the most behaviour to get wrong first:

1. `CrashResume` with `ResumePromise` and its proofs; `InjectHandshake` and `Batch`;
   `UploadSession`; `Browser`; `Memory` with `Images` and `Scanner`; `Diff`, `Lint`, `Merge`, `CppSdk`, `DumpTools`;
   the Unreal modules and `Reflect`; `Json`, the emitters and `Workbench`: done,
   above.
2. Proofs of the safety properties of `CrashResume`, `InjectHandshake`, `Batch`,
   `UploadSession`, `Browser` and `Memory`: done, above.  Next: a server that promises
   less, as the abstract specification `UploadSession` implements.
3. Left of the parts that are partly modelled: the Mono walk and its breadcrumbs; the
   checks of `ValueWriter`; the Kismet walk; plugins.
