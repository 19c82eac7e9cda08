------------------------------- MODULE Batch --------------------------------
(***************************************************************************)
(* `zircon batch` (app/main.cpp, CommandBatch, LaunchAndWait): every game  *)
(* of a manifest, one after the other, is started, injected, waited for    *)
(* and closed; where that fails its files are read instead, into the same  *)
(* path.  Each injection is a call of InjectHandshake, of an entry into    *)
(* the game LaunchAndWait settled for.                                     *)
(***************************************************************************)
EXTENDS InjectHandshake, SequencesExt

CONSTANTS Found,      \* the games of the manifest, in its order
          GameOf,     \* the process of each game found
          Wrapped,    \* games whose executable is a store's wrapper: it starts the game and exits
          Frail,      \* games that may die before LaunchAndWait has seen their runtime
          Unnamed,    \* "game": what an entry without a name is called
          Nothing     \* no file, no verdict, no exit code

-----------------------------------------------------------------------------
(* The manifest: the list of games `zircon scan-games` writes and `zircon    *)
(* batch` reads.  A name or a path is a sequence of pieces, told apart by    *)
(* what quoting does to them: an apostrophe, a double quote, a break (a line *)
(* feed, carriage return or tab), a slashN (a backslash and an n, r or t     *)
(* after it), a slash (a backslash and another letter) and text, which is    *)
(* all the rest.  A piece of what is written may have a backslash before it. *)
Escape ==
  [text |-> "text", apostrophe |-> "apostrophe", quote |-> "escaped quote", break |-> "slashN",
   slash |-> "escaped slash", slashN |-> "escaped slashN"]

\* Mutant: the strings of 0.7.0, whatever it is between double quotes.
TomlStringAsIs(value) == [quotes |-> "double", body |-> value]

TomlString(value) ==
  IF Contains(value, "apostrophe") \/ Contains(value, "break")
  THEN [quotes |-> "double", body |-> [i \in DOMAIN value |-> Escape[value[i]]]]
  ELSE [quotes |-> "single", body |-> value]

\* Every piece is itself again, but for a raw slashN: that is what a break is written as.
Unescape(piece) ==
  CASE piece = "slashN"         -> "break"
    [] piece = "escaped quote"  -> "quote"
    [] piece = "escaped slash"  -> "slash"
    [] piece = "escaped slashN" -> "slashN"
    [] OTHER                    -> piece

TomlValue(text) ==
  IF text.quotes = "single" THEN text.body ELSE [i \in DOMAIN text.body |-> Unescape(text.body[i])]

Line(is, text) == [is |-> is, text |-> text]
Comment == Line("#", <<>>)

\* One game of the manifest, commented out when it is not one to dump.  A key without a
\* value reads as no key; a runtime is a single word, in single quotes.
GameLines(found) ==
  LET lines == <<Line("[[game]]", <<>>), Line("name", TomlString(found.name)),
                 Line("runtime", found.runtime), Line("exe", TomlString(found.exe)),
                 Line("metadata", TomlString(found.metadata)), Line("label", TomlString(<<"text">>))>>
  IN  IF found.runtime \in {"il2cpp", "unreal", "mono"}
      THEN lines
      ELSE [i \in DOMAIN lines |-> Comment]

ScanGames(games) == FlattenSeq([i \in DOMAIN games |-> GameLines(games[i])])

NewEntry == [name |-> <<>>, runtime |-> "", exe |-> <<>>, metadata |-> <<>>]

ReadLine(entries, line) ==
  CASE line.is = "[[game]]" -> Append(entries, NewEntry)
    [] line.is = "runtime" /\ entries # <<>> ->
         [entries EXCEPT ![Len(entries)].runtime = line.text]
    [] line.is \in {"name", "exe", "metadata"} /\ entries # <<>> ->
         [entries EXCEPT ![Len(entries)][line.is] = TomlValue(line.text)]
    [] OTHER -> entries

ReadManifest(lines) == FoldLeft(ReadLine, <<>>, lines)
-----------------------------------------------------------------------------
Entries == ReadManifest(ScanGames(Found))
Entry   == DOMAIN Entries

Injected(e) == Entries[e].runtime \in {"il2cpp", "mono"} /\ Entries[e].exe # <<>>
HasFiles(e) == Entries[e].metadata # <<>>

\* The dump of an entry, in the one folder of the batch: entries of one name share it.
PathOf(e) == IF Entries[e].name = <<>> THEN Unnamed ELSE Entries[e].name
Paths     == {PathOf(e) : e \in Entry}

\* The game of a path, if there is one.
OnDisk(path) == {GameOf[i] : i \in {i \in DOMAIN Found : Found[i].exe = path}}

Verdicts  == {"dumped", "degraded", "failed", "nothing"}
ExitCodes == {0, 3, 4}

\* What ReadManifest makes of a list is a sequence.
ASSUME EntriesAssumption == Entry = 1 .. Len(Entries) /\ Len(Entries) \in Nat

ASSUME BatchAssumption ==
  /\ GameOf \in [DOMAIN Found -> Games]
  /\ Calls = Entry \X Games /\ Target = [c \in Calls |-> c[2]]
  /\ Waits = Calls /\ Headless = Calls /\ Quiet = {} /\ Unreal = {}
  /\ Wrapped \subseteq Games /\ Frail \subseteq Games
  /\ Nothing \notin Games /\ Nothing \notin Verdicts /\ Nothing \notin ExitCodes

VARIABLES at,       \* the entry it is at
          doing,    \* what it does with it
          runtime,  \* of each game: is it started, is its runtime mapped
          wrapper,  \* games whose wrapper runs
          tried,    \* entries whose executable it found
          file,     \* the dump at each path
          verdict,  \* what became of each entry
          exit      \* the exit code

list      == <<at, doing, tried, verdict, exit>>
handshake == vars
batch     == <<vars, at, doing, runtime, wrapper, tried, file, verdict, exit>>

BatchInit ==
  /\ Init
  /\ at = 1 /\ doing = "next"
  /\ runtime = [g \in Games |-> "off"]
  /\ wrapper = {}
  /\ tried = {}
  /\ file = [path \in Paths |-> Nothing]
  /\ verdict = [e \in Entry |-> Nothing]
  /\ exit = Nothing

Up == {g \in alive : runtime[g] = "up"}
InjectionOf(e) == {c \in Calls : c[1] = e /\ call[c] # "idle"}
Code(e) == {call[c] : c \in InjectionOf(e)}

Judge(e, as) ==
  /\ verdict' = [verdict EXCEPT ![e] = as]
  /\ at' = e + 1
  /\ doing' = "next"
-----------------------------------------------------------------------------
(* CommandBatch, up to the injection                                       *)

\* An Unreal game, or one of nothing known: a warning, and neither done nor failed.
NothingToDo(e) ==
  /\ doing = "next" /\ at = e /\ ~Injected(e) /\ ~HasFiles(e)
  /\ Judge(e, "nothing")
  /\ UNCHANGED <<handshake, runtime, wrapper, tried, file, exit>>

OnlyFiles(e) ==
  /\ doing = "next" /\ at = e /\ ~Injected(e) /\ HasFiles(e)
  /\ doing' = "reading"
  /\ UNCHANGED <<handshake, at, runtime, wrapper, tried, file, verdict, exit>>

Launch(e) ==
  /\ doing = "next" /\ at = e /\ Injected(e)
  /\ \E g \in OnDisk(Entries[e].exe) :
       IF g \in Wrapped
       THEN wrapper' = wrapper \cup {g} /\ UNCHANGED runtime
       ELSE runtime' = [runtime EXCEPT ![g] = "starting"] /\ UNCHANGED wrapper
  /\ tried' = tried \cup {e}
  /\ doing' = "launching"
  /\ UNCHANGED <<handshake, at, file, verdict, exit>>

\* There is no such executable, or CreateProcessW will not have it.
DoesNotStart(e) ==
  /\ doing = "next" /\ at = e /\ Injected(e)
  /\ tried' = IF OnDisk(Entries[e].exe) = {} THEN tried ELSE tried \cup {e}
  /\ doing' = "back"
  /\ UNCHANGED <<handshake, at, runtime, wrapper, file, verdict, exit>>

(* LaunchAndWait                                                           *)

ExeAlive(g) == IF g \in Wrapped THEN g \in wrapper ELSE g \in alive

\* While what was started runs only its own runtime will do; once it is gone, any.
Settle(e, g) ==
  /\ doing = "launching" /\ at = e
  /\ g \in Up
  /\ \A own \in OnDisk(Entries[e].exe) : g = own \/ ~ExeAlive(own)
  /\ Begin(<<e, g>>)
  /\ doing' = "injecting"
  /\ UNCHANGED <<at, runtime, wrapper, tried, file, verdict, exit>>

LaunchTimesOut(e) ==
  /\ doing = "launching" /\ at = e
  /\ doing' = "back"
  /\ UNCHANGED <<handshake, at, runtime, wrapper, tried, file, verdict, exit>>

(* What follows the injection                                              *)

\* CommandInject closes what it launched when it went well, and only then.
Close(e) ==
  \E c \in InjectionOf(e) :
    IF Target[c] \in alive THEN GameDies(Target[c]) ELSE UNCHANGED handshake

Done(e) ==
  /\ doing = "injecting" /\ at = e /\ "ok" \in Code(e)
  /\ Close(e)
  /\ Judge(e, "dumped")
  /\ UNCHANGED <<runtime, wrapper, tried, file, exit>>

NotDone(e) ==
  /\ doing = "injecting" /\ at = e
  /\ Code(e) # {} /\ Code(e) \subseteq Returned \ {"ok", "loaded"}
  /\ doing' = "back"
  /\ UNCHANGED <<handshake, at, runtime, wrapper, tried, file, verdict, exit>>

FallBack(e) ==
  /\ doing = "back" /\ at = e /\ HasFiles(e)
  /\ doing' = "reading"
  /\ UNCHANGED <<handshake, at, runtime, wrapper, tried, file, verdict, exit>>

NoFallBack(e) ==
  /\ doing = "back" /\ at = e /\ ~HasFiles(e)
  /\ Judge(e, "failed")
  /\ UNCHANGED <<handshake, runtime, wrapper, tried, file, exit>>

\* The payload of g is writing this path, on the options of an entry.
WalksTo(g, path) == payload[g] = "walking" /\ took[g] # None /\ PathOf(took[g][1]) = path

WriteFiles(e) ==
  \E wrote \in {"files", "mixed"} :
    /\ wrote = "mixed" => \E g \in Games : WalksTo(g, PathOf(e))
    /\ file' = [file EXCEPT ![PathOf(e)] = wrote]

\* Mutant: a fallback that went well is as good as a walk, which is what 0.7.0 counted.
ReadFilesAsDumped(e) ==
  /\ doing = "reading" /\ at = e
  /\ WriteFiles(e)
  /\ Judge(e, "dumped")
  /\ UNCHANGED <<handshake, runtime, wrapper, tried, exit>>

\* CommandStaticDump, CommandManagedDump: all of WriteDumpFile.  A payload that was given
\* up on may be writing the same path.
ReadFiles(e) ==
  /\ doing = "reading" /\ at = e
  /\ WriteFiles(e)
  /\ Judge(e, IF Injected(e) THEN "degraded" ELSE "dumped")
  /\ UNCHANGED <<handshake, runtime, wrapper, tried, exit>>

FilesUnreadable(e) ==
  /\ doing = "reading" /\ at = e
  /\ Judge(e, "failed")
  /\ UNCHANGED <<handshake, runtime, wrapper, tried, file, exit>>

\* 4 when anything failed, else 3 when anything is from its files instead of a walk.
Exit ==
  /\ doing = "next" /\ at > Len(Entries) /\ exit = Nothing
  /\ exit' = IF \E e \in Entry : verdict[e] = "failed" THEN 4
             ELSE IF \E e \in Entry : verdict[e] = "degraded" THEN 3 ELSE 0
  /\ UNCHANGED <<handshake, at, doing, runtime, wrapper, tried, file, verdict>>
-----------------------------------------------------------------------------
(* The games                                                               *)

WrapperExits(g) ==
  /\ g \in wrapper
  /\ wrapper' = wrapper \ {g}
  /\ runtime' = [runtime EXCEPT ![g] = "starting"]
  /\ UNCHANGED <<handshake, list, file>>

RuntimeMapped(g) ==
  /\ g \in alive /\ runtime[g] = "starting"
  /\ runtime' = [runtime EXCEPT ![g] = "up"]
  /\ UNCHANGED <<handshake, list, wrapper, file>>

GameCloses(g) ==
  /\ runtime[g] # "off" /\ (g \in Frail \/ \E e \in Entry : call[<<e, g>>] # "idle")
  /\ GameDies(g)
  /\ UNCHANGED <<list, runtime, wrapper, file>>

\* A walk on the options of an entry writes its path, at any time up to its end: if the
\* batch has gone on to the files of that entry, or another walk is at that path, both
\* may have been writing.
WalkWrites(g) ==
  /\ Walk(g)
  /\ IF outcome'[g] # "dumped" \/ took[g] = None THEN UNCHANGED file
     ELSE LET e == took[g][1] IN
          \E wrote \in {g, "mixed"} :
            /\ wrote = "mixed" => \/ at > e \/ doing \in {"back", "reading"}
                                 \/ \E h \in Games \ {g} : WalksTo(h, PathOf(e))
            /\ file' = [file EXCEPT ![PathOf(e)] = wrote]
  /\ UNCHANGED <<list, runtime, wrapper>>

InGame(g) ==
  \/ WalkWrites(g)
  \/ /\ ReadHandoff(g) \/ RemoveTaken(g) \/ SayNothing(g) \/ OpenStatus(g) \/ WriteStatus(g)
     /\ UNCHANGED <<list, runtime, wrapper, file>>

InCall(c) ==
  /\ CallStep(c)
  /\ UNCHANGED <<list, runtime, wrapper, file>>

GivesUp(c) ==
  /\ TimeOut(c)
  /\ UNCHANGED <<list, runtime, wrapper, file>>

\* The payload outlasts --timeout, or its loader the 10 s it is given.
Outlasts(c) ==
  /\ TimeOut(c) \/ LateLoad(c)
  /\ UNCHANGED <<list, runtime, wrapper, file>>

Unloads(g) ==
  /\ Unload(g)
  /\ UNCHANGED <<list, runtime, wrapper, file>>

EntryStep(e) ==
  \/ NothingToDo(e) \/ OnlyFiles(e) \/ Launch(e) \/ DoesNotStart(e)
  \/ (\E g \in Games : Settle(e, g)) \/ LaunchTimesOut(e)
  \/ Done(e) \/ NotDone(e) \/ FallBack(e) \/ NoFallBack(e)
  \/ ReadFiles(e) \/ FilesUnreadable(e)

BatchNext ==
  \/ Exit
  \/ \E e \in Entry : EntryStep(e)
  \/ \E c \in Calls : InCall(c) \/ Outlasts(c)
  \/ \E g \in Games : WrapperExits(g) \/ RuntimeMapped(g) \/ GameCloses(g) \/ InGame(g) \/ Unloads(g)

\* The batch's thread and its clock, and the threads of the payloads: --timeout is always
\* finite, so a call does not look again for ever.  Nothing makes a game start.
BatchFairness ==
  /\ WF_batch(Exit)
  /\ \A e \in Entry : WF_batch(EntryStep(e))
  /\ \A c \in Calls : WF_batch(InCall(c))
  /\ SF_batch(\E c \in Calls : GivesUp(c))
  /\ \A g \in Games : WF_batch(InGame(g)) /\ WF_batch(Unloads(g))

BatchSpec == BatchInit /\ [][BatchNext]_batch /\ BatchFairness
-----------------------------------------------------------------------------
(* Properties                                                              *)

TimedOut(e) == "timeout" \in Code(e)

\* Another entry of the same name has been at the path: a later one, or the walk of an
\* earlier one that was given up on.
Begun(e) == e < at \/ (e = at /\ doing # "next")
Overwritten(e) ==
  \E f \in Entry \ {e} : PathOf(f) = PathOf(e) /\ Begun(f) /\ (f < e => TimedOut(f))

\* A call is into the game that the executable of its entry starts.
SettledRight(c) == c[2] \in OnDisk(Entries[c[1]].exe)
AllRight == \A c \in Calls : call[c] # "idle" => SettledRight(c)

DumpedIsThere(e) ==
  verdict[e] = "dumped" /\ Injected(e) =>
    \E g \in OnDisk(Entries[e].exe) :
      /\ g \notin alive
      /\ \A c \in InjectionOf(e) : c[2] = g /\ Heard(c)
      /\ (\A c \in InjectionOf(e) : answer[c].result = "dumped") /\ ~Overwritten(e) =>
           file[PathOf(e)] = g

DegradedIsThere(e) ==
  verdict[e] = "degraded" /\ ~TimedOut(e) /\ ~Overwritten(e) => file[PathOf(e)] = "files"

\* A batch injects into another game than the entry's only when an earlier entry has
\* started one, and then for a game that a store wraps or that died early, or after it
\* has been wrong before.
WrongOnlyAfter(c) ==
  call[c] # "idle" /\ ~SettledRight(c) =>
    /\ \E f \in Entry : f < c[1] /\ Injected(f)
    /\ \/ OnDisk(Entries[c[1]].exe) \cap (Wrapped \cup Frail) # {}
       \/ \E d \in Calls : d[1] < c[1] /\ call[d] # "idle" /\ ~SettledRight(d)

\* What the batch says of a game is true of the file it left (CHANGELOG.md:234, "A degraded
\* batch reported success"), as long as it has injected into the right games: of one that is
\* counted as dumped it has heard from that very game and from the run on its own options,
\* the game is closed, and the walk is at its path if the payload could write it and no
\* entry of the same name came over it; one that is degraded has a whole dump there, unless
\* its walk was left running; and exit 0 is only for a batch without that or a failure.
BatchTellsTruth ==
  /\ \A c \in Calls : WrongOnlyAfter(c)
  /\ AllRight => \A e \in Entry : DumpedIsThere(e) /\ DegradedIsThere(e)
  /\ exit = 0 => \A e \in Entry : verdict[e] \in {"dumped", "nothing"}

\* "One failing does not stop the rest" (README.md:1000): a batch ends, whatever its
\* games do, with the executable of every game it can inject found and every entry judged.
EveryGameTried ==
  <>(/\ exit # Nothing
     /\ \A i \in DOMAIN Found : Found[i].runtime \in {"il2cpp", "mono"} /\ Found[i].exe # <<>> =>
          \E e \in tried : Entries[e].exe = Found[i].exe
     /\ \A e \in Entry : verdict[e] # Nothing)
=============================================================================
