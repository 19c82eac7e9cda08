------------------------------ MODULE Browser ------------------------------
(***************************************************************************)
(* The live object browser (gui/Browser.cpp, drawn by the frame loop of    *)
(* gui/Host.cpp): one UI thread that reads and writes a running game       *)
(* through a page cache nothing ages (core/CachedMemorySource.cpp), a      *)
(* worker that dumps the game through the same cache without a lock, and a *)
(* worker that publishes.  The game goes on changing underneath.           *)
(*                                                                         *)
(* An object is an address with a page of its own.  What a page holds is   *)
(* the set of flags that are set in the one byte its bools are packed      *)
(* into, and a flag is a row of the table: BoolProperty is the kind whose  *)
(* write depends on a read (engine/ValueWriter.cpp).  A frame is one or    *)
(* more steps of the UI thread, and what a click leads to is one of them.  *)
(***************************************************************************)
EXTENDS Integers, FiniteSets

CONSTANTS Addrs,        \* where the objects of a target are
          Rows,         \* the flags of an object
          Unmapped,     \* a page that cannot be read
          NotCached,    \* a page that is in no slot
          NotRead,      \* an object the dump has not come to
          Nothing,      \* no object, no row, no values
          MaxFailures,  \* writes in a row a frozen value may fail: 30 in the code
          MaxTicks,     \* bound: how often the game changes a page by itself
          MaxSessions,  \* bound: targets attached to
          MaxFrozen     \* bound: values frozen at once

Pages == (SUBSET Rows) \cup {Unmapped}

ASSUME ConstantsAssumption ==
  /\ Nothing \notin Addrs \cup Rows
  /\ \A page \in Pages : page \notin {NotRead, NotCached}
  /\ MaxFailures \in Nat
  /\ {MaxTicks, MaxSessions, MaxFrozen} \subseteq Nat

VARIABLES mem,         \* the pages of the target
          cache,       \* the read cache's copies of them
          provider,    \* whether the provider at the bottom takes writes
          attached,    \* a target is open
          sessions,    \* targets opened so far
          ticks,       \* changes the game made
          writes,      \* "Allow edits" is ticked
          paused,      \* "Pause" is ticked
          entries,     \* the objects of the index
          selected,    \* the one selected
          rows,        \* the flags the table shows as set
          readFrom,    \* the object they were read from
          editRow,     \* the row being edited
          frozen,      \* values held against the game
          popup,       \* the modal that is open
          dumping,     \* the dump worker is running
          dumped,      \* what it has read
          held,        \* history: what each page held since that dump began
          publishing,  \* the publish worker: "none", "running", or "told" to stop
          window       \* "shown", "occluded", "closing" or "gone"

target  == <<mem, ticks>>
session == <<provider, attached, sessions, writes>>
table   == <<selected, rows, readFrom>>
worker  == <<dumping, dumped>>
vars == <<target, cache, session, paused, entries, table, editRow, frozen, popup,
          worker, held, publishing, window>>

Frozen == [addr : Addrs, row : Rows, on : BOOLEAN, failures : 0 .. MaxFailures]

TypeOK ==
  /\ mem \in [Addrs -> Pages]
  /\ cache \in [Addrs -> Pages \cup {NotCached}]
  /\ {provider, attached, writes, paused, dumping} \subseteq BOOLEAN
  /\ sessions \in 0 .. MaxSessions /\ ticks \in 0 .. MaxTicks
  /\ entries \subseteq Addrs
  /\ selected \in entries \cup {Nothing}
  /\ rows \in (SUBSET Rows) \cup {Nothing}
  /\ readFrom \in Addrs \cup {Nothing}
  /\ editRow \in Rows \cup {Nothing}
  /\ frozen \subseteq Frozen
  /\ popup \in {"none", "dump", "publish"}
  /\ dumped \in [Addrs -> Pages \cup {NotRead}]
  /\ held \in [Addrs -> SUBSET Pages]
  /\ publishing \in {"none", "running", "told"}
  /\ window \in {"shown", "occluded", "closing", "gone"}
-----------------------------------------------------------------------------
(* The read cache                                                          *)

Dropped == [a \in Addrs |-> NotCached]

\* What a read of a page returns, and leaves in its slot: a miss is cached like a hit.
Fetched(a) == IF cache[a] = NotCached THEN mem[a] ELSE cache[a]
Filled(a)  == [cache EXCEPT ![a] = Fetched(a)]

\* Invalidate, and then a read of one page: the miss is the target's.
Reread(a, pages) == [Dropped EXCEPT ![a] = pages[a]]

\* The slots once pages were written: Write drops what it changed, and nothing else.
AfterWrite(as) == [a \in Addrs |-> IF a \in as THEN NotCached ELSE cache[a]]
-----------------------------------------------------------------------------
(* The target                                                              *)

\* What the pages have held since the dump began.
Watch == held' = [a \in Addrs |-> IF dumping THEN held[a] \cup {mem'[a]} ELSE {}]

GameTick(a) ==
  /\ attached /\ ticks < MaxTicks
  /\ \E page \in Pages \ {mem[a]} : mem' = [mem EXCEPT ![a] = page]
  /\ ticks' = ticks + 1
  /\ Watch
  /\ UNCHANGED <<cache, session, paused, entries, table, editRow, frozen, popup,
                 worker, publishing, window>>

\* The byte after one flag of it is set or cleared, as the writer saw it.
Updated(byte, row, on) == IF on THEN byte \cup {row} ELSE byte \ {row}

\* WritePropertyValue on a flag gets as far as the write, and the target takes it.
Takes(a) == provider /\ Fetched(a) # Unmapped /\ mem[a] # Unmapped
-----------------------------------------------------------------------------
(* What the user can reach                                                 *)

Drawn == window = "shown"

\* Mutant: a popup that does not block what is behind it.
ReachableBehind == Drawn /\ attached

\* A modal popup takes every click outside it.
Reachable == Drawn /\ attached /\ popup = "none"

\* DrawInspector gets as far as the table.
TableShown == ~dumping /\ selected # Nothing /\ rows # Nothing
-----------------------------------------------------------------------------
(* Targets and the index                                                   *)

Init ==
  /\ mem = [a \in Addrs |-> {}] /\ ticks = 0
  /\ cache = Dropped
  /\ provider = FALSE /\ attached = FALSE /\ sessions = 0 /\ writes = FALSE
  /\ paused = FALSE
  /\ entries = {} /\ selected = Nothing /\ rows = Nothing /\ readFrom = Nothing
  /\ editRow = Nothing
  /\ frozen = {}
  /\ popup = "none"
  /\ dumping = FALSE /\ dumped = [a \in Addrs |-> NotRead]
  /\ held = [a \in Addrs |-> {}]
  /\ publishing = "none"
  /\ window = "shown"

\* RebuildIndex: every object is looked at afresh, one without a readable name is left
\* out, and nothing is selected.
RebuildIndex(pages) ==
  /\ cache' = pages
  /\ entries' = {a \in Addrs : pages[a] # Unmapped}
  /\ selected' = Nothing
  /\ rows' = Nothing
  /\ UNCHANGED readFrom

\* A source of its own comes with an empty cache and with writes off.
TakeTarget ==
  /\ mem' = [a \in Addrs |-> {}]
  /\ attached' = TRUE
  /\ provider' = FALSE
  /\ sessions' = sessions + 1
  /\ RebuildIndex(mem')
  /\ UNCHANGED <<ticks, writes, paused, editRow, frozen, popup, worker, held, publishing,
                 window>>

Attach == Drawn /\ ~attached /\ sessions < MaxSessions /\ TakeTarget

\* The payload hands its own target over before the first frame.
Adopt == Drawn /\ sessions = 0 /\ sessions < MaxSessions /\ TakeTarget


SwitchAfterDetach == FALSE

Detach ==
  /\ Reachable /\ ~dumping
  /\ attached' = FALSE
  /\ provider' = FALSE
  /\ writes' = SwitchAfterDetach
  /\ editRow' = Nothing
  /\ entries' = {} /\ selected' = Nothing /\ rows' = Nothing
  /\ cache' = Dropped
  /\ UNCHANGED <<target, sessions, paused, readFrom, frozen, popup, worker, held,
                 publishing, window>>

Reindex ==
  /\ Reachable /\ ~dumping
  /\ RebuildIndex(mem)
  /\ UNCHANGED <<target, session, paused, editRow, frozen, popup, worker, held,
                 publishing, window>>

Pause ==
  /\ Reachable
  /\ paused' = ~paused
  /\ UNCHANGED <<target, cache, session, entries, table, editRow, frozen, popup, worker,
                 held, publishing, window>>

\* The provider may refuse to be switched on: the process cannot be opened for writing.
AllowEdits ==
  /\ Reachable
  /\ \E granted \in BOOLEAN : provider' = (~writes /\ granted)
  /\ writes' = provider'
  /\ editRow' = Nothing
  /\ UNCHANGED <<target, cache, attached, sessions, paused, entries, table, frozen, popup,
                 worker, held, publishing, window>>
-----------------------------------------------------------------------------
(* The inspector                                                           *)

\* RefreshRows of object a: the cache goes, the page is read anew, and an object that is
\* no longer there has no class and so no properties.
RefreshRows(a, pages) ==
  /\ selected' = a
  /\ readFrom' = a
  /\ cache' = Reread(a, pages)
  /\ rows' = IF pages[a] = Unmapped THEN Nothing ELSE pages[a]

\* An edit that is open stays open.
SelectObject(a) ==
  /\ Reachable /\ a \in entries
  /\ RefreshRows(a, mem)
  /\ UNCHANGED <<target, session, paused, entries, editRow, frozen, popup, worker, held,
                 publishing, window>>

\* The timer of the table, or a click on one of its two boxes.
RefreshTable ==
  /\ Drawn /\ attached /\ ~dumping /\ selected # Nothing
  /\ ~paused \/ Reachable
  /\ RefreshRows(selected, mem)
  /\ UNCHANGED <<target, session, paused, entries, editRow, frozen, popup, worker, held,
                 publishing, window>>

\* The script of the selected object, read through whatever the cache has.
ReadScript ==
  /\ Drawn /\ attached /\ ~dumping /\ selected # Nothing
  /\ cache' = Filled(selected)
  /\ UNCHANGED <<target, session, paused, entries, table, editRow, frozen, popup, worker,
                 held, publishing, window>>

IsFrozen(r) == \E f \in frozen : f.addr = readFrom /\ f.row = r

BeginEdit(r) ==
  /\ Reachable /\ TableShown /\ writes /\ ~IsFrozen(r) /\ editRow # r
  /\ editRow' = r
  /\ UNCHANGED <<target, cache, session, paused, entries, table, frozen, popup, worker,
                 held, publishing, window>>

CancelEdit ==
  /\ Reachable /\ TableShown /\ editRow # Nothing
  /\ editRow' = Nothing
  /\ UNCHANGED <<target, cache, session, paused, entries, table, frozen, popup, worker,
                 held, publishing, window>>

\* The byte is read, changed and written back.
WriteFlag(a, r, on) ==
  mem' = IF Takes(a) THEN [mem EXCEPT ![a] = Updated(Fetched(a), r, on)] ELSE mem

\* Enter: the text goes into the row of that number of whatever the table shows now, unless
\* it reads as no value of it, and the table is read again either way.
CommitEdit ==
  /\ Reachable /\ TableShown /\ editRow # Nothing
  /\ \/ \E on \in BOOLEAN : WriteFlag(readFrom, editRow, on)
     \/ UNCHANGED mem
  /\ RefreshRows(selected, mem')
  /\ editRow' = Nothing
  /\ Watch
  /\ UNCHANGED <<ticks, session, paused, entries, frozen, popup, worker, publishing,
                 window>>
-----------------------------------------------------------------------------
(* Frozen values                                                           *)

ToggleFreeze(r) ==
  /\ Reachable /\ TableShown /\ writes
  /\ frozen' = IF IsFrozen(r)
               THEN {f \in frozen : f.addr # readFrom \/ f.row # r}
               ELSE frozen \cup {[addr |-> readFrom, row |-> r, on |-> r \in rows,
                                  failures |-> 0]}
  /\ Cardinality(frozen') <= MaxFrozen
  /\ UNCHANGED <<target, cache, session, paused, entries, table, editRow, popup, worker,
                 held, publishing, window>>

\* The panel under the table: one value, or all of them.
Release ==
  /\ Reachable /\ TableShown
  /\ \E released \in ({{f} : f \in frozen} \cup {frozen}) \ {{}} :
        frozen' = frozen \ released
  /\ UNCHANGED <<target, cache, session, paused, entries, table, editRow, popup, worker,
                 held, publishing, window>>

FrozenAt(a) == {f \in frozen : f.addr = a}
FlagsAt(a, on) == {f.row : f \in {g \in FrozenAt(a) : g.on = on}}

\* Mutant: no freezing while the table is paused.
FreezesUnpaused == frozen # {} /\ writes /\ ~dumping /\ ~paused

\* ApplyFrozen has something to do.
Freezes == frozen # {} /\ writes /\ ~dumping

\* A value that has failed for about a second is let go.
StillTried(f) == f.failures <= MaxFailures

\* Each value is written in turn, and each reads the byte the one before left.
ApplyFrozen ==
  /\ Drawn /\ attached /\ Freezes
  /\ LET written == {a \in Addrs : FrozenAt(a) # {} /\ Takes(a)}
         failed  == {a \in Addrs : FrozenAt(a) # {} /\ ~Takes(a)}
         After(f) == [f EXCEPT !.failures = IF f.addr \in written THEN 0 ELSE @ + 1]
     IN /\ mem' = [a \in Addrs |-> IF a \in written
                                   THEN (Fetched(a) \ FlagsAt(a, FALSE)) \cup FlagsAt(a, TRUE)
                                   ELSE mem[a]]
        /\ cache' = [a \in Addrs |-> IF a \in failed THEN Fetched(a) ELSE AfterWrite(written)[a]]
        /\ frozen' = {f \in {After(g) : g \in frozen} : StillTried(f)}
  /\ Watch
  /\ UNCHANGED <<ticks, session, paused, entries, table, editRow, popup, worker, publishing,
                 window>>
-----------------------------------------------------------------------------
(* Dumping                                                                 *)

OpenPopup ==
  /\ Reachable
  /\ popup' \in {"dump", "publish"}
  /\ UNCHANGED <<target, cache, session, paused, entries, table, editRow, frozen, worker,
                 held, publishing, window>>

ClosePopup ==
  /\ Drawn /\ attached /\ popup # "none"
  /\ IF popup = "dump" THEN ~dumping ELSE publishing = "none"
  /\ popup' = "none"
  /\ UNCHANGED <<target, cache, session, paused, entries, table, editRow, frozen, worker,
                 held, publishing, window>>

\* Mutant: the dump reads through the pages browsing left.
CacheForDumpKept == cache

\* Invalidate, before the worker starts.
CacheForDump == Dropped

StartDump ==
  /\ Drawn /\ attached /\ popup = "dump" /\ ~dumping
  /\ cache' = CacheForDump
  /\ dumping' = TRUE
  /\ dumped' = [a \in Addrs |-> NotRead]
  /\ held' = [a \in Addrs |-> {mem[a]}]
  /\ UNCHANGED <<target, session, paused, entries, table, editRow, frozen, popup, publishing,
                 window>>

\* BuildDump comes to an object.
DumpRead(a) ==
  /\ dumping /\ dumped[a] = NotRead
  /\ dumped' = [dumped EXCEPT ![a] = Fetched(a)]
  /\ cache' = Filled(a)
  /\ UNCHANGED <<target, session, paused, entries, table, editRow, frozen, popup, dumping,
                 held, publishing, window>>

\* The files are written, or the folder could not be made.
DumpEnds ==
  /\ dumping /\ \A a \in Addrs : dumped[a] # NotRead
  /\ dumping' = FALSE
  /\ dumped' = [a \in Addrs |-> NotRead]
  /\ held' = [a \in Addrs |-> {}]
  /\ UNCHANGED <<target, cache, session, paused, entries, table, editRow, frozen, popup,
                 publishing, window>>
-----------------------------------------------------------------------------
(* Publishing, and the end                                                 *)

browsing == <<target, cache, session, paused, entries, table, editRow, frozen, worker, held>>

StartPublish ==
  /\ Drawn /\ attached /\ popup = "publish" /\ publishing = "none"
  /\ publishing' = "running"
  /\ UNCHANGED <<browsing, popup, window>>

CancelPublish ==
  /\ Drawn /\ popup = "publish" /\ publishing = "running"
  /\ publishing' = "told"
  /\ UNCHANGED <<browsing, popup, window>>

\* The upload is over, or its worker finds that it should not go on.
PublishEnds ==
  /\ publishing # "none"
  /\ publishing' = "none"
  /\ UNCHANGED <<browsing, popup, window>>

PublishStops == publishing = "told" /\ PublishEnds

\* A window nobody can see is not drawn.
Occlude ==
  /\ window \in {"shown", "occluded"}
  /\ window' = IF window = "shown" THEN "occluded" ELSE "shown"
  /\ UNCHANGED <<browsing, popup, publishing>>

\* Mutant: the workers are waited for, and told nothing.
TellPublishNothing == publishing

TellPublish == IF publishing = "running" THEN "told" ELSE publishing

\* Quit, or the window is closed: the destructor tells the publish worker to stop.
Quit ==
  /\ window \in {"shown", "occluded"}
  /\ window' = "closing"
  /\ publishing' = TellPublish
  /\ UNCHANGED <<browsing, popup>>

\* Both workers are joined.
Join ==
  /\ window = "closing" /\ ~dumping /\ publishing = "none"
  /\ window' = "gone"
  /\ UNCHANGED <<browsing, popup, publishing>>
-----------------------------------------------------------------------------
DumpStep == DumpEnds \/ \E a \in Addrs : DumpRead(a)

Next ==
  \/ \E a \in Addrs : GameTick(a) \/ SelectObject(a)
  \/ \E r \in Rows : BeginEdit(r) \/ ToggleFreeze(r)
  \/ Attach \/ Adopt \/ Detach \/ Reindex \/ Pause \/ AllowEdits
  \/ RefreshTable \/ ReadScript \/ CancelEdit \/ CommitEdit
  \/ Release \/ ApplyFrozen
  \/ OpenPopup \/ ClosePopup \/ StartDump \/ DumpStep
  \/ StartPublish \/ CancelPublish \/ PublishEnds
  \/ Occlude \/ Quit \/ Join

\* Every frame that is drawn ends in ApplyFrozen, 33 times a second at most.  A dump is
\* finite work, an upload asks at every chunk and every poll whether to go on.  The user,
\* the game and the server owe nothing.
Fairness ==
  /\ SF_vars(ApplyFrozen)
  /\ WF_vars(DumpStep)
  /\ WF_vars(PublishStops)
  /\ WF_vars(Join)

Spec == Init /\ [][Next]_vars
FairSpec == Spec /\ Fairness
-----------------------------------------------------------------------------
(* Properties                                                              *)

\* A dump does not mix moments (Browser.cpp:833-837, CHANGELOG.md:893): what it has of an
\* object was there at some time since the dump began.
DumpIsOfItsTime == \A a \in Addrs : dumped[a] # NotRead => dumped[a] \in held[a]

\* While a dump runs the browser neither reads nor writes the game (Browser.h:193-197,
\* README.md:454), though nothing locks the cache the two share.
OneReader ==
  [][dumping /\ dumping' =>
       /\ table' = table
       /\ ticks' = ticks => mem' = mem
       /\ cache' # cache => dumped' # dumped]_vars

\* The value is held, and nothing but the game stands against it.
Held(a, r, on) ==
  /\ \E f \in frozen : f.addr = a /\ f.row = r /\ f.on = on
  /\ attached /\ writes /\ ~dumping
  /\ mem[a] # Unmapped /\ cache[a] # Unmapped
  /\ window \in {"shown", "occluded"}

\* A frozen value is put back, whatever the game does to it, as long as there are frames.
FrozenHoldsWhileDrawn ==
  \A a \in Addrs, r \in Rows, on \in BOOLEAN :
    []<>(Drawn /\ Held(a, r, on) => (r \in mem[a]) = on)

\* Closing the window in the middle of anything ends the program: the destructor waits
\* for both workers, and neither waits for it.
ClosesInTheEnd == window = "closing" ~> window = "gone"
=============================================================================
