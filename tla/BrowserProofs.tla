----------------------------- MODULE BrowserProofs ---------------------------
(***************************************************************************)
(* Proofs about Browser, for every set of objects and flags, and for as    *)
(* many changes of the game, targets and frozen values as one likes.       *)
(*                                                                         *)
(* Nothing locks the cache that the dump worker shares with the browser:   *)
(* what keeps the two apart is that the dump's own popup is open for as    *)
(* long as it runs, and that a modal popup takes every click.              *)
(***************************************************************************)
EXTENDS Browser, TLAPS

\* The popup of the dump stays open, over the target it began with.
DumpsBehindPopup ==
  /\ dumping => attached /\ popup = "dump"
  /\ attached => sessions # 0

\* The rows of the table are of the object selected.
TableOfSelected == rows # Nothing => selected # Nothing /\ readFrom = selected

\* What the dump may come to read is of its time, and so is what it has read.
OfItsTime(a) ==
  /\ dumping => mem[a] \in held[a] /\ cache[a] \in held[a] \cup {NotCached}
  /\ dumped[a] # NotRead => dumping /\ dumped[a] \in held[a]

BrowserInv ==
  /\ TypeOK
  /\ DumpsBehindPopup
  /\ TableOfSelected
  /\ \A a \in Addrs : OfItsTime(a)

-----------------------------------------------------------------------------
LEMMA FetchedIsPage ==
  ASSUME TypeOK, NEW a \in Addrs
  PROVE  /\ Fetched(a) \in Pages
         /\ Filled(a) \in [Addrs -> Pages \cup {NotCached}]
BY DEF TypeOK, Fetched, Filled

LEMMA InitKept == Init => BrowserInv
<1> SUFFICES ASSUME Init PROVE BrowserInv
  OBVIOUS
<1>1. TypeOK
  <2>1. /\ mem \in [Addrs -> Pages] /\ cache \in [Addrs -> Pages \cup {NotCached}]
        /\ dumped \in [Addrs -> Pages \cup {NotRead}] /\ held \in [Addrs -> SUBSET Pages]
    BY DEF Init, Pages, Dropped
  <2>2. sessions \in 0 .. MaxSessions /\ ticks \in 0 .. MaxTicks
    BY ConstantsAssumption DEF Init, ConstantsAssumption
  <2>3. {provider, attached, writes, paused, dumping} \subseteq BOOLEAN
    BY Zenon DEF Init
  <2> QED BY <2>1, <2>2, <2>3 DEF Init, TypeOK
<1>2. \A a \in Addrs : OfItsTime(a)
  BY DEF Init, OfItsTime
<1> QED BY <1>1, <1>2 DEF Init, BrowserInv, DumpsBehindPopup, TableOfSelected

\* Steps that neither touch the target nor let the dump begin or end.
LEMMA TimeStays ==
  ASSUME BrowserInv, UNCHANGED <<mem, worker, held>>,
         dumping => cache' = cache
  PROVE  \A a \in Addrs : OfItsTime(a)'
BY DEF BrowserInv, OfItsTime, worker

\* What the table reads leaves the rows of what it read.
LEMMA RefreshShows ==
  ASSUME NEW a \in Addrs, NEW pages \in [Addrs -> Pages], RefreshRows(a, pages)
  PROVE  /\ selected' = a /\ readFrom' = a /\ a # Nothing
         /\ cache' \in [Addrs -> Pages \cup {NotCached}]
         /\ rows' \in (SUBSET Rows) \cup {Nothing}
BY ConstantsAssumption DEF RefreshRows, Reread, Dropped, Pages, ConstantsAssumption

-----------------------------------------------------------------------------
(***************************************************************************)
(* Each step in turn.                                                      *)
(***************************************************************************)

LEMMA GameTickKept ==
  ASSUME BrowserInv, NEW a \in Addrs, GameTick(a)
  PROVE  BrowserInv'
<1>1. /\ UNCHANGED <<cache, provider, attached, sessions, writes, paused, entries, selected, rows,
                     readFrom, editRow, frozen, popup, dumping, dumped, publishing, window>>
      /\ TypeOK
  BY DEF GameTick, session, table, worker, BrowserInv
<1>2. mem' \in [Addrs -> Pages]
  BY <1>1 DEF GameTick, TypeOK
<1>3. held' = [b \in Addrs |-> IF dumping THEN held[b] \cup {mem'[b]} ELSE {}]
  BY DEF GameTick, Watch
<1>4. ticks' \in 0 .. MaxTicks
  BY <1>1, ConstantsAssumption DEF GameTick, TypeOK, ConstantsAssumption
<1>5. held' \in [Addrs -> SUBSET Pages]
  BY <1>1, <1>2, <1>3 DEF TypeOK
<1>6. TypeOK'
  BY <1>1, <1>2, <1>4, <1>5 DEF TypeOK
<1>7. ASSUME NEW b \in Addrs PROVE OfItsTime(b)'
  BY <1>1, <1>3 DEF BrowserInv, OfItsTime
<1> QED BY <1>1, <1>6, <1>7 DEF BrowserInv, DumpsBehindPopup, TableOfSelected

\* Attaching, detaching, indexing: nothing of it while a dump runs.
LEMMA TargetKept ==
  ASSUME BrowserInv, Attach \/ Adopt \/ Detach \/ Reindex
  PROVE  BrowserInv'
<1>1. TypeOK /\ ~dumping
  BY DEF BrowserInv, DumpsBehindPopup, Attach, Adopt, Detach, Reindex
<1>2. \A a \in Addrs : dumped[a] = NotRead
  BY <1>1 DEF BrowserInv, OfItsTime
<1>3. CASE Attach \/ Adopt
  <2>1. /\ TakeTarget /\ sessions < MaxSessions
    BY <1>3 DEF Attach, Adopt
  <2>2. sessions' \in 0 .. MaxSessions /\ sessions' # 0
    BY <1>1, <2>1, ConstantsAssumption DEF TakeTarget, TypeOK, ConstantsAssumption
  <2>3. mem' \in [Addrs -> Pages]
    BY <2>1 DEF TakeTarget, Pages
  <2>4. TypeOK'
    BY <1>1, <2>1, <2>2, <2>3 DEF TakeTarget, RebuildIndex, TypeOK, worker
  <2>5. DumpsBehindPopup' /\ TableOfSelected' /\ \A a \in Addrs : OfItsTime(a)'
    BY <1>1, <1>2, <2>1, <2>2
       DEF TakeTarget, RebuildIndex, DumpsBehindPopup, TableOfSelected, OfItsTime, worker
  <2> QED BY <2>4, <2>5 DEF BrowserInv
<1>4. CASE Detach
  <2>1. TypeOK'
    BY <1>1, <1>4 DEF Detach, SwitchAfterDetach, TypeOK, Dropped, target, worker
  <2>2. DumpsBehindPopup' /\ TableOfSelected' /\ \A a \in Addrs : OfItsTime(a)'
    BY <1>1, <1>2, <1>4 DEF Detach, DumpsBehindPopup, TableOfSelected, OfItsTime, worker
  <2> QED BY <2>1, <2>2 DEF BrowserInv
<1>5. CASE Reindex
  <2>1. TypeOK'
    BY <1>1, <1>5 DEF Reindex, RebuildIndex, TypeOK, target, session, worker
  <2>2. DumpsBehindPopup' /\ TableOfSelected' /\ \A a \in Addrs : OfItsTime(a)'
    BY <1>1, <1>2, <1>5
       DEF BrowserInv, Reindex, RebuildIndex, DumpsBehindPopup, TableOfSelected, OfItsTime, session,
           worker
  <2> QED BY <2>1, <2>2 DEF BrowserInv
<1> QED BY <1>3, <1>4, <1>5

\* Reading the selected object, and its script.
LEMMA InspectorKept ==
  ASSUME BrowserInv,
         (\E a \in Addrs : SelectObject(a)) \/ RefreshTable \/ ReadScript
  PROVE  BrowserInv'
<1>1. TypeOK /\ ~dumping
  BY DEF BrowserInv, DumpsBehindPopup, SelectObject, Reachable, RefreshTable, ReadScript
<1>2. UNCHANGED <<mem, ticks, provider, attached, sessions, writes, paused, entries, editRow, frozen,
                  popup, dumping, dumped, held, publishing, window>>
  BY DEF SelectObject, RefreshTable, ReadScript, target, session, worker
<1>3. \A a \in Addrs : OfItsTime(a)'
  BY <1>1, <1>2, TimeStays DEF worker
<1>4. DumpsBehindPopup'
  BY <1>1, <1>2 DEF BrowserInv, DumpsBehindPopup
<1>5. ASSUME NEW a \in Addrs, a \in entries, RefreshRows(a, mem) PROVE BrowserInv'
  <2>1. /\ selected' = a /\ readFrom' = a /\ a # Nothing
        /\ cache' \in [Addrs -> Pages \cup {NotCached}]
        /\ rows' \in (SUBSET Rows) \cup {Nothing}
    BY <1>1, <1>5, RefreshShows DEF TypeOK
  <2>2. TypeOK'
    BY <1>1, <1>2, <1>5, <2>1 DEF TypeOK
  <2> QED BY <1>3, <1>4, <2>1, <2>2 DEF BrowserInv, TableOfSelected
<1>6. CASE \E a \in Addrs : SelectObject(a)
  BY <1>5, <1>6 DEF SelectObject
<1>7. CASE RefreshTable
  <2>1. selected \in entries /\ selected \in Addrs /\ RefreshRows(selected, mem)
    BY <1>1, <1>7 DEF RefreshTable, TypeOK
  <2> QED BY <1>5, <2>1
<1>8. CASE ReadScript
  <2>1. UNCHANGED table /\ cache' = Filled(selected) /\ selected \in Addrs
    BY <1>1, <1>8 DEF ReadScript, TypeOK
  <2>2. cache' \in [Addrs -> Pages \cup {NotCached}]
    BY <1>1, <2>1, FetchedIsPage
  <2>3. TypeOK' /\ TableOfSelected'
    BY <1>1, <1>2, <2>1, <2>2 DEF TypeOK, table, BrowserInv, TableOfSelected
  <2> QED BY <1>3, <1>4, <2>3 DEF BrowserInv
<1> QED BY <1>6, <1>7, <1>8

\* An edit, whose row is that of whatever the table shows now.
LEMMA CommitEditKept ==
  ASSUME BrowserInv, CommitEdit
  PROVE  BrowserInv'
<1>1. TypeOK /\ ~dumping /\ selected \in entries /\ selected \in Addrs
  BY DEF BrowserInv, DumpsBehindPopup, CommitEdit, Reachable, TableShown, TypeOK
<1>2. readFrom \in Addrs /\ editRow \in Rows
  BY <1>1 DEF BrowserInv, TableOfSelected, CommitEdit, TableShown, TypeOK
<1>3. UNCHANGED mem \/ \E on \in BOOLEAN : WriteFlag(readFrom, editRow, on)
  BY DEF CommitEdit
<1>4. mem' \in [Addrs -> Pages]
  <2>1. ASSUME NEW on \in BOOLEAN, WriteFlag(readFrom, editRow, on)
        PROVE  mem' \in [Addrs -> Pages]
    <3>1. Fetched(readFrom) # Unmapped => Updated(Fetched(readFrom), editRow, on) \in Pages
      BY <1>1, <1>2, FetchedIsPage DEF Updated, Pages
    <3>2. CASE Takes(readFrom)
      BY <1>1, <1>2, <2>1, <3>1, <3>2 DEF WriteFlag, Takes, TypeOK
    <3>3. CASE ~Takes(readFrom)
      BY <1>1, <2>1, <3>3 DEF WriteFlag, TypeOK
    <3> QED BY <3>2, <3>3
  <2>2. UNCHANGED mem => mem' \in [Addrs -> Pages]
    BY <1>1 DEF TypeOK
  <2> QED BY <1>3, <2>1, <2>2
<1>5. /\ UNCHANGED <<ticks, provider, attached, sessions, writes, paused, entries, frozen, popup,
                     dumping, dumped, publishing, window>>
      /\ editRow' = Nothing
      /\ held' = [a \in Addrs |-> {}]
      /\ RefreshRows(selected, mem')
  BY <1>1 DEF CommitEdit, session, worker, Watch
<1>6. /\ selected' = selected /\ readFrom' = selected /\ selected # Nothing
      /\ cache' \in [Addrs -> Pages \cup {NotCached}]
      /\ rows' \in (SUBSET Rows) \cup {Nothing}
  BY <1>1, <1>4, <1>5, RefreshShows
<1>7. TypeOK'
  BY <1>1, <1>4, <1>5, <1>6 DEF TypeOK
<1>8. DumpsBehindPopup' /\ TableOfSelected' /\ \A a \in Addrs : OfItsTime(a)'
  BY <1>1, <1>5, <1>6 DEF BrowserInv, DumpsBehindPopup, TableOfSelected, OfItsTime
<1> QED BY <1>7, <1>8 DEF BrowserInv

LEMMA FreezeKept ==
  ASSUME BrowserInv, (\E r \in Rows : ToggleFreeze(r)) \/ Release
  PROVE  BrowserInv'
<1>1. TypeOK
  BY DEF BrowserInv
<1>2. UNCHANGED <<mem, ticks, cache, provider, attached, sessions, writes, paused, entries, selected,
                  rows, readFrom, editRow, popup, dumping, dumped, held, publishing, window>>
  BY DEF ToggleFreeze, Release, target, session, table, worker
<1>3. frozen' \subseteq Frozen
  <2>1. CASE Release
    BY <1>1, <2>1 DEF Release, TypeOK
  <2>2. ASSUME NEW r \in Rows, ToggleFreeze(r) PROVE frozen' \subseteq Frozen
    <3>1. readFrom \in Addrs
      BY <1>1, <2>2 DEF ToggleFreeze, TableShown, BrowserInv, TableOfSelected, TypeOK
    <3>2. [addr |-> readFrom, row |-> r, on |-> r \in rows, failures |-> 0] \in Frozen
      BY <3>1, ConstantsAssumption DEF Frozen, ConstantsAssumption
    <3> QED BY <1>1, <2>2, <3>2 DEF ToggleFreeze, TypeOK
  <2> QED BY <2>1, <2>2
<1>4. TypeOK'
  BY <1>1, <1>2, <1>3 DEF TypeOK
<1> QED BY <1>2, <1>4, TimeStays DEF BrowserInv, DumpsBehindPopup, TableOfSelected, worker

LEMMA ApplyFrozenKept ==
  ASSUME BrowserInv, ApplyFrozen
  PROVE  BrowserInv'
<1> DEFINE tried(a) == FrozenAt(a) # {}
           written == {a \in Addrs : FrozenAt(a) # {} /\ Takes(a)}
           failed  == {a \in Addrs : FrozenAt(a) # {} /\ ~Takes(a)}
           After(f) == [f EXCEPT !.failures = IF f.addr \in written THEN 0 ELSE @ + 1]
<1>1. TypeOK /\ ~dumping
  BY DEF BrowserInv, ApplyFrozen, Freezes
<1>2. /\ mem' = [a \in Addrs |-> IF a \in written
                                 THEN (Fetched(a) \ FlagsAt(a, FALSE)) \cup FlagsAt(a, TRUE)
                                 ELSE mem[a]]
      /\ cache' = [a \in Addrs |-> IF a \in failed THEN Fetched(a) ELSE AfterWrite(written)[a]]
      /\ frozen' = {f \in {After(g) : g \in frozen} : StillTried(f)}
  BY DEF ApplyFrozen
<1>3. /\ UNCHANGED <<ticks, provider, attached, sessions, writes, paused, entries, selected, rows,
                     readFrom, editRow, popup, dumping, dumped, publishing, window>>
      /\ held' = [a \in Addrs |-> {}]
  BY <1>1 DEF ApplyFrozen, session, table, worker, Watch
<1>4. ASSUME NEW a \in written
      PROVE  (Fetched(a) \ FlagsAt(a, FALSE)) \cup FlagsAt(a, TRUE) \in Pages
  <2>1. \A on \in BOOLEAN : FlagsAt(a, on) \subseteq Rows
    BY <1>1 DEF FlagsAt, FrozenAt, TypeOK, Frozen
  <2>2. Fetched(a) \in SUBSET Rows
    BY <1>1, <1>4, FetchedIsPage DEF Takes, Pages
  <2> QED BY <2>1, <2>2 DEF Pages
<1>5. mem' \in [Addrs -> Pages]
  BY <1>1, <1>2, <1>4 DEF TypeOK
<1>6. cache' \in [Addrs -> Pages \cup {NotCached}]
  BY <1>1, <1>2, FetchedIsPage DEF TypeOK, AfterWrite
<1>7. frozen' \subseteq Frozen
  <2> SUFFICES ASSUME NEW g \in frozen, StillTried(After(g)) PROVE After(g) \in Frozen
    BY <1>2
  <2>1. g \in Frozen /\ MaxFailures \in Nat
    BY <1>1, ConstantsAssumption DEF TypeOK, ConstantsAssumption
  <2>2. (IF g.addr \in written THEN 0 ELSE g.failures + 1) \in Nat
    BY <2>1 DEF Frozen
  <2>3. After(g).failures \in 0 .. MaxFailures
    BY <2>1, <2>2 DEF Frozen, StillTried
  <2> QED BY <2>1, <2>3 DEF Frozen
<1> HIDE DEF written, failed, After
<1>8. TypeOK'
  BY <1>1, <1>3, <1>5, <1>6, <1>7 DEF TypeOK
<1>9. DumpsBehindPopup' /\ TableOfSelected' /\ \A a \in Addrs : OfItsTime(a)'
  BY <1>1, <1>3 DEF BrowserInv, DumpsBehindPopup, TableOfSelected, OfItsTime
<1> QED BY <1>8, <1>9 DEF BrowserInv

\* A dump begins with a cache of its own, and reads what is there or what it read.
LEMMA DumpKept ==
  ASSUME BrowserInv, StartDump \/ DumpStep
  PROVE  BrowserInv'
<1>1. TypeOK
  BY DEF BrowserInv
<1>2. UNCHANGED <<mem, ticks, provider, attached, sessions, writes, paused, entries, selected, rows,
                  readFrom, editRow, frozen, popup, publishing, window>>
  BY DEF StartDump, DumpStep, DumpRead, DumpEnds, target, session, table
<1>3. CASE StartDump
  <2>1. /\ dumping' = TRUE /\ dumped' = [a \in Addrs |-> NotRead]
        /\ held' = [a \in Addrs |-> {mem[a]}] /\ cache' = [a \in Addrs |-> NotCached]
        /\ attached /\ popup = "dump"
    BY <1>3 DEF StartDump, CacheForDump, Dropped
  <2>2. TypeOK'
    BY <1>1, <1>2, <2>1 DEF TypeOK
  <2>3. \A a \in Addrs : OfItsTime(a)'
    BY <1>2, <2>1 DEF OfItsTime
  <2> QED BY <1>2, <2>1, <2>2, <2>3 DEF BrowserInv, DumpsBehindPopup, TableOfSelected
<1>4. CASE DumpEnds
  <2>1. /\ dumping' = FALSE /\ dumped' = [a \in Addrs |-> NotRead]
        /\ held' = [a \in Addrs |-> {}] /\ cache' = cache
    BY <1>4 DEF DumpEnds
  <2>2. TypeOK'
    BY <1>1, <1>2, <2>1 DEF TypeOK
  <2>3. \A a \in Addrs : OfItsTime(a)'
    BY <2>1 DEF OfItsTime
  <2> QED BY <1>2, <2>1, <2>2, <2>3 DEF BrowserInv, DumpsBehindPopup, TableOfSelected
<1>5. ASSUME NEW a \in Addrs, DumpRead(a) PROVE BrowserInv'
  <2>1. /\ dumping /\ dumping' = dumping /\ held' = held
        /\ dumped' = [dumped EXCEPT ![a] = Fetched(a)] /\ cache' = [cache EXCEPT ![a] = Fetched(a)]
    BY <1>5 DEF DumpRead, Filled
  <2>2. Fetched(a) \in Pages /\ Fetched(a) \in held[a]
    BY <1>1, <2>1, FetchedIsPage DEF BrowserInv, OfItsTime, Fetched
  <2>3. TypeOK'
    BY <1>1, <1>2, <2>1, <2>2 DEF TypeOK
  <2>4. ASSUME NEW b \in Addrs PROVE OfItsTime(b)'
    BY <1>1, <1>2, <2>1, <2>2 DEF BrowserInv, OfItsTime, TypeOK
  <2> QED BY <1>2, <2>1, <2>3, <2>4 DEF BrowserInv, DumpsBehindPopup, TableOfSelected
<1> QED BY <1>3, <1>4, <1>5 DEF DumpStep

\* Switches and popups: what is drawn, and nothing of the target.
LEMMA SwitchesKept ==
  ASSUME BrowserInv,
         \/ Pause \/ AllowEdits \/ CancelEdit \/ \E r \in Rows : BeginEdit(r)
         \/ OpenPopup \/ ClosePopup
         \/ StartPublish \/ CancelPublish \/ PublishEnds \/ Occlude \/ Quit \/ Join
         \/ UNCHANGED vars
  PROVE  BrowserInv'
<1> USE DEF target, session, table, worker, browsing
<1>1. TypeOK
  BY DEF BrowserInv
<1>2. UNCHANGED <<mem, ticks, cache, attached, sessions, entries, selected, rows, readFrom, frozen,
                  dumping, dumped, held>>
  BY DEF Pause, AllowEdits, CancelEdit, BeginEdit, OpenPopup, ClosePopup, StartPublish, CancelPublish,
         PublishEnds, Occlude, Quit, Join, vars
<1>3. /\ {provider', writes', paused'} \subseteq BOOLEAN
      /\ editRow' \in Rows \cup {Nothing}
      /\ popup' \in {"none", "dump", "publish"}
      /\ publishing' \in {"none", "running", "told"}
      /\ window' \in {"shown", "occluded", "closing", "gone"}
  BY <1>1 DEF TypeOK, Pause, AllowEdits, CancelEdit, BeginEdit, OpenPopup, ClosePopup, StartPublish,
              CancelPublish, PublishEnds, Occlude, Quit, TellPublish, Join, vars
<1>4. TypeOK'
  BY <1>1, <1>2, <1>3 DEF TypeOK
<1>5. dumping => popup' = popup
  BY DEF BrowserInv, DumpsBehindPopup, Pause, AllowEdits, CancelEdit, BeginEdit, OpenPopup,
         ClosePopup, Reachable, StartPublish, CancelPublish, PublishEnds, Occlude, Quit, Join, vars
<1>6. DumpsBehindPopup' /\ TableOfSelected'
  BY <1>2, <1>5 DEF BrowserInv, DumpsBehindPopup, TableOfSelected
<1> QED BY <1>2, <1>4, <1>6, TimeStays DEF BrowserInv

LEMMA BrowserKept ==
  ASSUME BrowserInv, [Next]_vars
  PROVE  BrowserInv'
BY GameTickKept, TargetKept, InspectorKept, CommitEditKept, FreezeKept, ApplyFrozenKept, DumpKept,
   SwitchesKept DEF Next

LEMMA BrowserInvariant == Spec => []BrowserInv
<1>1. BrowserInv /\ [Next]_vars => BrowserInv'
  BY BrowserKept
<1> QED BY <1>1, InitKept, PTL DEF Spec

-----------------------------------------------------------------------------
(***************************************************************************)
(* What the browser promises.                                              *)
(***************************************************************************)

\* Every state the browser is in is one it can draw: an edit is of a row there is, and
\* every frozen value is of an object and a flag that were shown.
THEOREM BrowserTyped == Spec => []TypeOK
<1>1. BrowserInv => TypeOK
  BY DEF BrowserInv
<1> QED BY <1>1, BrowserInvariant, PTL

\* A dump does not mix moments: whatever the user clicks and the game does meanwhile, what
\* it has of an object was there at some time since it began.
THEOREM DumpTellsItsTime == Spec => []DumpIsOfItsTime
<1>1. BrowserInv => DumpIsOfItsTime
  BY DEF BrowserInv, OfItsTime, DumpIsOfItsTime
<1> QED BY <1>1, BrowserInvariant, PTL

\* While a dump runs nobody else reads the game or writes it, though nothing locks the
\* cache: everything that would is behind the popup of the dump.
THEOREM DumpReadsAlone == Spec => OneReader
<1>1. ASSUME BrowserInv, [Next]_vars, dumping, dumping'
      PROVE  /\ table' = table
             /\ ticks' = ticks => mem' = mem
             /\ cache' # cache => dumped' # dumped
  <2> USE DEF target, session, table, worker, browsing
  <2>1. TypeOK /\ attached /\ popup = "dump" /\ sessions # 0 /\ ~Reachable
    BY <1>1 DEF BrowserInv, DumpsBehindPopup, Reachable
  <2>2. ASSUME NEW a \in Addrs, GameTick(a)
        PROVE  UNCHANGED <<table, cache>> /\ ticks' # ticks
    BY <2>1, <2>2 DEF GameTick, TypeOK
  <2>3. ASSUME NEW a \in Addrs, DumpRead(a)
        PROVE  UNCHANGED <<table, mem>> /\ dumped' # dumped
    <3>1. Fetched(a) # NotRead /\ dumped[a] = NotRead /\ dumped' = [dumped EXCEPT ![a] = Fetched(a)]
      BY <2>1, <2>3, FetchedIsPage, ConstantsAssumption DEF DumpRead, ConstantsAssumption
    <3>2. dumped'[a] # dumped[a]
      BY <2>1, <3>1 DEF TypeOK
    <3> QED BY <2>3, <3>2 DEF DumpRead
  <2>4. CASE \/ ClosePopup \/ StartPublish \/ CancelPublish \/ PublishEnds
             \/ Occlude \/ Quit \/ Join \/ UNCHANGED vars
    BY <2>4 DEF ClosePopup, StartPublish, CancelPublish, PublishEnds, Occlude, Quit, Join, vars
  <2>5. /\ ~Attach /\ ~Adopt /\ ~Detach /\ ~Reindex /\ ~Pause /\ ~AllowEdits
        /\ ~RefreshTable /\ ~ReadScript /\ ~CancelEdit /\ ~CommitEdit /\ ~Release /\ ~ApplyFrozen
        /\ ~OpenPopup /\ ~StartDump /\ ~DumpEnds
        /\ \A a \in Addrs : ~SelectObject(a)
        /\ \A r \in Rows : ~BeginEdit(r) /\ ~ToggleFreeze(r)
    BY <1>1, <2>1
       DEF Attach, Adopt, Detach, Reindex, Pause, AllowEdits, RefreshTable, ReadScript, CancelEdit,
           CommitEdit, Release, ApplyFrozen, Freezes, TableShown, OpenPopup, StartDump, DumpEnds,
           SelectObject, BeginEdit, ToggleFreeze
  <2> QED BY <1>1, <2>2, <2>3, <2>4, <2>5 DEF Next, DumpStep
<1> QED BY <1>1, BrowserInvariant, PTL DEF Spec, OneReader
=============================================================================
