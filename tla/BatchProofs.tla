----------------------------- MODULE BatchProofs ----------------------------
(***************************************************************************)
(* Proofs about Batch, for every list of games: each step of a batch is a  *)
(* step of the handshake or leaves it alone; it injects into a wrong game  *)
(* only after it has started another; and as long as it did not, no game   *)
(* is injected into twice, so that what HandshakeProofs says of such calls *)
(* is true of it, and what it says of a game is true of the file it left.  *)
(***************************************************************************)
EXTENDS Batch, HandshakeProofs

OwnOf(e) == OnDisk(Entries[e].exe)

(***************************************************************************)
(* The games the theorems are about: a path is one game, and no two        *)
(* entries to inject share it.                                             *)
(***************************************************************************)
ExesApart ==
  /\ \A e \in Entry : \A g, h \in OwnOf(e) : g = h
  /\ \A e, f \in Entry : Injected(e) /\ Injected(f) /\ e # f => OwnOf(e) \cap OwnOf(f) = {}

\* And only the first of them is wrapped by a store or may die before its runtime was seen:
\* LaunchAndWait takes any runtime there is once what it started is gone, and a game that
\* an earlier entry was given up on may still be there.
GamesApart ==
  /\ ExesApart
  /\ \A e, f \in Entry : Injected(e) /\ Injected(f) /\ f < e =>
       OwnOf(e) \cap (Wrapped \cup Frail) = {}

BatchTyped ==
  /\ at \in Nat \ {0}
  /\ doing \in {"next", "launching", "injecting", "back", "reading"}
  /\ doing # "next" => at \in Entry
  /\ runtime \in [Games -> {"off", "starting", "up"}]
  /\ wrapper \subseteq Games
  /\ file \in [Paths -> Games \cup {Nothing, "files", "mixed"}]
  /\ verdict \in [Entry -> Verdicts \cup {Nothing}]
  /\ exit \in ExitCodes \cup {Nothing}

Launched(g) == runtime[g] # "off" \/ g \in wrapper

\* What runs was started by an entry so far, an entry has one call, and it is into another
\* game only after an earlier entry has started one.
Launches ==
  /\ \A g \in Games : Launched(g) => \E e \in Entry : e <= at /\ Injected(e) /\ g \in OwnOf(e)
  /\ doing = "launching" => Injected(at) /\ OwnOf(at) # {}
  /\ \A c \in Calls : call[c] # "idle" =>
       /\ Injected(c[1])
       /\ c[1] < at \/ (c[1] = at /\ doing \in {"injecting", "back", "reading"})
  /\ \A c, d \in Calls : c[1] = d[1] /\ call[c] # "idle" /\ call[d] # "idle" => c = d
  /\ \A g \in Games \ alive : g \in Frail \/ \E e \in Entry : call[<<e, g>>] # "idle"
  /\ \A c \in Calls : WrongOnlyAfter(c)

\* Entries are judged in their order, and one that is dumped has its call back and its
\* game closed.
JudgedInTurn ==
  /\ \A c \in Calls : Active(c) => doing = "injecting" /\ at = c[1]
  /\ \A c \in Calls : call[c] = "ok" =>
       \/ doing = "injecting" /\ at = c[1]
       \/ c[1] < at /\ verdict[c[1]] = "dumped" /\ c[2] \notin alive
  /\ \A e \in Entry : verdict[e] = Nothing <=> e >= at
  /\ \A e \in Entry : verdict[e] = "dumped" /\ Injected(e) =>
       \E c \in Calls : c[1] = e /\ call[c] = "ok"
  /\ exit # Nothing => at > Len(Entries)
  /\ exit = 0 => \A e \in Entry : verdict[e] \in {"dumped", "nothing"}

Awaited(c) == Polling(c) \/ call[c] \in {"heard", "ok"}

\* The file at the path of an entry is the walk's, as long as its call was not given up on,
\* or that of its files, unless another entry has been at that path.
FilesAreTheirs ==
  /\ \A g \in Games :
       outcome[g] = "dumped" /\ Awaited(took[g]) =>
         file[PathOf(took[g][1])] = g \/ Overwritten(took[g][1])
  /\ \A e \in Entry : DegradedIsThere(e)

BatchInv == BatchTyped /\ Launches /\ JudgedInTurn

-----------------------------------------------------------------------------
(***************************************************************************)
(* The calls of a batch, and its steps as steps of the handshake.          *)
(***************************************************************************)

LEMMA CallsAreInjections ==
  /\ Calls = Entry \X Games
  /\ \A c \in Calls : c[1] \in Entry /\ c[2] \in Games /\ Target[c] = c[2] /\ c = <<c[1], c[2]>>
  /\ \A e \in Entry, g \in Games :
       <<e, g>> \in Calls /\ <<e, g>>[1] = e /\ <<e, g>>[2] = g /\ Target[<<e, g>>] = g
  /\ Waits = Calls /\ Quiet = {} /\ Unreal = {}
<1>1. Calls = Entry \X Games /\ Target = [c \in Calls |-> c[2]] /\ Waits = Calls /\ Quiet = {}
        /\ Unreal = {}
  BY BatchAssumption DEF BatchAssumption
<1> QED BY <1>1

LEMMA OwnAreGames ==
  /\ \A e \in Entry : OwnOf(e) \subseteq Games
  /\ \A e \in Entry : e \in Nat /\ e >= 1 /\ e <= Len(Entries)
  /\ Len(Entries) \in Nat /\ \A e \in Nat : 1 <= e /\ e <= Len(Entries) => e \in Entry
  /\ Nothing \notin Verdicts /\ Nothing \notin ExitCodes
<1>1. \A path : OnDisk(path) \subseteq Games
  BY BatchAssumption DEF BatchAssumption, OnDisk
<1>2. /\ \A e \in Entry : e \in Nat /\ e >= 1 /\ e <= Len(Entries)
      /\ Len(Entries) \in Nat /\ \A e \in Nat : 1 <= e /\ e <= Len(Entries) => e \in Entry
  BY EntriesAssumption DEF EntriesAssumption
<1>3. Nothing \notin Verdicts /\ Nothing \notin ExitCodes
  BY BatchAssumption DEF BatchAssumption
<1> QED BY <1>1, <1>2, <1>3 DEF OwnOf

LEMMA Injections ==
  ASSUME NEW e \in Entry
  PROVE  /\ InjectionOf(e) \subseteq Calls
         /\ \A c \in Calls : c \in InjectionOf(e) <=> c[1] = e /\ call[c] # "idle"
         /\ \A state : state \in Code(e) <=>
              \E c \in Calls : c[1] = e /\ call[c] # "idle" /\ call[c] = state
         /\ TimedOut(e) <=> \E c \in Calls : c[1] = e /\ call[c] = "timeout"
BY DEF InjectionOf, Code, TimedOut

\* Close ends the game an entry injected into, when it is still there.
LEMMA CloseIsStep == \A e \in Entry : Close(e) => UNCHANGED vars \/ \E g \in Games : GameDies(g)
BY Injections, FileTypes DEF Close, handshake, StatusOf

\* Settling for a game is the call's Begin, closing it its death, and every other step is
\* one of the call or of the payload, or none of theirs.
LEMMA StepIsHandshakeStep == [BatchNext]_batch => [Next]_vars
<1>1. ASSUME BatchNext PROVE [Next]_vars
  <2>1. ASSUME NEW e \in Entry, EntryStep(e) PROVE [Next]_vars
    <3>1. ASSUME NEW g \in Games, Settle(e, g) PROVE [Next]_vars
      BY <3>1, CallsAreInjections DEF Settle, Next
    <3>2. ASSUME Done(e) PROVE [Next]_vars
      BY <3>2, CloseIsStep DEF Done, Next
    <3> QED BY <2>1, <3>1, <3>2
            DEF EntryStep, NothingToDo, OnlyFiles, Launch, DoesNotStart, LaunchTimesOut, NotDone,
                FallBack, NoFallBack, ReadFiles, FilesUnreadable, handshake
  <2>2. ASSUME NEW c \in Calls, InCall(c) \/ Outlasts(c) PROVE [Next]_vars
    BY <2>2 DEF InCall, Outlasts, Next
  <2>3. ASSUME NEW g \in Games,
               \/ WrapperExits(g) \/ RuntimeMapped(g) \/ GameCloses(g) \/ InGame(g) \/ Unloads(g)
        PROVE [Next]_vars
    <3>1. CASE WrapperExits(g) \/ RuntimeMapped(g)
      BY <3>1 DEF WrapperExits, RuntimeMapped, handshake
    <3>2. CASE GameCloses(g)
      BY <3>2 DEF GameCloses, Next
    <3>3. CASE InGame(g)
      BY <3>3 DEF InGame, WalkWrites, Next, PayloadStep
    <3>4. CASE Unloads(g)
      BY <3>4 DEF Unloads, Next
    <3> QED BY <2>3, <3>1, <3>2, <3>3, <3>4
  <2>4. ASSUME Exit PROVE [Next]_vars
    BY <2>4 DEF Exit, handshake
  <2> QED BY <1>1, <2>1, <2>2, <2>3, <2>4 DEF BatchNext
<1>2. ASSUME UNCHANGED batch PROVE [Next]_vars
  BY <1>2 DEF batch
<1> QED BY <1>1, <1>2

\* A batch implements the handshake: whatever it does, its games and their payloads
\* see no more than calls of `zircon inject`.
THEOREM BatchIsHandshake == BatchSpec => Spec
<1>1. BatchInit => Init
  BY DEF BatchInit
<1>2. [BatchNext]_batch => [Next]_vars
  BY StepIsHandshakeStep
<1> QED BY <1>1, <1>2, PTL DEF BatchSpec, Spec

LEMMA BatchStarts == BatchInit => BatchInv /\ AllRight /\ FilesAreTheirs
<1> SUFFICES ASSUME BatchInit PROVE BatchInv /\ AllRight /\ FilesAreTheirs
  OBVIOUS
<1>1. /\ at = 1 /\ doing = "next" /\ exit = Nothing
      /\ runtime = [g \in Games |-> "off"] /\ wrapper = {} /\ alive = Games
      /\ file = [path \in Paths |-> Nothing] /\ verdict = [e \in Entry |-> Nothing]
      /\ call = [c \in Calls |-> "idle"] /\ outcome = [g \in Games |-> "none"]
  BY DEF BatchInit, Init
<1>2. Nothing \notin Verdicts /\ Nothing \notin ExitCodes
  BY OwnAreGames
<1>3. BatchTyped
  BY <1>1 DEF BatchTyped
<1>4. Launches /\ AllRight
  BY <1>1 DEF Launches, Launched, WrongOnlyAfter, AllRight
<1>5. JudgedInTurn
  BY <1>1, <1>2, OwnAreGames DEF JudgedInTurn, Active, Verdicts, ExitCodes
<1>6. FilesAreTheirs
  BY <1>1, <1>2 DEF FilesAreTheirs, DegradedIsThere, Verdicts
<1> QED BY <1>3, <1>4, <1>5, <1>6 DEF BatchInv

-----------------------------------------------------------------------------
(***************************************************************************)
(* Steps of the handshake that are not of the batch's own thread leave the *)
(* list alone, and calls that are over or not begun yet as they are.       *)
(***************************************************************************)

Elsewhere ==
  \/ \E c \in Calls : CallStep(c) \/ TimeOut(c) \/ LateLoad(c)
  \/ \E g \in Games : PayloadStep(g) \/ Unload(g)

LEMMA ElsewhereLeaves ==
  ASSUME TypeOK, Elsewhere
  PROVE  /\ alive' = alive
         /\ \A c \in Calls : /\ call[c] = "idle" <=> call'[c] = "idle"
                             /\ call[c] \in Returned => call'[c] = call[c]
                             /\ Active(c)' => Active(c)
<1> USE DEF Goto, Step, cli, game, inside
<1>1. ASSUME NEW d \in Calls, CallStep(d) \/ TimeOut(d) \/ LateLoad(d)
      PROVE  /\ alive' = alive
             /\ call' = call \/ (/\ call[d] \in {"prepare", "note", "load", "waiting", "checking",
                                                 "heard"}
                                 /\ \E state \in CallStates \ {"idle"} :
                                      call' = [call EXCEPT ![d] = state])
  BY <1>1 DEF CallStep, NothingToSay, OpenHandoff, CannotOpenHandoff, WriteHandoff, Load,
              LoadFails, LoadStalls, PollStatus, TakeAnswer, PollAlive, TimeOut, LateLoad, LoadInto,
              CallStates, Returned
<1>2. ASSUME NEW g \in Games, PayloadStep(g) \/ Unload(g)
      PROVE  alive' = alive /\ call' = call
  BY <1>2 DEF PayloadStep, ReadHandoff, RemoveTaken, Walk, SayNothing, OpenStatus, WriteStatus,
              Unload
<1>3. CASE \E d \in Calls : CallStep(d) \/ TimeOut(d) \/ LateLoad(d)
  <2>1. PICK d \in Calls : CallStep(d) \/ TimeOut(d) \/ LateLoad(d)
    BY <1>3
  <2> QED BY <1>1, <2>1 DEF TypeOK, Active, Returned
<1>4. CASE \E g \in Games : PayloadStep(g) \/ Unload(g)
  BY <1>2, <1>4 DEF Active
<1> QED BY <1>3, <1>4 DEF Elsewhere

LEMMA StepsElsewhere ==
  /\ \A c \in Calls : InCall(c) \/ Outlasts(c) =>
       Elsewhere /\ UNCHANGED <<list, runtime, wrapper, file>>
  /\ \A g \in Games : InGame(g) \/ Unloads(g) => Elsewhere /\ UNCHANGED <<list, runtime, wrapper>>
BY DEF InCall, Outlasts, InGame, Unloads, WalkWrites, Elsewhere, PayloadStep

\* What the batch itself does to a game: its entry is judged, or the game of it dies.
LEMMA JudgeTyped ==
  ASSUME BatchTyped, NEW e \in Entry, NEW as \in Verdicts, at = e, Judge(e, as)
  PROVE  /\ at' = e + 1 /\ at' \in Nat \ {0} /\ doing' = "next"
         /\ verdict' = [verdict EXCEPT ![e] = as]
         /\ verdict' \in [Entry -> Verdicts \cup {Nothing}]
<1>1. at' = e + 1 /\ doing' = "next" /\ verdict' = [verdict EXCEPT ![e] = as]
  BY DEF Judge
<1>2. e \in Nat /\ e >= 1
  BY OwnAreGames
<1>3. verdict' \in [Entry -> Verdicts \cup {Nothing}]
  BY <1>1 DEF BatchTyped
<1>4. e + 1 \in Nat \ {0}
  BY <1>2
<1> QED BY <1>1, <1>3, <1>4

LEMMA BatchStaysTyped ==
  ASSUME TypeOK, BatchTyped, [BatchNext]_batch
  PROVE  BatchTyped'
<1> USE DEF list, handshake
<1>1. ASSUME NEW e \in Entry, NEW as \in Verdicts, at = e, Judge(e, as),
             file' \in [Paths -> Games \cup {Nothing, "files", "mixed"}],
             UNCHANGED <<runtime, wrapper, exit>>
      PROVE BatchTyped'
  BY <1>1, JudgeTyped DEF BatchTyped
<1>2. {"dumped", "degraded", "failed", "nothing"} = Verdicts
  BY DEF Verdicts
<1>3. ASSUME NEW e \in Entry, EntryStep(e) PROVE BatchTyped'
  <2>1. CASE NothingToDo(e) \/ NoFallBack(e) \/ FilesUnreadable(e)
    BY <1>1, <1>2, <2>1 DEF NothingToDo, NoFallBack, FilesUnreadable, BatchTyped
  <2>2. CASE Done(e)
    BY <1>1, <1>2, <2>2 DEF Done, BatchTyped
  <2>3. CASE ReadFiles(e)
    <3>1. PICK as \in Verdicts : at = e /\ Judge(e, as) /\ UNCHANGED <<runtime, wrapper, exit>>
      BY <1>2, <2>3 DEF ReadFiles
    <3>2. file' \in [Paths -> Games \cup {Nothing, "files", "mixed"}]
      BY <2>3 DEF ReadFiles, WriteFiles, BatchTyped
    <3> QED BY <1>1, <3>1, <3>2
  <2>4. CASE Launch(e)
    <3>1. PICK g \in OwnOf(e) : IF g \in Wrapped
                                THEN wrapper' = wrapper \cup {g} /\ UNCHANGED runtime
                                ELSE runtime' = [runtime EXCEPT ![g] = "starting"] /\ UNCHANGED wrapper
      BY <2>4 DEF Launch, OwnOf
    <3>2. g \in Games
      BY OwnAreGames
    <3>3. /\ runtime' \in [Games -> {"off", "starting", "up"}] /\ wrapper' \subseteq Games
      BY <3>1, <3>2 DEF BatchTyped
    <3> QED BY <2>4, <3>3, OwnAreGames DEF Launch, BatchTyped
  <2>5. CASE (\E g \in Games : Settle(e, g)) \/ OnlyFiles(e) \/ DoesNotStart(e) \/ LaunchTimesOut(e)
               \/ NotDone(e) \/ FallBack(e)
    BY <2>5 DEF Settle, OnlyFiles, DoesNotStart, LaunchTimesOut, NotDone, FallBack, BatchTyped
  <2> QED BY <1>3, <2>1, <2>2, <2>3, <2>4, <2>5 DEF EntryStep
<1>4. ASSUME NEW c \in Calls, InCall(c) \/ Outlasts(c) PROVE BatchTyped'
  BY <1>4, StepsElsewhere DEF BatchTyped
<1>5. ASSUME NEW g \in Games,
             WrapperExits(g) \/ RuntimeMapped(g) \/ GameCloses(g) \/ InGame(g) \/ Unloads(g)
      PROVE BatchTyped'
  <2>1. CASE WrapperExits(g) \/ RuntimeMapped(g) \/ GameCloses(g)
    BY <2>1 DEF WrapperExits, RuntimeMapped, GameCloses, BatchTyped
  <2>2. CASE WalkWrites(g)
    <3>1. took[g] # None => PathOf(took[g][1]) \in Paths
      BY CallsAreInjections DEF TypeOK, Paths
    <3>2. file' \in [Paths -> Games \cup {Nothing, "files", "mixed"}]
      BY <2>2, <3>1 DEF WalkWrites, BatchTyped
    <3> QED BY <2>2, <3>2 DEF WalkWrites, BatchTyped
  <2>3. CASE (InGame(g) /\ ~WalkWrites(g)) \/ Unloads(g)
    BY <2>3 DEF InGame, Unloads, BatchTyped
  <2> QED BY <1>5, <2>1, <2>2, <2>3
<1>6. CASE Exit
  BY <1>6 DEF Exit, BatchTyped, ExitCodes
<1>7. CASE UNCHANGED batch
  BY <1>7 DEF batch, BatchTyped
<1> QED BY <1>3, <1>4, <1>5, <1>6, <1>7 DEF BatchNext

-----------------------------------------------------------------------------
(***************************************************************************)
(* An entry injects into its own game, or after another has started one.   *)
(***************************************************************************)

Busy == {"injecting", "back", "reading"}

\* What a step may do to the list, the launched games, the calls and the living.
Framed ==
  /\ \/ at' = at /\ (doing \in Busy => doing' \in Busy) /\ (doing # "next" => doing' # "next")
     \/ at' = at + 1 /\ doing' = "next"
  /\ \A g \in Games : Launched(g)' => \/ Launched(g)
                                      \/ at \in Entry /\ Injected(at) /\ g \in OwnOf(at)
  /\ doing' = "launching" =>
       at' = at /\ (doing = "launching" \/ (Injected(at) /\ OwnOf(at) # {}))
  /\ \A c \in Calls : /\ call[c] # "idle" => call'[c] # "idle"
                      /\ call'[c] # "idle" => call[c] # "idle" \/ Settle(c[1], c[2])
  /\ \A g \in Games : g \in alive /\ g \notin alive' =>
       g \in Frail \/ \E e \in Entry : call[<<e, g>>] # "idle"
  /\ alive' \subseteq alive

LEMMA StepFrame ==
  ASSUME TypeOK, BatchTyped, [BatchNext]_batch
  PROVE  Framed
<1> USE DEF list, handshake, vars, Busy, Framed
<1>1. ASSUME NEW e \in Entry,
             \/ NothingToDo(e) \/ OnlyFiles(e) \/ DoesNotStart(e) \/ LaunchTimesOut(e) \/ NotDone(e)
             \/ FallBack(e) \/ NoFallBack(e) \/ ReadFiles(e) \/ FilesUnreadable(e)
      PROVE  Framed
  <2>1. UNCHANGED <<call, alive, runtime, wrapper>>
    BY <1>1 DEF NothingToDo, OnlyFiles, DoesNotStart, LaunchTimesOut, NotDone, FallBack,
                NoFallBack, ReadFiles, FilesUnreadable
  <2>2. /\ doing' # "launching"
        /\ \/ at' = at /\ (doing \in Busy => doing' \in Busy) /\ doing' # "next"
           \/ at' = at + 1 /\ doing' = "next"
    BY <1>1 DEF NothingToDo, OnlyFiles, DoesNotStart, LaunchTimesOut, NotDone, FallBack,
                NoFallBack, ReadFiles, FilesUnreadable, Judge
  <2> QED BY <2>1, <2>2 DEF Launched
<1>2. ASSUME NEW e \in Entry, Launch(e) PROVE Framed
  <2>1. /\ UNCHANGED <<call, alive>> /\ at' = at /\ doing = "next" /\ doing' = "launching" /\ at = e
        /\ Injected(at)
    BY <1>2 DEF Launch
  <2>2. PICK g \in OwnOf(e) : IF g \in Wrapped
                              THEN wrapper' = wrapper \cup {g} /\ UNCHANGED runtime
                              ELSE runtime' = [runtime EXCEPT ![g] = "starting"] /\ UNCHANGED wrapper
    BY <1>2 DEF Launch, OwnOf
  <2>3. \A h \in Games \ {g} : Launched(h)' => Launched(h)
    BY <2>2 DEF Launched, BatchTyped
  <2> QED BY <2>1, <2>2, <2>3
<1>3. ASSUME NEW e \in Entry, NEW g \in Games, Settle(e, g) PROVE Framed
  <2>1. /\ at' = at /\ doing' = "injecting" /\ UNCHANGED <<runtime, wrapper, alive>>
        /\ call' = [call EXCEPT ![<<e, g>>] = "prepare"]
    BY <1>3 DEF Settle, Begin, Goto, game
  <2>2. \A c \in Calls : call'[c] # call[c] => c[1] = e /\ c[2] = g
    BY <2>1, CallsAreInjections DEF TypeOK
  <2>3. \A c \in Calls : call[c] # "idle" => call'[c] # "idle"
    BY <2>1 DEF TypeOK
  <2> QED BY <1>3, <2>1, <2>2, <2>3 DEF Launched
<1>4. ASSUME NEW e \in Entry, Done(e) PROVE Framed
  <2>1. /\ UNCHANGED <<runtime, wrapper>> /\ at' = at + 1 /\ doing' = "next"
    BY <1>4 DEF Done, Judge
  <2>2. /\ call' = call /\ alive' \subseteq alive
        /\ \A g \in Games : g \in alive /\ g \notin alive' =>
             \E c \in Calls : c[1] = e /\ call[c] # "idle" /\ Target[c] = g
    BY <1>4, Injections DEF Done, Close, GameDies, cli
  <2>3. \A g \in Games : g \in alive /\ g \notin alive' => call[<<e, g>>] # "idle"
    BY <2>2, CallsAreInjections
  <2> QED BY <2>1, <2>2, <2>3 DEF Launched
<1>5. ASSUME Elsewhere, UNCHANGED <<list, runtime, wrapper>> PROVE Framed
  BY <1>5, ElsewhereLeaves DEF Launched
<1>6. ASSUME NEW g \in Games, WrapperExits(g) \/ RuntimeMapped(g) PROVE Framed
  BY <1>6 DEF WrapperExits, RuntimeMapped, Launched, BatchTyped
<1>7. ASSUME NEW g \in Games, GameCloses(g) PROVE Framed
  BY <1>7 DEF GameCloses, GameDies, Launched, cli
<1>8. CASE Exit
  BY <1>8 DEF Exit, Launched
<1>9. CASE UNCHANGED batch
  BY <1>9 DEF batch, Launched
<1>10. ASSUME NEW c \in Calls, InCall(c) \/ Outlasts(c) PROVE Framed
  BY <1>5, <1>10, StepsElsewhere
<1>11. ASSUME NEW g \in Games, WalkWrites(g) \/ (InGame(g) /\ ~WalkWrites(g)) \/ Unloads(g) PROVE Framed
  BY <1>5, <1>11, StepsElsewhere DEF InGame
<1> HIDE DEF list, handshake, vars, Busy, Framed
<1>12. ASSUME NEW e \in Entry, EntryStep(e) PROVE Framed
  BY <1>1, <1>2, <1>3, <1>4, <1>12 DEF EntryStep
<1>13. ASSUME BatchNext PROVE Framed
  BY <1>6, <1>7, <1>8, <1>10, <1>11, <1>12, <1>13 DEF BatchNext
<1> QED BY <1>9, <1>13

\* While what an entry started runs only its own game will do; and once that is gone another
\* that has a runtime was started by an entry before this one.
LEMMA WrongIsAfter ==
  ASSUME ExesApart, TypeOK, BatchTyped, Launches,
         NEW e \in Entry, NEW g \in Games, Settle(e, g), g \notin OwnOf(e)
  PROVE  /\ \E f \in Entry : f < e /\ Injected(f)
         /\ \/ OwnOf(e) \cap (Wrapped \cup Frail) # {}
            \/ \E d \in Calls : d[1] < e /\ call[d] # "idle" /\ ~SettledRight(d)
<1>1. /\ at = e /\ doing = "launching" /\ Injected(e) /\ OwnOf(e) # {}
      /\ Launched(g)
      /\ \A own \in OwnOf(e) : ~ExeAlive(own)
  BY DEF Settle, Launches, Launched, Up, OwnOf
<1>2. PICK own \in OwnOf(e) : own \in Games
  BY <1>1, OwnAreGames
<1>3. PICK f \in Entry : f <= e /\ Injected(f) /\ g \in OwnOf(f)
  BY <1>1 DEF Launches
<1>4. f < e
  <2>1. f # e
    BY <1>3
  <2> QED BY <1>3, <2>1, OwnAreGames
<1>5. CASE own \in Wrapped \cup Frail
  BY <1>2, <1>3, <1>4, <1>5
<1>6. CASE own \notin Wrapped \cup Frail
  <2>1. own \notin alive
    BY <1>1, <1>2, <1>6 DEF ExeAlive
  <2>2. PICK d \in Entry : call[<<d, own>>] # "idle"
    BY <1>2, <1>6, <2>1 DEF Launches
  <2>3. <<d, own>> \in Calls /\ <<d, own>>[1] = d /\ <<d, own>>[2] = own
    BY <1>2, CallsAreInjections
  <2>4. Injected(d) /\ d < e
    BY <1>1, <2>2, <2>3 DEF Launches
  <2>5. own \notin OwnOf(d)
    BY <1>1, <1>2, <2>4, OwnAreGames DEF ExesApart
  <2>6. ~SettledRight(<<d, own>>)
    BY <2>3, <2>5 DEF SettledRight, OwnOf
  <2> QED BY <1>3, <1>4, <2>2, <2>3, <2>4, <2>6
<1> QED BY <1>5, <1>6

LEMMA LaunchesStay ==
  ASSUME ExesApart, TypeOK, BatchTyped, Launches, [BatchNext]_batch
  PROVE  Launches'
<1>1. Framed /\ at \in Nat
  BY StepFrame DEF BatchTyped
<1>2. at' \in Nat /\ at <= at'
  BY <1>1 DEF Framed
<1>3. ASSUME NEW g \in Games, Launched(g)'
      PROVE  \E e \in Entry : e <= at' /\ Injected(e) /\ g \in OwnOf(e)
  <2>1. CASE Launched(g)
    <3>1. PICK e \in Entry : e <= at /\ Injected(e) /\ g \in OwnOf(e)
      BY <2>1 DEF Launches
    <3>2. e <= at'
      BY <1>1, <1>2, <3>1, OwnAreGames
    <3> QED BY <3>1, <3>2
  <2>2. CASE at \in Entry /\ Injected(at) /\ g \in OwnOf(at)
    BY <1>2, <2>2
  <2> QED BY <1>1, <1>3, <2>1, <2>2 DEF Framed
<1>4. doing' = "launching" => Injected(at') /\ OwnOf(at') # {}
  <2>1. doing' = "launching" => at' = at /\ Injected(at) /\ OwnOf(at) # {}
    BY <1>1 DEF Framed, Launches
  <2> QED BY <2>1
<1>5. ASSUME NEW c \in Calls, call[c] = "idle", call'[c] # "idle"
      PROVE  /\ Settle(c[1], c[2]) /\ at = c[1] /\ doing = "launching" /\ Injected(c[1])
             /\ at' = at /\ doing' = "injecting"
             /\ c[1] \in Entry /\ c[2] \in Games /\ c = <<c[1], c[2]>>
             /\ call' = [call EXCEPT ![<<c[1], c[2]>>] = "prepare"]
  <2>1. Settle(c[1], c[2]) /\ c[1] \in Entry /\ c[2] \in Games /\ c = <<c[1], c[2]>>
    BY <1>1, <1>5, CallsAreInjections DEF Framed
  <2> QED BY <2>1 DEF Settle, Begin, Goto, Launches
<1>6. ASSUME NEW c \in Calls, call'[c] # "idle"
      PROVE  /\ Injected(c[1])
             /\ c[1] < at' \/ (c[1] = at' /\ doing' \in {"injecting", "back", "reading"})
  <2>1. CASE call[c] # "idle"
    <3>1. Injected(c[1]) /\ (c[1] < at \/ (c[1] = at /\ doing \in Busy))
      BY <2>1 DEF Launches, Busy
    <3>2. c[1] \in Nat /\ ((at' = at /\ (doing \in Busy => doing' \in Busy)) \/ at' = at + 1)
      BY <1>1, CallsAreInjections, OwnAreGames DEF Framed
    <3>3. c[1] < at' \/ (c[1] = at' /\ doing' \in Busy)
      BY <1>1, <3>1, <3>2
    <3> QED BY <3>1, <3>3 DEF Busy
  <2>2. CASE call[c] = "idle"
    BY <1>5, <1>6, <2>2
  <2> QED BY <2>1, <2>2
<1>7. ASSUME NEW c \in Calls, NEW d \in Calls, c[1] = d[1], call'[c] # "idle", call'[d] # "idle"
      PROVE  c = d
  <2>1. ASSUME NEW x \in Calls, NEW y \in Calls, x[1] = y[1], call[x] = "idle", call'[x] # "idle",
               call[y] # "idle"
        PROVE  FALSE
    <3>1. at = y[1] /\ doing = "launching"
      BY <1>5, <2>1
    <3>2. y[1] < at \/ doing \in {"injecting", "back", "reading"}
      BY <2>1 DEF Launches
    <3> QED BY <1>1, <3>1, <3>2
  <2>2. CASE call[c] # "idle" /\ call[d] # "idle"
    BY <1>7, <2>2 DEF Launches
  <2>3. CASE call[c] = "idle" /\ call[d] = "idle"
    <3>1. call' = [call EXCEPT ![c] = "prepare"]
      BY <1>5, <1>7, <2>3
    <3> QED BY <1>7, <2>3, <3>1 DEF TypeOK
  <2> QED BY <1>7, <2>1, <2>2, <2>3
<1>8. ASSUME NEW g \in Games \ alive'
      PROVE  g \in Frail \/ \E e \in Entry : call'[<<e, g>>] # "idle"
  <2>1. g \in Frail \/ \E e \in Entry : call[<<e, g>>] # "idle"
    BY <1>1, <1>8 DEF Framed, Launches
  <2> QED BY <1>1, <2>1, CallsAreInjections DEF Framed
<1>9. ASSUME NEW c \in Calls, call'[c] # "idle", ~SettledRight(c)
      PROVE  /\ \E f \in Entry : f < c[1] /\ Injected(f)
             /\ \/ OnDisk(Entries[c[1]].exe) \cap (Wrapped \cup Frail) # {}
                \/ \E d \in Calls : d[1] < c[1] /\ call'[d] # "idle" /\ ~SettledRight(d)
  <2>1. CASE call[c] # "idle"
    BY <1>1, <1>9, <2>1 DEF Launches, WrongOnlyAfter, Framed
  <2>2. CASE call[c] = "idle"
    <3>1. c[2] \notin OwnOf(c[1])
      BY <1>9 DEF SettledRight, OwnOf
    <3> QED BY <1>1, <1>5, <1>9, <2>2, <3>1, WrongIsAfter DEF OwnOf, Framed
  <2> QED BY <2>1, <2>2
<1>10. \A c \in Calls : WrongOnlyAfter(c)'
  BY <1>9 DEF WrongOnlyAfter, SettledRight
<1> HIDE DEF Launched
<1> QED BY <1>3, <1>4, <1>6, <1>7, <1>8, <1>10 DEF Launches

\* An injection is never taken back, so the batch was right before if it is now.
LEMMA RightBefore == Framed /\ AllRight' => AllRight
BY DEF Framed, AllRight, SettledRight

\* Where no later entry is wrapped or dies early, it is always right.
LEMMA RightStays ==
  ASSUME GamesApart, TypeOK, Launches, Framed, Launches', AllRight
  PROVE  AllRight'
<1> SUFFICES ASSUME NEW c \in Calls, call'[c] # "idle", ~SettledRight(c) PROVE FALSE
  BY DEF AllRight, SettledRight
<1>1. c[1] \in Entry /\ Injected(c[1])
  BY CallsAreInjections DEF Launches
<1>2. OwnOf(c[1]) \cap (Wrapped \cup Frail) = {}
  BY <1>1 DEF GamesApart, Launches, WrongOnlyAfter, SettledRight
<1>3. PICK d \in Calls : d[1] < c[1] /\ call'[d] # "idle" /\ ~SettledRight(d)
  BY <1>2 DEF Launches, WrongOnlyAfter, SettledRight, OwnOf
<1>4. call[c] = "idle" /\ call[d] = "idle"
  BY <1>3 DEF AllRight
<1>5. Settle(c[1], c[2]) /\ Settle(d[1], d[2])
  BY <1>3, <1>4 DEF Framed
<1>6. c[1] = d[1] /\ c[1] \in Nat
  BY <1>1, <1>5, OwnAreGames DEF Settle
<1> QED BY <1>3, <1>6

\* So no game is injected into twice.
LEMMA OncePerGame == ExesApart /\ Launches /\ AllRight => EachGameOnce
<1> SUFFICES ASSUME ExesApart, Launches, AllRight, NEW c \in Calls, NEW d \in Calls,
                    call[c] # "idle", call[d] # "idle", Target[c] = Target[d]
             PROVE  c = d
  BY DEF EachGameOnce
<1>1. c[2] = d[2] /\ c[1] \in Entry /\ d[1] \in Entry /\ c = <<c[1], c[2]>> /\ d = <<d[1], d[2]>>
  BY CallsAreInjections
<1>2. Injected(c[1]) /\ Injected(d[1]) /\ c[2] \in OwnOf(c[1]) \cap OwnOf(d[1])
  BY <1>1 DEF Launches, AllRight, SettledRight, OwnOf
<1>3. c[1] = d[1]
  BY <1>1, <1>2 DEF ExesApart
<1> QED BY <1>1, <1>3

-----------------------------------------------------------------------------
(***************************************************************************)
(* Entries are judged in their order.                                      *)
(***************************************************************************)

LEMMA NextEntry ==
  ASSUME NEW e \in Entry
  PROVE  \A f \in Entry : f >= e + 1 <=> f >= e /\ f # e
<1> SUFFICES ASSUME NEW f \in Entry PROVE f >= e + 1 <=> f >= e /\ f # e
  OBVIOUS
<1>1. e \in Nat /\ f \in Nat
  BY OwnAreGames
<1> QED BY <1>1

\* Where nothing happens to the list, a call may only end and a game die.
LEMMA JudgedElsewhere ==
  ASSUME TypeOK, BatchTyped, JudgedInTurn, UNCHANGED list, alive' \subseteq alive,
         \A c \in Calls : /\ Active(c)' => Active(c)
                          /\ call'[c] = "ok" => call[c] = "ok" \/ Active(c)
                          /\ call[c] = "ok" => call'[c] = "ok"
  PROVE  JudgedInTurn'
<1>1. UNCHANGED <<at, doing, verdict, exit>>
  BY DEF list
<1>2. \A c \in Calls : Active(c)' => doing' = "injecting" /\ at' = c[1]
  BY <1>1 DEF JudgedInTurn
<1>3. \A c \in Calls : call'[c] = "ok" =>
        \/ doing' = "injecting" /\ at' = c[1]
        \/ c[1] < at' /\ verdict'[c[1]] = "dumped" /\ c[2] \notin alive'
  BY <1>1 DEF JudgedInTurn
<1> QED BY <1>1, <1>2, <1>3 DEF JudgedInTurn

\* Where the entry is not with its call, none is under way and none came back "ok" that
\* is not judged already.
LEMMA JudgedBetween ==
  ASSUME TypeOK, BatchTyped, JudgedInTurn, NEW e \in Entry, at = e, doing # "injecting",
         UNCHANGED <<handshake, exit>>,
         \/ UNCHANGED <<at, verdict>>
         \/ \E as \in Verdicts : Judge(e, as) /\ (as = "dumped" => ~Injected(e))
  PROVE  JudgedInTurn'
<1>1. UNCHANGED <<call, alive>> /\ e \in Nat /\ e <= Len(Entries) /\ Len(Entries) \in Nat
        /\ Nothing \notin Verdicts /\ Nothing \notin ExitCodes
  BY OwnAreGames DEF handshake, vars
<1>2. \A c \in Calls : ~Active(c) /\ ~Active(c)'
  BY <1>1 DEF JudgedInTurn, Active
<1>3. exit = Nothing /\ exit' = Nothing /\ exit' # 0
  BY <1>1 DEF JudgedInTurn, ExitCodes
<1>4. CASE UNCHANGED <<at, verdict>>
  BY <1>1, <1>2, <1>3, <1>4 DEF JudgedInTurn
<1>5. ASSUME NEW as \in Verdicts, Judge(e, as), as = "dumped" => ~Injected(e)
      PROVE JudgedInTurn'
  <2>1. at' = e + 1 /\ verdict' = [verdict EXCEPT ![e] = as]
    BY <1>5, JudgeTyped
  <2>2. verdict'[e] = as /\ \A f \in Entry \ {e} : verdict'[f] = verdict[f]
    BY <2>1 DEF BatchTyped
  <2>3. \A f \in Entry : f >= at' <=> f >= at /\ f # e
    BY <2>1, NextEntry
  <2>4. \A f \in Entry : verdict'[f] = Nothing <=> f >= at'
    <3> SUFFICES ASSUME NEW f \in Entry PROVE verdict'[f] = Nothing <=> f >= at'
      OBVIOUS
    <3>1. CASE f = e
      BY <1>1, <1>5, <2>2, <2>3, <3>1
    <3>2. CASE f # e
      BY <2>2, <2>3, <3>2 DEF JudgedInTurn
    <3> QED BY <3>1, <3>2
  <2>5. \A c \in Calls : call'[c] = "ok" => c[1] < at' /\ verdict'[c[1]] = "dumped" /\ c[2] \notin alive'
    <3>1. \A c \in Calls : call'[c] = "ok" => c[1] < e /\ verdict[c[1]] = "dumped" /\ c[2] \notin alive
      BY <1>1 DEF JudgedInTurn
    <3>2. \A c \in Calls : c[1] \in Entry /\ c[1] \in Nat
      BY CallsAreInjections, OwnAreGames
    <3>3. \A c \in Calls : call'[c] = "ok" => c[1] # e /\ c[1] < at'
      BY <1>1, <2>1, <3>1, <3>2
    <3> QED BY <1>1, <2>2, <3>1, <3>2, <3>3
  <2>6. ASSUME NEW f \in Entry, verdict'[f] = "dumped", Injected(f)
        PROVE  \E c \in Calls : c[1] = f /\ call'[c] = "ok"
    <3>1. f # e /\ verdict[f] = "dumped"
      BY <1>5, <2>2, <2>6
    <3> QED BY <1>1, <2>6, <3>1 DEF JudgedInTurn
  <2> QED BY <1>2, <1>3, <2>4, <2>5, <2>6 DEF JudgedInTurn
<1> QED BY <1>4, <1>5

LEMMA JudgedDone ==
  ASSUME TypeOK, BatchTyped, Launches, JudgedInTurn, NEW e \in Entry, Done(e)
  PROVE  JudgedInTurn'
<1>1. /\ at = e /\ doing = "injecting" /\ Judge(e, "dumped") /\ exit' = exit
      /\ \E c \in Calls : c[1] = e /\ call[c] = "ok"
  BY Injections DEF Done
<1>2. PICK c \in Calls : c[1] = e /\ call[c] = "ok"
  BY <1>1
<1>3. /\ e \in Nat /\ e <= Len(Entries) /\ Len(Entries) \in Nat
      /\ Nothing \notin Verdicts /\ Nothing \notin ExitCodes
  BY OwnAreGames
<1>4. \A d \in Calls : d[1] = e /\ call[d] # "idle" => d = c
  BY <1>2 DEF Launches
<1>5. call' = call /\ alive' \subseteq alive /\ c[2] \notin alive'
  <2>1. PICK d \in InjectionOf(e) :
          IF Target[d] \in alive THEN GameDies(Target[d]) ELSE UNCHANGED handshake
    BY DEF Done, Close
  <2>2. d = c /\ Target[d] = c[2]
    BY <1>4, <2>1, Injections, CallsAreInjections
  <2> QED BY <2>1, <2>2 DEF GameDies, handshake, vars
<1>6. \A d \in Calls : ~Active(d) /\ ~Active(d)'
  BY <1>1, <1>2, <1>4, <1>5 DEF JudgedInTurn, Active, Returned
<1>7. at' = e + 1 /\ verdict' = [verdict EXCEPT ![e] = "dumped"]
  BY <1>1 DEF Judge
<1>8. verdict'[e] = "dumped" /\ \A f \in Entry \ {e} : verdict'[f] = verdict[f]
  BY <1>7 DEF BatchTyped
<1>9. exit' = Nothing /\ exit' # 0
  BY <1>1, <1>3 DEF JudgedInTurn, ExitCodes
<1>10. \A f \in Entry : f >= at' <=> f >= at /\ f # e
  BY <1>1, <1>7, NextEntry
<1>11. \A f \in Entry : verdict'[f] = Nothing <=> f >= at'
  BY <1>3, <1>8, <1>10 DEF JudgedInTurn, Verdicts
<1>12. \A d \in Calls : call'[d] = "ok" => d[1] < at' /\ verdict'[d[1]] = "dumped" /\ d[2] \notin alive'
  <2>1. ASSUME NEW d \in Calls, call[d] = "ok"
        PROVE  d[1] < at' /\ verdict'[d[1]] = "dumped" /\ d[2] \notin alive'
    <3>1. d[1] \in Entry /\ d[1] \in Nat
      BY CallsAreInjections, OwnAreGames
    <3>2. CASE d[1] = e
      BY <1>3, <1>4, <1>5, <1>7, <1>8, <2>1, <3>2
    <3>3. CASE d[1] # e
      <4>1. d[1] < e /\ verdict[d[1]] = "dumped" /\ d[2] \notin alive
        BY <1>1, <2>1, <3>3 DEF JudgedInTurn
      <4> QED BY <1>3, <1>5, <1>7, <1>8, <3>1, <3>3, <4>1
    <3> QED BY <3>2, <3>3
  <2> QED BY <1>5, <2>1
<1>13. \A f \in Entry : verdict'[f] = "dumped" /\ Injected(f) =>
         \E d \in Calls : d[1] = f /\ call'[d] = "ok"
  BY <1>2, <1>5, <1>8 DEF JudgedInTurn
<1> QED BY <1>6, <1>9, <1>11, <1>12, <1>13 DEF JudgedInTurn

LEMMA JudgedWithCall ==
  ASSUME TypeOK, BatchTyped, JudgedInTurn, NEW e \in Entry,
         NotDone(e) \/ \E g \in Games : Settle(e, g)
  PROVE  JudgedInTurn'
<1>1. at = e /\ UNCHANGED <<at, verdict, exit, alive>>
  BY DEF NotDone, Settle, Begin, handshake, vars, game
<1>2. CASE NotDone(e)
  <2>1. /\ doing = "injecting" /\ call' = call
        /\ \A c \in Calls : c[1] = e /\ call[c] # "idle" => call[c] \in Returned \ {"ok"}
    BY <1>2, Injections DEF NotDone, handshake, vars
  <2>2. \A c \in Calls : ~Active(c) /\ ~Active(c)'
    BY <1>1, <2>1 DEF JudgedInTurn, Active
  <2>3. \A c \in Calls : call'[c] = "ok" =>
          c[1] < at /\ verdict[c[1]] = "dumped" /\ c[2] \notin alive
    BY <1>1, <2>1 DEF JudgedInTurn
  <2> QED BY <1>1, <2>1, <2>2, <2>3 DEF JudgedInTurn
<1>3. ASSUME NEW g \in Games, Settle(e, g) PROVE JudgedInTurn'
  <2>1. /\ doing = "launching" /\ doing' = "injecting"
        /\ call[<<e, g>>] = "idle" /\ call' = [call EXCEPT ![<<e, g>>] = "prepare"]
    BY <1>3 DEF Settle, Begin, Goto
  <2>2. <<e, g>> \in Calls /\ <<e, g>>[1] = e
    BY CallsAreInjections
  <2>3. call'[<<e, g>>] = "prepare" /\ \A c \in Calls \ {<<e, g>>} : call'[c] = call[c]
    BY <2>1, <2>2 DEF TypeOK
  <2>4. \A c \in Calls : ~Active(c)
    BY <2>1 DEF JudgedInTurn
  <2>5. \A c \in Calls : Active(c)' => doing' = "injecting" /\ at' = c[1]
    BY <1>1, <2>1, <2>2, <2>3, <2>4 DEF Active
  <2>6. \A c \in Calls : call'[c] = "ok" <=> call[c] = "ok"
    BY <2>1, <2>3
  <2>7. \A c \in Calls : call'[c] = "ok" =>
          c[1] < at /\ verdict[c[1]] = "dumped" /\ c[2] \notin alive
    BY <2>1, <2>6 DEF JudgedInTurn
  <2> QED BY <1>1, <2>5, <2>6, <2>7 DEF JudgedInTurn
<1> QED BY <1>2, <1>3

LEMMA StaysJudged ==
  ASSUME TypeOK, BatchTyped, Launches, JudgedInTurn, [BatchNext]_batch
  PROVE  JudgedInTurn'
<1>1. ASSUME NEW e \in Entry, EntryStep(e) PROVE JudgedInTurn'
  <2>1. CASE NothingToDo(e) \/ OnlyFiles(e) \/ Launch(e) \/ DoesNotStart(e) \/ LaunchTimesOut(e)
               \/ FallBack(e)
    <3>1. /\ at = e /\ doing # "injecting" /\ UNCHANGED <<handshake, exit>>
          /\ UNCHANGED <<at, verdict>> \/ Judge(e, "nothing")
      BY <2>1 DEF NothingToDo, OnlyFiles, Launch, DoesNotStart, LaunchTimesOut, FallBack
    <3> QED BY <3>1, JudgedBetween DEF Verdicts
  <2>2. CASE NoFallBack(e) \/ FilesUnreadable(e)
    <3>1. at = e /\ doing # "injecting" /\ UNCHANGED <<handshake, exit>> /\ Judge(e, "failed")
      BY <2>2 DEF NoFallBack, FilesUnreadable
    <3> QED BY <3>1, JudgedBetween DEF Verdicts
  <2>3. CASE ReadFiles(e)
    <3>1. /\ at = e /\ doing # "injecting" /\ UNCHANGED <<handshake, exit>>
          /\ \E as \in Verdicts : Judge(e, as) /\ (as = "dumped" => ~Injected(e))
      BY <2>3 DEF ReadFiles, Verdicts
    <3> QED BY <3>1, JudgedBetween
  <2>4. CASE Done(e)
    BY <2>4, JudgedDone
  <2>5. CASE NotDone(e) \/ \E g \in Games : Settle(e, g)
    BY <2>5, JudgedWithCall
  <2> QED BY <1>1, <2>1, <2>2, <2>3, <2>4, <2>5 DEF EntryStep
<1>2. ASSUME Elsewhere, UNCHANGED list PROVE JudgedInTurn'
  <2>1. /\ alive' \subseteq alive
        /\ \A c \in Calls : /\ Active(c)' => Active(c)
                            /\ call'[c] = "ok" => call[c] = "ok" \/ Active(c)
                            /\ call[c] = "ok" => call'[c] = "ok"
    BY <1>2, ElsewhereLeaves DEF Active, Returned
  <2> QED BY <1>2, <2>1, JudgedElsewhere
<1>3. ASSUME alive' \subseteq alive, call' = call, UNCHANGED list PROVE JudgedInTurn'
  BY <1>3, JudgedElsewhere DEF Active
<1>4. ASSUME NEW c \in Calls, InCall(c) \/ Outlasts(c) PROVE JudgedInTurn'
  BY <1>2, <1>4, StepsElsewhere
<1>5. ASSUME NEW g \in Games,
             WrapperExits(g) \/ RuntimeMapped(g) \/ GameCloses(g) \/ InGame(g) \/ Unloads(g)
      PROVE JudgedInTurn'
  <2>1. CASE WrapperExits(g) \/ RuntimeMapped(g) \/ GameCloses(g)
    BY <1>3, <2>1 DEF WrapperExits, RuntimeMapped, GameCloses, GameDies, handshake, vars
  <2>2. CASE InGame(g) \/ Unloads(g)
    BY <1>2, <2>2, StepsElsewhere
  <2> QED BY <1>5, <2>1, <2>2
<1>6. CASE Exit
  <2>1. /\ at > Len(Entries) /\ UNCHANGED <<call, alive, at, doing, verdict>>
        /\ exit' = 0 => \A e \in Entry : verdict[e] \notin {"failed", "degraded"}
    BY <1>6 DEF Exit, handshake, vars
  <2>2. \A e \in Entry : ~(e >= at)
    BY <2>1, OwnAreGames DEF BatchTyped
  <2>3. \A e \in Entry : verdict[e] \in Verdicts
    BY <2>2 DEF JudgedInTurn, BatchTyped
  <2>4. exit' = 0 => \A e \in Entry : verdict'[e] \in {"dumped", "nothing"}
    BY <2>1, <2>3 DEF Verdicts
  <2> QED BY <2>1, <2>4 DEF JudgedInTurn, Active
<1>7. CASE UNCHANGED batch
  BY <1>3, <1>7 DEF batch, vars, list
<1>8. CASE BatchNext
  BY <1>1, <1>4, <1>5, <1>6, <1>8 DEF BatchNext
<1> QED BY <1>7, <1>8

-----------------------------------------------------------------------------
(***************************************************************************)
(* The file at the path of an entry is of its own walk, or whole from its  *)
(* files, unless another entry of that name has been there.                *)
(***************************************************************************)

BeforeItsLoad == {"idle", "prepare", "note", "load"}

\* A game was walked only after the call whose options it was walked on had loaded the DLL.
LEMMA WalkedAfterLoad ==
  ASSUME TypeOK, ReportsInTurn, EachGameOnce, NEW g \in Games, outcome[g] # "none"
  PROVE  /\ took[g] \in Calls /\ Target[took[g]] = g
         /\ call[took[g]] \notin BeforeItsLoad
<1>1. took[g] \in Calls /\ Target[took[g]] = g /\ call[took[g]] # "idle"
  BY DEF ReportsInTurn
<1>2. PICK c \in Calls : Target[c] = g /\ call[c] \notin BeforeItsLoad
  BY DEF ReportsInTurn, Untouched, BeforeItsLoad
<1>3. c = took[g]
  BY <1>1, <1>2 DEF EachGameOnce, BeforeItsLoad
<1> QED BY <1>1, <1>2, <1>3

\* What a step may do to a call that has loaded the DLL, and to what a payload took.
LEMMA CallsGoOn ==
  ASSUME TypeOK, [Next]_vars
  PROVE  /\ \A c \in Calls : /\ call[c] \notin BeforeItsLoad /\ Awaited(c)' => Awaited(c)
                             /\ call[c] = "timeout" => call'[c] = "timeout"
         /\ \A g \in Games : took'[g] = took[g] \/ payload[g] = "attached"
<1> USE DEF cli, game, inside, Goto, Step, BeforeItsLoad
<1> DEFINE Under == BeforeItsLoad \cup {"waiting", "checking", "heard"}
<1>1. ASSUME NEW c \in Calls, NEW from \in Under, NEW state \in CallStates,
             call[c] = from, call' = [call EXCEPT ![c] = state]
      PROVE  \A d \in Calls : /\ call[d] \notin BeforeItsLoad /\ Awaited(d)' => Awaited(d)
                              /\ call[d] = "timeout" => call'[d] = "timeout"
  BY <1>1 DEF Awaited, Polling, TypeOK
<1>2. ASSUME NEW c \in Calls, Begin(c) \/ CallStep(c) \/ LateLoad(c) \/ TimeOut(c)
      PROVE  /\ took' = took
             /\ \/ call' = call
                \/ \E from \in Under, state \in CallStates :
                     call[c] = from /\ call' = [call EXCEPT ![c] = state]
  BY <1>2 DEF Begin, CallStep, NothingToSay, OpenHandoff, CannotOpenHandoff, WriteHandoff, Load,
              LoadFails, LoadStalls, PollStatus, TakeAnswer, PollAlive, TimeOut, LateLoad, LoadInto,
              CallStates, Returned
<1>3. ASSUME NEW g \in Games, PayloadStep(g) \/ Unload(g) \/ GameDies(g)
      PROVE  /\ call' = call
             /\ took' = took \/ (payload[g] = "attached" /\ \A h \in Games \ {g} : took'[h] = took[h])
  BY <1>3 DEF PayloadStep, ReadHandoff, RemoveTaken, Walk, SayNothing, OpenStatus, WriteStatus,
              Unload, GameDies, TypeOK
<1>4. CASE \E c \in Calls : Begin(c) \/ CallStep(c) \/ LateLoad(c) \/ TimeOut(c)
  <2>1. PICK c \in Calls : Begin(c) \/ CallStep(c) \/ LateLoad(c) \/ TimeOut(c)
    BY <1>4
  <2> HIDE DEF Under
  <2> QED BY <1>1, <1>2, <2>1 DEF Awaited, Polling
<1>5. CASE \E g \in Games : PayloadStep(g) \/ Unload(g) \/ GameDies(g)
  BY <1>3, <1>5 DEF Awaited, Polling
<1>6. CASE UNCHANGED vars
  BY <1>6 DEF vars, Awaited, Polling
<1> QED BY <1>4, <1>5, <1>6 DEF Next

\* What has begun, was given up on or came over a path stays so.
LEMMA MarksStand ==
  ASSUME TypeOK, BatchTyped, [BatchNext]_batch
  PROVE  \A e \in Entry : /\ Begun(e) => Begun(e)'
                          /\ TimedOut(e) => TimedOut(e)'
                          /\ Overwritten(e) => Overwritten(e)'
<1>1. ASSUME NEW e \in Entry, Begun(e) PROVE Begun(e)'
  <2>1. Framed /\ e \in Nat /\ at \in Nat
    BY StepFrame, OwnAreGames DEF BatchTyped
  <2> QED BY <1>1, <2>1 DEF Begun, Framed
<1>2. ASSUME NEW e \in Entry, TimedOut(e) PROVE TimedOut(e)'
  <2>1. PICK c \in Calls : c[1] = e /\ call[c] = "timeout"
    BY <1>2, Injections
  <2>2. call'[c] = "timeout"
    BY <2>1, StepIsHandshakeStep, CallsGoOn
  <2> QED BY <2>1, <2>2 DEF TimedOut, Code, InjectionOf
<1> QED BY <1>1, <1>2 DEF Overwritten

\* Where no file is written and no walk ends, what was said of the files stays true.
LEMMA FilesLeftAlone ==
  ASSUME TypeOK, BatchTyped, ReportsInTurn, EachGameOnce, FilesAreTheirs, [BatchNext]_batch,
         file' = file, outcome' = outcome,
         \A e \in Entry : verdict'[e] = "degraded" => verdict[e] = "degraded"
  PROVE  FilesAreTheirs'
<1>1. ASSUME NEW g \in Games, outcome'[g] = "dumped", NEW c, c = took'[g], Awaited(c)'
      PROVE  file'[PathOf(c[1])] = g \/ Overwritten(c[1])'
  <2>1. outcome[g] = "dumped" /\ payload[g] # "attached"
    BY <1>1 DEF ReportsInTurn
  <2>2. c = took[g] /\ c \in Calls /\ call[c] \notin BeforeItsLoad
    BY <1>1, <2>1, StepIsHandshakeStep, CallsGoOn, WalkedAfterLoad
  <2>3. Awaited(c) /\ c[1] \in Entry
    BY <1>1, <2>2, StepIsHandshakeStep, CallsGoOn, CallsAreInjections
  <2>4. file[PathOf(c[1])] = g \/ Overwritten(c[1])
    BY <2>1, <2>2, <2>3 DEF FilesAreTheirs
  <2> QED BY <2>3, <2>4, MarksStand
<1>2. \A e \in Entry : DegradedIsThere(e)'
  BY MarksStand DEF DegradedIsThere, FilesAreTheirs
<1> QED BY <1>1, <1>2 DEF FilesAreTheirs, Awaited, Polling, Overwritten

\* What an entry writes is over what an entry of the same name before it left, and what its
\* walk writes over that of one after it only when it was given up on.
LEMMA FilesWalked ==
  ASSUME TypeOK, OneCallEach, ReportsInTurn, BatchInv, FilesAreTheirs,
         NEW g \in Games, WalkWrites(g)
  PROVE  FilesAreTheirs'
<1>1. /\ payload[g] = "walking" /\ UNCHANGED <<call, took, at, doing, verdict>>
      /\ \A h \in Games \ {g} : outcome'[h] = outcome[h]
  BY DEF WalkWrites, Walk, cli, list, TypeOK
<1>2. PICK c \in Calls : c = took[g] /\ Target[c] = g /\ (Polling(c) \/ call[c] = "timeout")
  BY <1>1 DEF OneCallEach, PayloadsInTurn, PayloadInTurn, Running
<1>3. PICK e \in Entry : e = c[1] /\ e \in Nat /\ at \in Nat /\ c # None
  BY <1>2, FileTypes, CallsAreInjections, OwnAreGames DEF BatchInv, BatchTyped
<1>4. PICK wrote \in {g, "mixed"} :
        /\ outcome'[g] = "dumped" =>
             /\ wrote = "mixed" => \/ at > e \/ doing \in {"back", "reading"}
                                   \/ \E h \in Games \ {g} : WalksTo(h, PathOf(e))
             /\ file' = [file EXCEPT ![PathOf(e)] = wrote]
        /\ outcome'[g] # "dumped" => file' = file
  <2>1. CASE outcome'[g] = "dumped"
    <3>1. took[g] # None /\ took[g][1] = e
      BY <1>2, <1>3
    <3>2. \E wrote \in {g, "mixed"} :
            /\ wrote = "mixed" => \/ at > e \/ doing \in {"back", "reading"}
                                  \/ \E h \in Games \ {g} : WalksTo(h, PathOf(e))
            /\ file' = [file EXCEPT ![PathOf(e)] = wrote]
      BY <2>1, <3>1, Zenon DEF WalkWrites
    <3> QED BY <2>1, <3>2
  <2>2. CASE outcome'[g] # "dumped"
    BY <2>2 DEF WalkWrites
  <2> QED BY <2>1, <2>2
<1>5. /\ PathOf(e) \in DOMAIN file
      /\ \A f \in Entry : PathOf(f) # PathOf(e) => file'[PathOf(f)] = file[PathOf(f)]
      /\ file' # file => outcome'[g] = "dumped" /\ file'[PathOf(e)] = wrote
      /\ outcome'[g] = "dumped" => file'[PathOf(e)] = wrote
  BY <1>4 DEF BatchInv, BatchTyped, Paths
<1>6. Begun(e) /\ (Polling(c) => doing = "injecting" /\ at = e) /\ (~Polling(c) => TimedOut(e))
  BY <1>2, <1>3, Injections DEF BatchInv, Launches, JudgedInTurn, Active, Polling, Returned, Begun
<1>7. ASSUME NEW d \in Calls, d # c, call[d] # "idle", NEW f \in Entry, f = d[1]
      PROVE  f # e /\ f \in Nat /\ Begun(f) /\ f <= at
  <2>1. f # e
    BY <1>2, <1>3, <1>7 DEF BatchInv, Launches, Polling
  <2>2. f \in Nat
    BY OwnAreGames
  <2> QED BY <1>3, <1>7, <2>1, <2>2 DEF BatchInv, Launches, Begun
\* The entry comes over those that have begun before it and share its path.
<1>8. ASSUME NEW f \in Entry, f # e, PathOf(f) = PathOf(e), f \in Nat, f <= at
      PROVE  Overwritten(f)
  <2>1. e < f => TimedOut(e)
    BY <1>3, <1>6, <1>8
  <2> QED BY <1>6, <1>8, <2>1 DEF Overwritten
<1>9. ASSUME outcome'[g] = "dumped", Awaited(c) PROVE file'[PathOf(e)] = g \/ Overwritten(e)
  <2>1. Polling(c)
    BY <1>2, <1>9 DEF Awaited
  <2>2. CASE wrote = g
    BY <1>5, <1>9, <2>2
  <2>3. CASE wrote = "mixed"
    <3>1. PICK h \in Games \ {g} : WalksTo(h, PathOf(e))
      BY <1>3, <1>4, <1>6, <1>9, <2>1, <2>3
    <3>2. PICK d \in Calls : d = took[h] /\ Target[d] = h /\ (Polling(d) \/ call[d] = "timeout")
      BY <3>1 DEF OneCallEach, PayloadsInTurn, PayloadInTurn, Running, WalksTo
    <3>3. d # c /\ call[d] = "timeout"
      BY <1>2, <2>1, <3>1, <3>2 DEF OneCallEach, CallsInTurn, Active, Polling, Returned
    <3>4. PICK f \in Entry : f = d[1] /\ PathOf(f) = PathOf(e)
      BY <3>1, <3>2, CallsAreInjections DEF WalksTo
    <3>5. f # e /\ Begun(f) /\ TimedOut(f)
      BY <1>7, <3>2, <3>3, <3>4, Injections
    <3> QED BY <3>4, <3>5 DEF Overwritten
  <2> QED BY <2>2, <2>3
<1>10. ASSUME NEW h \in Games \ {g}, outcome[h] = "dumped", NEW d, d = took[h], Awaited(d)
       PROVE  file'[PathOf(d[1])] = h \/ Overwritten(d[1])
  <2>1. d \in Calls /\ Target[d] = h /\ call[d] # "idle"
    BY <1>10 DEF ReportsInTurn
  <2>2. d # c
    BY <1>2, <1>10, <2>1
  <2>3. PICK f \in Entry : f = d[1]
    BY <2>1, CallsAreInjections
  <2>4. f # e /\ f \in Nat /\ f <= at
    BY <1>7, <2>1, <2>2, <2>3
  <2>5. CASE PathOf(f) = PathOf(e)
    BY <1>8, <2>3, <2>4, <2>5
  <2>6. CASE PathOf(f) # PathOf(e)
    BY <1>5, <1>10, <2>3, <2>6 DEF FilesAreTheirs
  <2> QED BY <2>5, <2>6
<1>11. ASSUME NEW f \in Entry, verdict[f] = "degraded", ~TimedOut(f), ~Overwritten(f)
       PROVE  file'[PathOf(f)] = "files"
  <2>1. file[PathOf(f)] = "files" /\ Nothing # "degraded" /\ f \in Nat
    BY <1>11, OwnAreGames DEF FilesAreTheirs, DegradedIsThere, Verdicts
  <2>2. f < at
    BY <1>3, <1>11, <2>1 DEF BatchInv, JudgedInTurn
  <2>3. f # e
    BY <1>3, <1>6, <1>11, <2>2
  <2>4. PathOf(f) # PathOf(e)
    BY <1>3, <1>8, <1>11, <2>1, <2>2, <2>3
  <2> QED BY <1>5, <2>1, <2>4
<1>12. \A f \in Entry : /\ TimedOut(f)' <=> TimedOut(f)
                        /\ Overwritten(f)' <=> Overwritten(f)
  BY <1>1 DEF TimedOut, Code, InjectionOf, Overwritten, Begun
<1>13. \A f \in Entry : DegradedIsThere(f)'
  BY <1>1, <1>11, <1>12 DEF DegradedIsThere
<1>14. ASSUME NEW h \in Games, outcome'[h] = "dumped", NEW d, d = took[h], Awaited(d)
       PROVE  file'[PathOf(d[1])] = h \/ Overwritten(d[1])
  <2>1. CASE h = g
    BY <1>2, <1>3, <1>9, <1>14, <2>1
  <2>2. CASE h # g
    BY <1>1, <1>10, <1>14, <2>2
  <2> QED BY <2>1, <2>2
<1>15. \A d : Awaited(d)' <=> Awaited(d)
  BY <1>1 DEF Awaited, Polling
<1>16. ASSUME NEW h \in Games, outcome'[h] = "dumped", NEW d, d = took'[h], Awaited(d)'
       PROVE  file'[PathOf(d[1])] = h \/ Overwritten(d[1])'
  <2>1. d[1] \in Entry
    <3>1. d \in Calls
      <4>1. CASE h = g
        BY <1>1, <1>2, <1>16, <4>1
      <4>2. CASE h # g
        BY <1>1, <1>16, <4>2 DEF ReportsInTurn
      <4> QED BY <4>1, <4>2
    <3> QED BY <3>1, CallsAreInjections
  <2> QED BY <1>1, <1>12, <1>14, <1>15, <1>16, <2>1
<1> QED BY <1>13, <1>16 DEF FilesAreTheirs, Awaited, Polling, Overwritten

\* When the files are read nothing else writes their path but a walk that was given up on.
LEMMA FilesRead ==
  ASSUME TypeOK, OneCallEach, ReportsInTurn, BatchInv, FilesAreTheirs, [BatchNext]_batch,
         NEW e \in Entry, ReadFiles(e)
  PROVE  FilesAreTheirs'
<1>1. /\ doing = "reading" /\ at = e /\ at' = e + 1
      /\ UNCHANGED <<call, took, outcome, payload>>
      /\ \A f \in Entry \ {e} : verdict'[f] = verdict[f]
      /\ e \in Nat /\ \A f \in Entry : f \in Nat
  BY OwnAreGames DEF ReadFiles, handshake, vars, Judge, BatchInv, BatchTyped
<1>2. PICK wrote \in {"files", "mixed"} :
        /\ wrote = "mixed" => \E g \in Games : WalksTo(g, PathOf(e))
        /\ file' = [file EXCEPT ![PathOf(e)] = wrote]
  BY DEF ReadFiles, WriteFiles
<1>3. /\ file'[PathOf(e)] = wrote
      /\ \A f \in Entry : PathOf(f) # PathOf(e) => file'[PathOf(f)] = file[PathOf(f)]
  BY <1>2 DEF BatchInv, BatchTyped, Paths
<1>4. \A c \in Calls : ~Active(c)
  BY <1>1 DEF BatchInv, JudgedInTurn
\* An entry of the same name before this one is written over.
<1>5. ASSUME NEW f \in Entry, f < e, PathOf(f) = PathOf(e) PROVE Overwritten(f)'
  <2>1. e # f /\ Begun(e)' /\ ~(e < f)
    BY <1>1, <1>5 DEF Begun
  <2> QED BY <1>5, <2>1 DEF Overwritten
<1>6. ASSUME NEW h \in Games, outcome'[h] = "dumped", NEW d, d = took'[h], Awaited(d)'
      PROVE  file'[PathOf(d[1])] = h \/ Overwritten(d[1])'
  <2>1. outcome[h] = "dumped" /\ d = took[h] /\ Awaited(d) /\ d \in Calls /\ d[1] \in Entry
    BY <1>1, <1>6, CallsAreInjections DEF ReportsInTurn, Awaited, Polling
  <2>2. call[d] = "ok"
    BY <1>4, <2>1 DEF Awaited, Active, Polling, Returned
  <2>3. PICK f \in Entry : f = d[1] /\ f < e
    BY <1>1, <2>1, <2>2 DEF BatchInv, JudgedInTurn
  <2>4. CASE PathOf(f) = PathOf(e)
    BY <1>5, <2>3, <2>4
  <2>5. CASE PathOf(f) # PathOf(e)
    BY <1>3, <2>1, <2>3, <2>5, MarksStand DEF FilesAreTheirs, BatchInv
  <2> QED BY <2>4, <2>5
<1>7. ASSUME ~TimedOut(e)', ~Overwritten(e)' PROVE wrote = "files"
  <2> SUFFICES ASSUME wrote = "mixed" PROVE FALSE
    OBVIOUS
  <2>1. PICK g \in Games : WalksTo(g, PathOf(e))
    BY <1>2
  <2>2. PICK d \in Calls : d = took[g] /\ call[d] = "timeout"
    BY <1>4, <2>1 DEF OneCallEach, PayloadsInTurn, PayloadInTurn, Running, WalksTo, Active, Polling,
                      Returned
  <2>3. PICK f \in Entry : f = d[1] /\ PathOf(f) = PathOf(e) /\ TimedOut(f)
    BY <2>1, <2>2, CallsAreInjections, Injections DEF WalksTo
  <2>4. f <= e
    BY <1>1, <2>2, <2>3 DEF BatchInv, Launches
  <2>5. TimedOut(f)' /\ Begun(f)'
    BY <1>1, <2>3, <2>4, MarksStand DEF Begun, BatchInv
  <2> QED BY <1>7, <2>3, <2>5 DEF Overwritten
<1>8. ASSUME NEW f \in Entry, verdict'[f] = "degraded", ~TimedOut(f)', ~Overwritten(f)'
      PROVE  file'[PathOf(f)] = "files"
  <2>1. CASE f = e
    BY <1>3, <1>7, <1>8, <2>1
  <2>2. CASE f # e
    <3>1. verdict[f] = "degraded" /\ Nothing # "degraded"
      BY <1>1, <1>8, <2>2, OwnAreGames DEF Verdicts
    <3>2. f < e
      BY <1>1, <2>2, <3>1 DEF BatchInv, JudgedInTurn
    <3>3. file[PathOf(f)] = "files"
      BY <1>8, <3>1, MarksStand DEF FilesAreTheirs, DegradedIsThere, BatchInv
    <3> QED BY <1>3, <1>5, <1>8, <3>2, <3>3
  <2> QED BY <2>1, <2>2
<1>9. \A f \in Entry : DegradedIsThere(f)'
  BY <1>8 DEF DegradedIsThere
<1> QED BY <1>6, <1>9 DEF FilesAreTheirs, Awaited, Polling, Overwritten

LEMMA StaysTheirs ==
  ASSUME TypeOK, OneCallEach, ReportsInTurn, EachGameOnce, BatchInv, FilesAreTheirs,
         [BatchNext]_batch
  PROVE  FilesAreTheirs'
<1> USE DEF cli, game, inside
<1>1. ASSUME file' = file, outcome' = outcome,
             \A e \in Entry : verdict'[e] = "degraded" => verdict[e] = "degraded"
      PROVE FilesAreTheirs'
  BY <1>1, FilesLeftAlone DEF BatchInv
<1>2. ASSUME file' = file, outcome' = outcome, NEW e \in Entry, NEW as \in Verdicts \ {"degraded"},
             Judge(e, as)
      PROVE FilesAreTheirs'
  BY <1>1, <1>2 DEF Judge, BatchInv, BatchTyped
<1>3. ASSUME file' = file, outcome' = outcome, verdict' = verdict PROVE FilesAreTheirs'
  BY <1>1, <1>3
<1>4. ASSUME NEW e \in Entry, EntryStep(e) PROVE FilesAreTheirs'
  <2>1. CASE NothingToDo(e) \/ NoFallBack(e) \/ FilesUnreadable(e)
    BY <1>2, <2>1 DEF NothingToDo, NoFallBack, FilesUnreadable, handshake, vars, Verdicts
  <2>2. CASE Done(e)
    <3>1. file' = file /\ Judge(e, "dumped") /\ outcome' = outcome
      BY <2>2, CloseIsStep DEF Done, GameDies, vars
    <3> QED BY <1>2, <3>1 DEF Verdicts
  <2>3. CASE ReadFiles(e)
    BY <2>3, FilesRead
  <2>4. CASE \E g \in Games : Settle(e, g)
    BY <1>3, <2>4 DEF Settle, Begin
  <2>5. CASE OnlyFiles(e) \/ Launch(e) \/ DoesNotStart(e) \/ LaunchTimesOut(e) \/ NotDone(e)
               \/ FallBack(e)
    BY <1>3, <2>5 DEF OnlyFiles, Launch, DoesNotStart, LaunchTimesOut, NotDone, FallBack,
                      handshake, vars
  <2> QED BY <1>4, <2>1, <2>2, <2>3, <2>4, <2>5 DEF EntryStep
<1>5. ASSUME NEW c \in Calls, InCall(c) \/ Outlasts(c) PROVE FilesAreTheirs'
  <2>1. file' = file /\ verdict' = verdict
    BY <1>5 DEF InCall, Outlasts, list
  <2>2. outcome' = outcome
    BY <1>5 DEF InCall, Outlasts, CallStep, NothingToSay, OpenHandoff, CannotOpenHandoff,
                WriteHandoff, Load, LoadInto, LoadFails, LoadStalls, PollStatus, TakeAnswer,
                PollAlive, TimeOut, LateLoad
  <2> QED BY <1>3, <2>1, <2>2
<1>6. ASSUME NEW g \in Games,
             WrapperExits(g) \/ RuntimeMapped(g) \/ GameCloses(g) \/ InGame(g) \/ Unloads(g)
      PROVE FilesAreTheirs'
  <2>1. CASE WalkWrites(g)
    BY <2>1, FilesWalked
  <2>2. CASE WrapperExits(g) \/ RuntimeMapped(g) \/ GameCloses(g)
    BY <1>3, <2>2 DEF WrapperExits, RuntimeMapped, GameCloses, GameDies, handshake, vars, list
  <2>3. CASE (InGame(g) /\ ~WalkWrites(g)) \/ Unloads(g)
    BY <1>3, <2>3 DEF InGame, Unloads, ReadHandoff, RemoveTaken, SayNothing, OpenStatus, WriteStatus,
                      Unload, list
  <2> QED BY <1>6, <2>1, <2>2, <2>3
<1>7. CASE Exit
  BY <1>3, <1>7 DEF Exit, handshake, vars
<1>8. CASE UNCHANGED batch
  BY <1>3, <1>8 DEF batch, vars
<1>9. CASE BatchNext
  BY <1>4, <1>5, <1>6, <1>7, <1>9 DEF BatchNext
<1> QED BY <1>8, <1>9

-----------------------------------------------------------------------------
(***************************************************************************)
(* What is true of every batch.                                            *)
(***************************************************************************)

\* As long as the batch has injected into the right games, it is one call for each of them.
InTurnWhileRight == AllRight => OneCallEach /\ ReportsInTurn /\ FilesAreTheirs

WholeInv == TypeOK /\ Counted /\ BatchInv /\ InTurnWhileRight

LEMMA WholeStarts == BatchInit => WholeInv
<1>1. BatchInit => TypeOK /\ Counted /\ OneCallEach /\ ReportsInTurn
  BY InitTyped, InitInTurn DEF BatchInit
<1> QED BY <1>1, BatchStarts DEF WholeInv, InTurnWhileRight

LEMMA WholeStays ==
  ASSUME ExesApart, OneAtATime, ~MayStall, WholeInv, [BatchNext]_batch
  PROVE  WholeInv'
<1>1. Alone /\ [Next]_vars
  BY CallsAreInjections, StepIsHandshakeStep DEF Alone
<1>2. TypeOK' /\ Counted'
  BY <1>1, NextTyped DEF WholeInv
<1>3. BatchInv'
  BY BatchStaysTyped, LaunchesStay, StaysJudged DEF BatchInv, WholeInv
<1>4. ASSUME AllRight' PROVE OneCallEach' /\ ReportsInTurn' /\ FilesAreTheirs'
  <2>1. AllRight
    BY <1>4, StepFrame, RightBefore DEF WholeInv, BatchInv
  <2>2. OneCallEach /\ ReportsInTurn /\ FilesAreTheirs /\ EachGameOnce
    BY <2>1, OncePerGame DEF WholeInv, BatchInv, InTurnWhileRight
  <2> QED BY <1>1, <2>2, StaysInTurn, StaysReported, StaysTheirs DEF WholeInv
<1> QED BY <1>2, <1>3, <1>4 DEF WholeInv, InTurnWhileRight

LEMMA BatchInTurn ==
  ASSUME ExesApart, OneAtATime, ~MayStall
  PROVE  BatchSpec => []WholeInv
BY WholeStarts, WholeStays, PTL DEF BatchSpec

\* What the options of an entry are for is what they reach: no payload of a batch runs on
\* those of an entry into another game, whatever is left running by the entries before.
THEOREM BatchOptionsReach ==
  ASSUME GamesApart, OneAtATime, ~MayStall
  PROVE  BatchSpec => []OptionsReachTheirGame
<1> DEFINE Inv == WholeInv /\ AllRight
<1>1. BatchInit => Inv
  BY WholeStarts, BatchStarts
<1>2. ASSUME Inv, [BatchNext]_batch PROVE Inv'
  <2>1. WholeInv'
    BY <1>2, WholeStays DEF GamesApart
  <2>2. AllRight'
    BY <1>2, <2>1, StepFrame, RightStays DEF WholeInv, BatchInv
  <2> QED BY <2>1, <2>2
<1>3. Inv => OptionsReachTheirGame
  BY DEF WholeInv, InTurnWhileRight, OneCallEach, PayloadsInTurn, PayloadInTurn,
         OptionsReachTheirGame
<1> HIDE DEF Inv
<1> QED BY <1>1, <1>2, <1>3, PTL DEF BatchSpec

\* What the batch says of a game is true of the file it left, for every list of games whose
\* executables are one each, whatever they are called, wrapped or not, and whether or not
\* they live and their dumps can be written.
THEOREM BatchTruth ==
  ASSUME ExesApart, OneAtATime, ~MayStall
  PROVE  BatchSpec => []BatchTellsTruth
<1>1. WholeInv => BatchTellsTruth
  <2> SUFFICES ASSUME WholeInv PROVE BatchTellsTruth
    OBVIOUS
  <2>1. ASSUME AllRight, NEW e \in Entry, verdict[e] = "dumped", Injected(e)
        PROVE  \E g \in OnDisk(Entries[e].exe) :
                 /\ g \notin alive
                 /\ \A c \in InjectionOf(e) : c[2] = g /\ Heard(c)
                 /\ (\A c \in InjectionOf(e) : answer[c].result = "dumped") /\ ~Overwritten(e) =>
                      file[PathOf(e)] = g
    <3>1. OneCallEach /\ ReportsInTurn /\ FilesAreTheirs
      BY <2>1 DEF WholeInv, InTurnWhileRight
    <3>2. PICK c \in Calls : c[1] = e /\ call[c] = "ok"
      BY <2>1 DEF WholeInv, BatchInv, JudgedInTurn
    <3>3. PICK g \in Games : g = c[2] /\ Target[c] = g
      BY CallsAreInjections
    <3>4. g \in OnDisk(Entries[e].exe)
      BY <2>1, <3>2, <3>3 DEF AllRight, SettledRight
    <3>5. /\ outcome[g] # "none" /\ took[g] = c /\ answer[c] = Report(g, c, outcome[g])
          /\ answer[c] \in Reports
      BY <3>1, <3>2, <3>3 DEF ReportsInTurn
    <3>6. answer[c].from = g /\ answer[c].options = c /\ answer[c].result = outcome[g]
      BY <3>5 DEF Report
    <3>7. Heard(c)
      BY <3>2, <3>3, <3>5, <3>6 DEF Heard
    <3>8. ~(e >= at)
      BY <2>1, OwnAreGames DEF WholeInv, BatchInv, JudgedInTurn, Verdicts
    <3>9. g \notin alive
      BY <3>2, <3>3, <3>8, OwnAreGames DEF WholeInv, BatchInv, JudgedInTurn
    <3>10. c \in InjectionOf(e) /\ \A d \in InjectionOf(e) : d = c
      BY <3>2, Injections DEF WholeInv, BatchInv, Launches
    <3>11. answer[c].result = "dumped" => file[PathOf(e)] = g \/ Overwritten(e)
      BY <3>1, <3>2, <3>3, <3>5, <3>6 DEF FilesAreTheirs, Awaited
    <3> QED BY <3>3, <3>4, <3>7, <3>9, <3>10, <3>11
  <2>2. \A e \in Entry : AllRight => DumpedIsThere(e)
    BY <2>1 DEF DumpedIsThere
  <2>3. \A e \in Entry : AllRight => DegradedIsThere(e)
    BY DEF WholeInv, InTurnWhileRight, FilesAreTheirs
  <2>4. \A c \in Calls : WrongOnlyAfter(c)
    BY DEF WholeInv, BatchInv, Launches
  <2>5. exit = 0 => \A e \in Entry : verdict[e] \in {"dumped", "nothing"}
    BY DEF WholeInv, BatchInv, JudgedInTurn
  <2> QED BY <2>2, <2>3, <2>4, <2>5 DEF BatchTellsTruth
<1> QED BY <1>1, BatchInTurn, PTL
=============================================================================
