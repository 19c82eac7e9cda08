-------------------------- MODULE InjectHandshake --------------------------
(***************************************************************************)
(* How `zircon inject` and the payload it loads talk to each other.  They  *)
(* share no channel, only files: the call leaves its options in one        *)
(* handoff file beside the DLL (app/main.cpp, CommandInject), the payload  *)
(* takes them when its thread starts (dll/dllmain.cpp, TakeHandoff) and    *)
(* leaves its outcome in a status file named after the pid, which a call   *)
(* with --wait polls for (WaitForPayload).                                 *)
(*                                                                         *)
(* A file opened for writing exists, empty, before its text is flushed,    *)
(* and cannot be removed while it is open.                                 *)
(***************************************************************************)
EXTENDS Integers

CONSTANTS Calls,          \* zircon inject commands
          Games,          \* the processes they are pointed at
          None,           \* no call
          Absent,         \* a file that is not there
          Blank,          \* a file without text, or without all of it
          Target,         \* the game of each call
          Waits,          \* calls with --wait
          Headless,       \* calls with --headless
          Quiet,          \* calls with nothing to hand over; the others have -o
          Unreal,         \* games the payload dumps by the Unreal path
          OneAtATime,     \* nobody injects before the previous call is back
          MayStall,       \* the remote loader may outlast the 10 s it is given
          MayTimeOut,     \* --timeout may run out
          MayFailToWrite  \* the dump may fail to be written

ASSUME ConstantsAssumption ==
  /\ {None, Absent, Blank} \cap Calls = {}
  /\ Absent # Blank
  /\ Target \in [Calls -> Games]
  /\ Waits \cup Headless \subseteq Calls \ Quiet
  /\ Quiet \subseteq Calls
  /\ Unreal \subseteq Games
  /\ {OneAtATime, MayStall, MayTimeOut, MayFailToWrite} \subseteq BOOLEAN

VARIABLES handoff,  \* zircon-payload.cfg: Absent, Blank, or the call whose options it has
          writers,  \* calls that have it open
          status,   \* zircon-<pid>.status of each game
          call,     \* where each call is
          answer,   \* what each call read from its status file
          stalled,  \* calls whose loader thread is still in the target
          alive,    \* games that have not died
          refs,     \* times each game has loaded the DLL
          payload,  \* where the payload thread of each game is
          took,     \* whose options it runs on
          outcome   \* how its dump went

cli   == <<call, answer, stalled>>
game  == <<alive, refs>>
inside == <<payload, took, outcome>>
vars  == <<handoff, writers, status, call, answer, stalled, alive, refs,
           payload, took, outcome>>

Outcomes == {"none", "dumped", "elsewhere", "unwritten", "failed"}

\* Mutant: one status file for whatever is injected into.
OneStatus(c) == CHOOSE g \in Games : TRUE

\* "zircon-<pid>.status": the file a call asks to be told in.
StatusOf(c) == Target[c]

\* ReportStatus writes "ok" whatever became of the files.
Said(result) == IF result = "failed" THEN "failed" ELSE "ok"

Report(g, c, result) == [from |-> g, options |-> c, result |-> result, said |-> Said(result)]
Reports == {Report(g, c, r) : g \in Games, c \in Calls, r \in Outcomes \ {"none"}}

ASSUME FilesAssumption == {Absent, Blank} \cap Reports = {}

Returned == {"loaded", "failed", "ok", "gaveup", "died", "timeout"}
CallStates == Returned \cup {"idle", "prepare", "note", "load", "waiting", "checking", "heard"}
PayloadStates == {"none", "attached", "taking", "walking", "telling", "reporting",
                  "finishing", "resident"}

Init ==
  /\ handoff = Absent
  /\ writers = {}
  /\ status = [g \in Games |-> Absent]
  /\ call = [c \in Calls |-> "idle"]
  /\ answer = [c \in Calls |-> Absent]
  /\ stalled = {}
  /\ alive = Games
  /\ refs = [g \in Games |-> 0]
  /\ payload = [g \in Games |-> "none"]
  /\ took = [g \in Games |-> None]
  /\ outcome = [g \in Games |-> "none"]

Goto(c, state) == call' = [call EXCEPT ![c] = state]
Step(g, state) == payload' = [payload EXCEPT ![g] = state]

\* std::filesystem::remove with its error ignored.
RemoveHandoff == handoff' = IF writers = {} THEN Absent ELSE handoff
StatusOpen(g) == \E h \in Games : payload[h] = "reporting" /\ StatusOf(took[h]) = g
RemoveStatus(g) == status' = IF StatusOpen(g) THEN status ELSE [status EXCEPT ![g] = Absent]
-----------------------------------------------------------------------------
(* CommandInject                                                           *)

Begin(c) ==
  /\ call[c] = "idle"
  /\ OneAtATime => \A d \in Calls \ {c} : call[d] \in Returned \cup {"idle"}
  /\ RemoveStatus(StatusOf(c))
  /\ Goto(c, "prepare")
  /\ UNCHANGED <<handoff, writers, answer, stalled, game, inside>>

NothingToSay(c) ==
  /\ call[c] = "prepare" /\ c \in Quiet
  /\ RemoveHandoff
  /\ Goto(c, "load")
  /\ UNCHANGED <<writers, status, answer, stalled, game, inside>>

\* Mutant: a handoff that is there already is left as it is.
OpenHandoffKeeping(c) ==
  /\ call[c] = "prepare" /\ c \notin Quiet
  /\ IF handoff = Absent
     THEN handoff' = Blank /\ writers' = writers \cup {c} /\ Goto(c, "note")
     ELSE UNCHANGED <<handoff, writers>> /\ Goto(c, "load")
  /\ UNCHANGED <<status, answer, stalled, game, inside>>

OpenHandoff(c) ==
  /\ call[c] = "prepare" /\ c \notin Quiet
  /\ handoff' = Blank
  /\ writers' = writers \cup {c}
  /\ Goto(c, "note")
  /\ UNCHANGED <<status, answer, stalled, game, inside>>

\* What is there stays: another call's options, if those are there.
CannotOpenHandoff(c) ==
  /\ call[c] = "prepare" /\ c \notin Quiet
  /\ Goto(c, "failed")
  /\ UNCHANGED <<handoff, writers, status, answer, stalled, game, inside>>

WriteHandoff(c) ==
  /\ call[c] = "note"
  /\ handoff' = c
  /\ writers' = writers \ {c}
  /\ Goto(c, "load")
  /\ UNCHANGED <<status, answer, stalled, game, inside>>

\* LoadLibraryW in the target: DllMain, and with it the payload thread, runs on
\* the first load only.
LoadInto(g) ==
  /\ refs' = [refs EXCEPT ![g] = @ + 1]
  /\ IF refs[g] = 0 THEN Step(g, "attached") ELSE UNCHANGED payload
  /\ UNCHANGED <<alive, took, outcome>>

Load(c) ==
  /\ call[c] = "load" /\ Target[c] \in alive
  /\ LoadInto(Target[c])
  /\ Goto(c, IF c \in Waits THEN "waiting" ELSE "loaded")
  /\ UNCHANGED <<handoff, writers, status, answer, stalled>>

\* Every error of Inject before the loader thread runs.
LoadFails(c) ==
  /\ call[c] = "load"
  /\ RemoveHandoff
  /\ Goto(c, "failed")
  /\ UNCHANGED <<writers, status, answer, stalled, game, inside>>

\* The loader thread is still there when the 10 s are over.
LoadStalls(c) ==
  /\ MayStall
  /\ call[c] = "load" /\ Target[c] \in alive
  /\ RemoveHandoff
  /\ stalled' = stalled \cup {c}
  /\ Goto(c, "failed")
  /\ UNCHANGED <<writers, status, answer, game, inside>>

LateLoad(c) ==
  /\ c \in stalled /\ Target[c] \in alive
  /\ stalled' = stalled \ {c}
  /\ LoadInto(Target[c])
  /\ UNCHANGED <<handoff, writers, status, call, answer>>
-----------------------------------------------------------------------------
(* WaitForPayload                                                          *)

PollStatus(c) ==
  LET text == status[StatusOf(c)] IN
  /\ call[c] = "waiting"
  /\ IF text = Absent
     THEN Goto(c, "checking") /\ UNCHANGED answer
     ELSE Goto(c, "heard") /\ answer' = [answer EXCEPT ![c] = text]
  /\ UNCHANGED <<handoff, writers, status, stalled, game, inside>>

\* The file it was read from is closed and removed, whatever it says by now.
TakeAnswer(c) ==
  /\ call[c] = "heard"
  /\ RemoveStatus(StatusOf(c))
  /\ Goto(c, IF answer[c] \in Reports /\ answer[c].said = "ok" THEN "ok" ELSE "gaveup")
  /\ UNCHANGED <<handoff, writers, answer, stalled, game, inside>>

PollAlive(c) ==
  /\ call[c] = "checking"
  /\ Goto(c, IF Target[c] \in alive THEN "waiting" ELSE "died")
  /\ UNCHANGED <<handoff, writers, status, answer, stalled, game, inside>>

\* --timeout is in minutes, the start of a thread is not.
TimeOut(c) ==
  /\ MayTimeOut
  /\ call[c] = "waiting" /\ payload[Target[c]] \notin {"attached", "taking"}
  /\ Goto(c, "timeout")
  /\ UNCHANGED <<handoff, writers, status, answer, stalled, game, inside>>
-----------------------------------------------------------------------------
(* The payload thread                                                      *)

ReadHandoff(g) ==
  /\ payload[g] = "attached"
  /\ took' = [took EXCEPT ![g] = IF handoff \in Calls THEN handoff ELSE None]
  /\ Step(g, IF handoff = Absent THEN "walking" ELSE "taking")
  /\ UNCHANGED <<handoff, writers, status, cli, game, outcome>>

RemoveTaken(g) ==
  /\ payload[g] = "taking"
  /\ RemoveHandoff
  /\ Step(g, "walking")
  /\ UNCHANGED <<writers, status, cli, game, took, outcome>>

\* RunIl2CppDump, RunMonoDump or the Unreal path, to the end of writing its files.
\* The Unreal path never looks at the -o it was handed.
Walk(g) ==
  /\ payload[g] = "walking"
  /\ \E result \in Outcomes \ {"none"} :
       /\ result = "unwritten" => MayFailToWrite
       /\ result = "elsewhere" => g \in Unreal
       /\ result = "dumped" => g \notin Unreal \/ took[g] = None
       /\ outcome' = [outcome EXCEPT ![g] = result]
  /\ Step(g, "telling")
  /\ UNCHANGED <<handoff, writers, status, cli, game, took>>

Listens(g) == took[g] \in Waits

\* Mutant: the status file is written on success only.
SayNothingOfFailure(g) ==
  /\ payload[g] = "telling" /\ (~Listens(g) \/ outcome[g] = "failed")
  /\ Step(g, "finishing")
  /\ UNCHANGED <<handoff, writers, status, cli, game, took, outcome>>

SayNothing(g) ==
  /\ payload[g] = "telling" /\ ~Listens(g)
  /\ Step(g, "finishing")
  /\ UNCHANGED <<handoff, writers, status, cli, game, took, outcome>>

OpenStatus(g) ==
  /\ payload[g] = "telling" /\ Listens(g)
  /\ status' = [status EXCEPT ![StatusOf(took[g])] = Blank]
  /\ Step(g, "reporting")
  /\ UNCHANGED <<handoff, writers, cli, game, took, outcome>>

WriteStatus(g) ==
  /\ payload[g] = "reporting"
  /\ status' = [status EXCEPT ![StatusOf(took[g])] = Report(g, took[g], outcome[g])]
  /\ Step(g, "finishing")
  /\ UNCHANGED <<handoff, writers, cli, game, took, outcome>>

\* FinishPayload: at once when headless, at the END key otherwise.  The DLL stays
\* mapped while a later call's load still counts.
Unload(g) ==
  /\ payload[g] = "finishing"
  /\ refs' = [refs EXCEPT ![g] = @ - 1]
  /\ Step(g, IF refs[g] = 1 THEN "none" ELSE "resident")
  /\ UNCHANGED <<handoff, writers, status, cli, alive, took, outcome>>

\* A crash, somebody closing it, or CommandInject closing what it launched.
GameDies(g) ==
  /\ g \in alive
  /\ alive' = alive \ {g}
  /\ refs' = [refs EXCEPT ![g] = 0]
  /\ Step(g, "none")
  /\ stalled' = {c \in stalled : Target[c] # g}
  /\ UNCHANGED <<handoff, writers, status, call, answer, took, outcome>>

CallStep(c) ==
  \/ NothingToSay(c) \/ OpenHandoff(c) \/ CannotOpenHandoff(c) \/ WriteHandoff(c)
  \/ Load(c) \/ LoadFails(c) \/ LoadStalls(c)
  \/ PollStatus(c) \/ TakeAnswer(c) \/ PollAlive(c)

PayloadStep(g) ==
  \/ ReadHandoff(g) \/ RemoveTaken(g) \/ Walk(g)
  \/ SayNothing(g) \/ OpenStatus(g) \/ WriteStatus(g)

Next ==
  \/ \E c \in Calls : Begin(c) \/ CallStep(c) \/ LateLoad(c) \/ TimeOut(c)
  \/ \E g \in Games : PayloadStep(g) \/ Unload(g) \/ GameDies(g)

Spec == Init /\ [][Next]_vars
-----------------------------------------------------------------------------
(* Properties                                                              *)

TypeOK ==
  /\ handoff \in {Absent, Blank} \cup Calls
  /\ writers \subseteq Calls
  /\ status \in [Games -> {Absent, Blank} \cup Reports]
  /\ call \in [Calls -> CallStates]
  /\ answer \in [Calls -> {Absent, Blank} \cup Reports]
  /\ stalled \subseteq Calls
  /\ alive \subseteq Games
  /\ refs \in [Games -> Nat]
  /\ payload \in [Games -> PayloadStates]
  /\ took \in [Games -> Calls \cup {None}]
  /\ outcome \in [Games -> Outcomes]

Running(g) == payload[g] \notin {"none", "attached", "resident"}

\* What a call hands over reaches the load it was written for (dllmain.cpp:177, "for
\* this one load"): no payload runs on the options of a call into another game.
OptionsReachTheirGame ==
  \A g \in Games : Running(g) /\ took[g] # None => Target[took[g]] = g

\* A payload a call has not heard from when it is back may still run, or be loaded only
\* then, and may take the options of a later call.
Heard(c) ==
  /\ call[c] \in {"ok", "gaveup"} /\ answer[c] \in Reports
  /\ answer[c].from = Target[c] /\ answer[c].options = c

LeftBehind(g) ==
  \E e \in Calls : Target[e] = g /\ call[e] \in Returned \ {"died"} /\ ~Heard(e)

\* "Named after the pid so two injections at once do not read each other's"
\* (app/main.cpp:2376).  Of calls that take turns, an ok is of a run on options for the
\* game of the call, and that run was in this game: or in one where a call had left its
\* payload behind, which takes the options of whoever is next.
OkIsOfTheCall ==
  \A c \in Calls : call[c] = "ok" =>
    /\ Target[answer[c].options] = Target[c]
    /\ answer[c].from = Target[c] \/ LeftBehind(answer[c].from)

\* The payload of a living game is reported to have given up only when it said so.
GaveUpMeansFailed ==
  [][\A c \in Calls : TakeAnswer(c) /\ call'[c] = "gaveup" =>
        \/ Target[c] \notin alive
        \/ answer[c] \in Reports /\ answer[c].said = "failed"]_vars
=============================================================================
