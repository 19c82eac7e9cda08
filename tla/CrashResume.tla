---------------------------- MODULE CrashResume ----------------------------
(***************************************************************************)
(* The IL2CPP payload walking a runtime that may fault under it, and what  *)
(* it carries from one dead process to the next: the breadcrumb file       *)
(* (core/Breadcrumb), the vectored fault watch and the .unreadable list    *)
(* (dll/dllmain.cpp), and the walk that leaves and obeys them              *)
(* (il2cpp/Walker.cpp).                                                    *)
(*                                                                         *)
(* A process here is one game process with the payload in it.  Several may *)
(* share the files: the names are built from the exe's name alone.         *)
(***************************************************************************)
EXTENDS Naturals, Sequences

CONSTANTS Procs,         \* processes of games with one exe name
          NoProc,        \* nobody has the breadcrumb file open
          NoKey,         \* the first line is empty
          Declared,      \* the declared types, in image slot order
          CacheOrders,   \* what enumerating the class cache may return: declared
                         \* types and the instantiations that are only in it
          NameFaults,    \* types the runtime faults on while they are named
          MemberFaults,  \* types the runtime faults on while they are read
          ByHand,        \* keys in zircon-il2cpp-skip.txt
          Settle,        \* whether an injection has --wait-for-settle: one or both of TRUE, FALSE
          SweepFaults,   \* whether enumerating the class cache faults: likewise
          GuardedFaults, \* a guarded read of the payload's own may fault
          MaxKills       \* bound: kills from outside, all processes together

SlotKey(i)  == <<"slot", i>>     \* "mscorlib.dll#412"
\* Mutant: a cache slot reads like an image slot.
CacheKeyLikeSlot(i) == <<"slot", i>>

CacheKey(i) == <<"cache", i>>    \* "class cache#17"
PathKey(t)  == <<"path", t>>     \* "System.Span`1, mscorlib"

CachedTypes == UNION {{c[i] : i \in DOMAIN c} : c \in CacheOrders}
DeclaredTypes == {Declared[i] : i \in DOMAIN Declared}
Types == DeclaredTypes \cup CachedTypes

Keys == {SlotKey(i) : i \in DOMAIN Declared}
          \cup {CacheKey(i) : i \in UNION {DOMAIN c : c \in CacheOrders}}
          \cup {PathKey(t) : t \in Types}

ASSUME ConstantsAssumption ==
  /\ NoProc \notin Procs
  /\ NoKey \notin Keys
  /\ Declared \in Seq(DeclaredTypes)
  /\ CacheOrders \subseteq Seq(CachedTypes)
  /\ CacheOrders # {}
  /\ NameFaults \subseteq Types
  /\ MemberFaults \subseteq Types
  /\ ByHand \subseteq Keys
  /\ Settle \subseteq BOOLEAN
  /\ SweepFaults \subseteq BOOLEAN
  /\ GuardedFaults \in BOOLEAN
  /\ MaxKills \in Nat

VARIABLES crumb,       \* the .breadcrumb file
          holder,      \* the process that has it mapped, or NoProc
          unreadable,  \* the keys in the .unreadable file
          kills,       \* kills so far
          pc,          \* where each process is
          last,        \* what it read of the previous run's breadcrumb
          skip,        \* the keys its walk goes around
          armed,       \* g_fault_seen is still 0
          pos,         \* index of the type its walk is at
          cache,       \* its snapshot of the class cache, <<>> before the sweep
          dump         \* the types its dump has records of

files == <<crumb, holder, unreadable>>
walk  == <<skip, cache, dump>>
vars  == <<crumb, holder, unreadable, kills, pc, last, skip, armed, pos, cache, dump>>

(***************************************************************************)
(* A breadcrumb: its first line, and whether a fault line follows and      *)
(* which of the two kinds it is.  A zeroed or a truncated file has neither *)
(* line and reads back as nothing.                                         *)
(***************************************************************************)
Crumb(key, fault) == [key |-> key, fault |-> fault]
Absent == Crumb(NoKey, "absent")
Empty  == Crumb(NoKey, "none")
Crumbs == [key : Keys \cup {NoKey}, fault : {"absent", "none", "inside", "outside"}]

States == {"idle", "trim", "remember", "open", "settle", "slot", "name", "members",
           "sweep", "done", "dead"}

Size(p) == Len(Declared) + Len(cache[p])

\* The type the walk of p is at, and the key its slot has.
TypeAt(p) == IF pos[p] <= Len(Declared) THEN Declared[pos[p]]
                                       ELSE cache[p][pos[p] - Len(Declared)]
SlotAt(p) == IF pos[p] <= Len(Declared) THEN SlotKey(pos[p])
                                       ELSE CacheKey(pos[p] - Len(Declared))

Goto(p, state) == pc' = [pc EXCEPT ![p] = state]

\* CrashBreadcrumb::Note through WalkOptions::breadcrumb, which is only set
\* when this process has the file open.
Note(p, key) == crumb' = IF holder = p THEN Crumb(key, "none") ELSE crumb

\* FaultWatch, one shot: the first machine-level fault on the walking thread
\* puts a line under whatever Note last wrote, the rest are not written down.
Watch(p, side) ==
  /\ crumb' = IF armed[p] /\ holder = p THEN [crumb EXCEPT !.fault = side] ELSE crumb
  /\ armed' = [armed EXCEPT ![p] = FALSE]

\* The process is gone: its handles close and the dirty page is written back.
Die(p) ==
  /\ holder' = IF holder = p THEN NoProc ELSE holder
  /\ Goto(p, "dead")
  /\ last' = [last EXCEPT ![p] = Absent]
  /\ UNCHANGED <<unreadable, pos, skip, cache, dump>>

\* The runtime faults in its own code: seen by the watch, handled by nobody.
RuntimeFault(p) == Watch(p, "inside") /\ Die(p) /\ UNCHANGED kills

Init ==
  /\ crumb = Absent
  /\ holder = NoProc
  /\ unreadable = {}
  /\ kills = 0
  /\ pc = [p \in Procs |-> "idle"]
  /\ last = [p \in Procs |-> Absent]
  /\ skip = [p \in Procs |-> {}]
  /\ armed = [p \in Procs |-> FALSE]
  /\ pos = [p \in Procs |-> 1]
  /\ cache = [p \in Procs |-> <<>>]
  /\ dump = [p \in Procs |-> {}]

-----------------------------------------------------------------------------
(* Before the walk: what did the last run leave behind?                    *)

Readable(c) == c \notin {Absent, Empty}

\* ReadBreadcrumb finds nothing.
NothingLeft(p) ==
  /\ pc[p] = "idle"
  /\ ~Readable(crumb)
  /\ Goto(p, "open")
  /\ UNCHANGED <<files, kills, last, armed, pos, walk>>

\* ReadBreadcrumb finds a record, and TrimBreadcrumbFile truncates the file to
\* write it back.  A file another process has mapped cannot be opened to write.
ReadLeftBehind(p) ==
  /\ pc[p] = "idle"
  /\ Readable(crumb)
  /\ last' = [last EXCEPT ![p] = crumb]
  /\ IF holder = NoProc THEN crumb' = Empty /\ Goto(p, "trim")
                        ELSE crumb' = crumb /\ Goto(p, "remember")
  /\ UNCHANGED <<holder, unreadable, kills, armed, pos, walk>>

\* Mutant: the file is truncated and what was read is never written back.
WriteTrimmedNothing(p) ==
  /\ pc[p] = "trim"
  /\ Goto(p, "remember")
  /\ UNCHANGED <<files, kills, last, armed, pos, walk>>

\* The trimmed text is flushed and the file closed.
WriteTrimmed(p) ==
  /\ pc[p] = "trim"
  /\ crumb' = last[p]
  /\ Goto(p, "remember")
  /\ UNCHANGED <<holder, unreadable, kills, last, armed, pos, walk>>

\* Mutants: a record without a fault line counts, a fault on either side counts.
RuntimeFaultedOrStopped(c) == c.fault \in {"inside", "none"}
FaultedAnywhere(c) == c.fault \in {"inside", "outside"}

\* Only a fault inside the runtime, and only under a key, goes on the list.
RuntimeFaulted(c) == c.fault = "inside"

RememberUnreadable(p) ==
  /\ pc[p] = "remember"
  /\ unreadable' = IF RuntimeFaulted(last[p]) /\ last[p].key # NoKey
                   THEN unreadable \cup {last[p].key} ELSE unreadable
  /\ last' = [last EXCEPT ![p] = Absent]
  /\ Goto(p, "open")
  /\ UNCHANGED <<crumb, holder, kills, armed, pos, walk>>

\* CREATE_ALWAYS sharing only reads: fails while anybody else has the file open
\* to write, and zeroes it otherwise.
CanOpen(p) == holder = NoProc /\ \A q \in Procs : pc[q] # "trim"

\* Mutant: the watch is installed without being rearmed.
OpenBreadcrumbUnarmed(p) ==
  /\ pc[p] = "open"
  /\ IF CanOpen(p) THEN crumb' = Empty /\ holder' = p
                   ELSE UNCHANGED <<crumb, holder>>
  /\ Goto(p, "settle")
  /\ UNCHANGED <<unreadable, kills, last, armed, pos, walk>>

OpenBreadcrumb(p) ==
  /\ pc[p] = "open"
  /\ IF CanOpen(p) THEN crumb' = Empty /\ holder' = p
                   ELSE UNCHANGED <<crumb, holder>>
  /\ armed' = [armed EXCEPT ![p] = TRUE]
  /\ Goto(p, "settle")
  /\ UNCHANGED <<unreadable, kills, last, pos, walk>>

\* WaitForSettle enumerates the class cache with the watch already on.
SettleFault(p) ==
  /\ pc[p] = "settle"
  /\ TRUE \in Settle \cap SweepFaults
  /\ RuntimeFault(p)

\* Mutants: the walk starts a slot early; it is given the hand-written list only.
BeginWalkEarly(p) ==
  /\ pc[p] = "settle"
  /\ FALSE \in Settle \cup SweepFaults
  /\ skip' = [skip EXCEPT ![p] = ByHand \cup unreadable]
  /\ pos' = [pos EXCEPT ![p] = 0]
  /\ cache' = [cache EXCEPT ![p] = <<>>]
  /\ dump' = [dump EXCEPT ![p] = {}]
  /\ Goto(p, IF Declared = <<>> THEN "sweep" ELSE "slot")
  /\ UNCHANGED <<files, kills, last, armed>>
BeginWalkByHandOnly(p) ==
  /\ pc[p] = "settle"
  /\ FALSE \in Settle \cup SweepFaults
  /\ skip' = [skip EXCEPT ![p] = ByHand]
  /\ pos' = [pos EXCEPT ![p] = 1]
  /\ cache' = [cache EXCEPT ![p] = <<>>]
  /\ dump' = [dump EXCEPT ![p] = {}]
  /\ Goto(p, IF Declared = <<>> THEN "sweep" ELSE "slot")
  /\ UNCHANGED <<files, kills, last, armed>>

BeginWalk(p) ==
  /\ pc[p] = "settle"
  /\ FALSE \in Settle \cup SweepFaults
  /\ skip' = [skip EXCEPT ![p] = ByHand \cup unreadable]
  /\ pos' = [pos EXCEPT ![p] = 1]
  /\ cache' = [cache EXCEPT ![p] = <<>>]
  /\ dump' = [dump EXCEPT ![p] = {}]
  /\ Goto(p, IF Declared = <<>> THEN "sweep" ELSE "slot")
  /\ UNCHANGED <<files, kills, last, armed>>
-----------------------------------------------------------------------------
(* The walk, one type at a time.                                           *)

\* After the last declared type comes the sweep, after the last cached the end.
Advance(p) ==
  /\ pos' = [pos EXCEPT ![p] = @ + 1]
  /\ Goto(p, IF pos[p] = Len(Declared) THEN "sweep" ELSE "slot")

Walking(p) == pc[p] \in {"slot", "name", "members"} /\ pos[p] <= Size(p)

\* The sweep passes over what the declared part has visited.  A declared type
\* skipped by its slot was not visited, only passed by.
InSweep(p) == pos[p] > Len(Declared)
Seen(p) == {Declared[i] : i \in {j \in DOMAIN Declared : SlotKey(j) \notin skip[p]}}

PassOverSeen(p) ==
  /\ Walking(p) /\ pc[p] = "slot"
  /\ InSweep(p) /\ TypeAt(p) \in Seen(p)
  /\ Advance(p)
  /\ UNCHANGED <<files, kills, last, armed, walk>>

\* Walker::Run notes the slot before the class is fetched.
NoteSlot(p) ==
  /\ Walking(p) /\ pc[p] = "slot"
  /\ ~(InSweep(p) /\ TypeAt(p) \in Seen(p))
  /\ Note(p, SlotAt(p))
  /\ IF SlotAt(p) \in skip[p] THEN Advance(p) ELSE Goto(p, "name") /\ UNCHANGED pos
  /\ UNCHANGED <<holder, unreadable, kills, last, armed, walk>>

\* Fetching, describing and naming the class asks the runtime.
NameFault(p) ==
  /\ Walking(p) /\ pc[p] = "name"
  /\ TypeAt(p) \in NameFaults
  /\ RuntimeFault(p)

\* The sweep is after instantiations only.
NotInflated(p) ==
  /\ Walking(p) /\ pc[p] = "name"
  /\ TypeAt(p) \notin NameFaults
  /\ InSweep(p) /\ TypeAt(p) \in DeclaredTypes
  /\ Advance(p)
  /\ UNCHANGED <<files, kills, last, armed, walk>>

\* Visit notes the path, the form a skip list usually takes.
NotePath(p) ==
  /\ Walking(p) /\ pc[p] = "name"
  /\ TypeAt(p) \notin NameFaults
  /\ ~(InSweep(p) /\ TypeAt(p) \in DeclaredTypes)
  /\ Note(p, PathKey(TypeAt(p)))
  /\ IF PathKey(TypeAt(p)) \in skip[p] THEN Advance(p)
                                       ELSE Goto(p, "members") /\ UNCHANGED pos
  /\ UNCHANGED <<holder, unreadable, kills, last, armed, walk>>

\* BuildEnum / BuildStruct: interfaces, fields, properties, methods.
MemberFault(p) ==
  /\ Walking(p) /\ pc[p] = "members"
  /\ TypeAt(p) \in MemberFaults
  /\ RuntimeFault(p)

\* A read of the payload's own memory provider faults and is guarded there.  The
\* watch is first in line, so it sees this one too.
GuardedFault(p) ==
  /\ GuardedFaults
  /\ Walking(p) /\ pc[p] = "members"
  /\ armed[p]
  /\ Watch(p, "outside")
  /\ UNCHANGED <<holder, unreadable, kills, pc, last, pos, walk>>

\* A type is its path: of several classes the runtime tells apart and the path
\* does not, the first is kept and the others are counted.
ReadMembers(p) ==
  /\ Walking(p) /\ pc[p] = "members"
  /\ TypeAt(p) \notin MemberFaults
  /\ dump' = [dump EXCEPT ![p] = @ \cup {TypeAt(p)}]
  /\ Advance(p)
  /\ UNCHANGED <<files, kills, last, armed, skip, cache>>

\* IBridge::AllClasses.  Nothing is noted before it: the breadcrumb still names
\* the last declared type.
SweepFault(p) ==
  /\ pc[p] = "sweep"
  /\ TRUE \in SweepFaults
  /\ RuntimeFault(p)

Sweep(p) ==
  /\ pc[p] = "sweep"
  /\ FALSE \in SweepFaults
  /\ \E order \in CacheOrders : cache' = [cache EXCEPT ![p] = order]
  /\ Goto(p, "slot")
  /\ UNCHANGED <<files, kills, last, armed, pos, skip, dump>>

\* Mutant: the file is removed by name, whoever has it open.
FinishWalkRemovesAny(p) ==
  /\ pc[p] = "slot" /\ pos[p] > Size(p)
  /\ crumb' = Absent
  /\ holder' = IF holder = p THEN NoProc ELSE holder
  /\ armed' = [armed EXCEPT ![p] = FALSE]
  /\ Goto(p, "done")
  /\ UNCHANGED <<unreadable, kills, last, pos, walk>>

\* The watch comes off, the breadcrumb is finished with, the dump is written.
FinishWalk(p) ==
  /\ pc[p] = "slot" /\ pos[p] > Size(p)
  /\ IF holder = p THEN crumb' = Absent /\ holder' = NoProc
                   ELSE UNCHANGED <<crumb, holder>>
  /\ armed' = [armed EXCEPT ![p] = FALSE]
  /\ Goto(p, "done")
  /\ UNCHANGED <<unreadable, kills, last, pos, walk>>
-----------------------------------------------------------------------------
(* From outside: Task Manager, the --wait timeout, somebody starting the   *)
(* game again.                                                             *)

Kill(p) ==
  /\ pc[p] \notin {"done", "dead"}
  /\ kills < MaxKills
  /\ kills' = kills + 1
  /\ Die(p)
  /\ armed' = [armed EXCEPT ![p] = FALSE]
  /\ UNCHANGED crumb

Relaunch(p) ==
  /\ pc[p] \in {"done", "dead"}
  /\ Goto(p, "idle")
  /\ UNCHANGED <<files, kills, last, armed, pos, walk>>

Payload(p) ==
  \/ NothingLeft(p) \/ ReadLeftBehind(p) \/ WriteTrimmed(p) \/ RememberUnreadable(p)
  \/ OpenBreadcrumb(p) \/ SettleFault(p) \/ BeginWalk(p)
  \/ PassOverSeen(p) \/ NoteSlot(p) \/ NameFault(p) \/ NotInflated(p) \/ NotePath(p)
  \/ MemberFault(p) \/ ReadMembers(p)
  \/ SweepFault(p) \/ Sweep(p) \/ FinishWalk(p)

Next == \E p \in Procs : Payload(p) \/ GuardedFault(p) \/ Kill(p) \/ Relaunch(p)

Spec == Init /\ [][Next]_vars

\* A thread that can run runs, and whoever wanted the dump injects again after a
\* death.  Nobody is obliged to kill a game or to make a guarded read fault.
Fairness == \A p \in Procs : WF_vars(Payload(p)) /\ WF_vars(Relaunch(p))

FairSpec == Spec /\ Fairness
-----------------------------------------------------------------------------
(* Properties                                                              *)

TypeOK ==
  /\ crumb \in Crumbs
  /\ holder \in Procs \cup {NoProc}
  /\ unreadable \subseteq Keys
  /\ kills \in 0..MaxKills
  /\ pc \in [Procs -> States]
  /\ last \in [Procs -> Crumbs]
  /\ skip \in [Procs -> SUBSET Keys]
  /\ armed \in [Procs -> BOOLEAN]
  /\ pos \in [Procs -> Nat \ {0}]
  /\ cache \in [Procs -> CacheOrders \cup {<<>>}]
  /\ dump \in [Procs -> SUBSET Types]

\* The keys under which the runtime faults: a type that cannot be named is known
\* by a slot it has, one that cannot be read by its path.
FaultKeys ==
  {k \in Keys :
     \/ \E i \in DOMAIN Declared : Declared[i] \in NameFaults /\ k = SlotKey(i)
     \/ \E c \in CacheOrders : \E i \in DOMAIN c : c[i] \in NameFaults /\ k = CacheKey(i)
     \/ \E t \in MemberFaults \ NameFaults : k = PathKey(t)}

\* What the breadcrumb still names when the sweep begins: the last declared type.
LastNoted == {k \in Keys : /\ Declared # <<>>
                           /\ \/ k = SlotKey(Len(Declared))
                              \/ k = PathKey(Declared[Len(Declared)])}
Blamed == FaultKeys \cup {k \in LastNoted : TRUE \in SweepFaults}

\* Everything on the .unreadable list is there because the runtime faulted inside
\* its own code on exactly that key (dllmain.cpp:741-749), or was last noted when it
\* faulted over the class cache (Walker.cpp:218): a kill, a fault of the payload's
\* own, or another process's record never puts a readable type there.
OnlyFaultingListed == unreadable \subseteq Blamed

\* A breadcrumb with nobody holding it means the last walk that had one did not
\* come back (Breadcrumb.h:10): a walk that finishes takes its file with it, and a
\* process that never got the file leaves the holder's alone.
HolderOwnsFile ==
  /\ holder # NoProc => crumb # Absent /\ pc[holder] \in
                          {"settle", "slot", "name", "members", "sweep"}
  /\ \A p \in Procs : pc[p] = "trim" => holder = NoProc

\* A finished dump has every type the runtime can be asked about, but for those the
\* hand-written list names.  Skipping more than was meant is a dump that quietly
\* lost things (Walker.h:43-45).
Asked(p) == DeclaredTypes \cup {cache[p][i] : i \in DOMAIN cache[p]}
Faulting == NameFaults \cup MemberFaults
NamedByHand(p) == {TypeAtSlot \in Asked(p) :
                     \/ PathKey(TypeAtSlot) \in ByHand
                     \/ \E i \in DOMAIN Declared :
                          Declared[i] = TypeAtSlot /\ SlotKey(i) \in ByHand
                     \/ \E i \in DOMAIN cache[p] :
                          cache[p][i] = TypeAtSlot /\ CacheKey(i) \in ByHand}
NothingReadableLost ==
  \A p \in Procs : pc[p] = "done" => Asked(p) \subseteq dump[p] \cup Faulting \cup NamedByHand(p)

\* A fault record that survived its process is not lost before its key is on the
\* list.  The exception the code has: a process killed between truncating the file
\* to trim it and writing the text back (dllmain.cpp:727 runs before :743).
PendingIn(c, k) == RuntimeFaulted(c) /\ c.key = k
Pending(k) == \/ holder = NoProc /\ PendingIn(crumb, k)
              \/ \E p \in Procs : pc[p] = "trim" /\ PendingIn(last[p], k)
RecordKept ==
  [][\A k \in Keys : Pending(k) /\ ~Pending(k)' =>
        \/ k \in unreadable'
        \/ \E p \in Procs : pc[p] = "trim" /\ pc'[p] = "dead"]_vars

\* A runtime fault on a type, in the process that has the breadcrumb open, leaves
\* the line the next run decides on (README.md:1091-1092): the watch has not been
\* used up before it and nothing writes over the line after it.
FaultedInRuntime(p) == /\ pc[p] \in {"name", "members"} /\ holder = p
                       /\ pc'[p] = "dead" /\ kills' = kills
RuntimeFaultRecorded ==
  [][\A p \in Procs : FaultedInRuntime(p) => RuntimeFaulted(crumb')]_vars

\* Every game is dumped in the end: each death teaches one key, and there are
\* finitely many (README.md:1086-1094, "walks past it on the next run").
EveryGameDumped == \A p \in Procs : []<>(pc[p] = "done")

\* The keys that get a walk past each place it would fault, for one order of the
\* class cache.
Needed(order) ==
  {{SlotKey(i)} : i \in {j \in DOMAIN Declared : Declared[j] \in NameFaults}}
  \cup {{SlotKey(i), PathKey(Declared[i])} :
          i \in {j \in DOMAIN Declared : Declared[j] \in MemberFaults \ NameFaults}}
  \cup {{CacheKey(i)} : i \in {j \in DOMAIN order : order[j] \in NameFaults}}
  \cup {{CacheKey(i), PathKey(order[i])} :
          i \in {j \in DOMAIN order :
                   order[j] \in MemberFaults \ (NameFaults \cup DeclaredTypes)}}

\* The abstract promise, with the .unreadable file as what was learned.
Promise == INSTANCE ResumePromise WITH
             Learnable <- Blamed,
             Scenarios <- {Needed(order) : order \in CacheOrders},
             learned <- unreadable,
             finished <- {p \in Procs : pc[p] = "done"}
ResumesAsPromised == Promise!Spec
=============================================================================
