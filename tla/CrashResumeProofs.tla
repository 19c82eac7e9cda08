------------------------- MODULE CrashResumeProofs -------------------------
(***************************************************************************)
(* Proofs about CrashResume, for every set of processes, every game, every *)
(* order of the class cache and every number of kills.                     *)
(***************************************************************************)
EXTENDS CrashResume, TLAPS

(***************************************************************************)
(* Type correctness.                                                       *)
(***************************************************************************)

LEMMA CacheIsSequence ==
  ASSUME TypeOK, NEW p \in Procs
  PROVE  cache[p] \in Seq(CachedTypes) /\ Declared \in Seq(DeclaredTypes)
<1>1. cache[p] \in CacheOrders \cup {<<>>}
  BY DEF TypeOK
<1>2. CacheOrders \subseteq Seq(CachedTypes) /\ Declared \in Seq(DeclaredTypes)
  BY ConstantsAssumption DEF ConstantsAssumption
<1>3. <<>> \in Seq(CachedTypes)
  OBVIOUS
<1> QED BY <1>1, <1>2, <1>3

(***************************************************************************)
(* Where a walk is, it is at a type, and the keys it notes are keys: of a  *)
(* declared slot, or of a place in the order the sweep took.               *)
(***************************************************************************)
LEMMA WalkIsAtAType ==
  ASSUME TypeOK, NEW p \in Procs, pos[p] <= Size(p)
  PROVE  /\ TypeAt(p) \in Types
         /\ PathKey(TypeAt(p)) \in Keys
         /\ SlotAt(p) \in Keys
         /\ \/ /\ ~InSweep(p)
               /\ pos[p] \in DOMAIN Declared
               /\ SlotAt(p) = SlotKey(pos[p])
               /\ TypeAt(p) = Declared[pos[p]]
            \/ /\ InSweep(p)
               /\ cache[p] \in CacheOrders
               /\ pos[p] - Len(Declared) \in DOMAIN cache[p]
               /\ SlotAt(p) = CacheKey(pos[p] - Len(Declared))
               /\ TypeAt(p) = cache[p][pos[p] - Len(Declared)]
<1>1. pos[p] \in Nat /\ pos[p] > 0 /\ cache[p] \in CacheOrders \cup {<<>>}
  BY DEF TypeOK
<1>2. cache[p] \in Seq(CachedTypes) /\ Declared \in Seq(DeclaredTypes)
  BY CacheIsSequence
<1>3. Len(Declared) \in Nat /\ Len(cache[p]) \in Nat
  BY <1>2
<1>4. CASE pos[p] <= Len(Declared)
  <2>1. pos[p] \in DOMAIN Declared
    BY <1>1, <1>2, <1>3, <1>4
  <2>2. SlotAt(p) = SlotKey(pos[p]) /\ TypeAt(p) = Declared[pos[p]] /\ ~InSweep(p)
    BY <1>1, <1>3, <1>4 DEF SlotAt, TypeAt, InSweep
  <2>3. TypeAt(p) \in DeclaredTypes
    BY <2>1, <2>2 DEF DeclaredTypes
  <2> QED BY <2>1, <2>2, <2>3 DEF Types, Keys
<1>5. CASE ~(pos[p] <= Len(Declared))
  <2> DEFINE j == pos[p] - Len(Declared)
  <2>1. j \in 1..Len(cache[p])
    BY <1>1, <1>3, <1>5 DEF Size
  <2>2. j \in DOMAIN cache[p] /\ cache[p] # <<>>
    BY <1>2, <1>3, <2>1
  <2>3. cache[p] \in CacheOrders
    BY <1>1, <2>2
  <2>4. SlotAt(p) = CacheKey(j) /\ TypeAt(p) = cache[p][j] /\ InSweep(p)
    BY <1>1, <1>3, <1>5 DEF SlotAt, TypeAt, InSweep
  <2>5. TypeAt(p) \in CachedTypes
    BY <2>2, <2>3, <2>4 DEF CachedTypes
  <2>6. CacheKey(j) \in Keys
    BY <2>2, <2>3 DEF Keys
  <2> HIDE DEF j
  <2>7. PathKey(TypeAt(p)) \in Keys /\ TypeAt(p) \in Types
    BY <2>5 DEF Types, Keys
  <2>8. j = pos[p] - Len(Declared)
    BY DEF j
  <2> QED BY <2>2, <2>3, <2>4, <2>6, <2>7, <2>8
<1> QED BY <1>4, <1>5

(***************************************************************************)
(* Type correctness.                                                       *)
(***************************************************************************)

LEMMA InitTyped == Init => TypeOK
BY ConstantsAssumption
   DEF ConstantsAssumption, Init, TypeOK, Crumbs, Crumb, Absent, States

LEMMA SomeCrumbs ==
  /\ Empty \in Crumbs /\ Absent \in Crumbs
  /\ \A k \in Keys : Crumb(k, "none") \in Crumbs
  /\ \A c \in Crumbs, side \in {"inside", "outside"} : [c EXCEPT !.fault = side] \in Crumbs
  /\ \A c \in Crumbs : c.key \in Keys \cup {NoKey}
BY DEF Crumbs, Crumb, Empty, Absent

LEMMA AdvanceTyped ==
  ASSUME TypeOK, NEW p \in Procs, Advance(p)
  PROVE  /\ pos' \in [Procs -> Nat \ {0}]
         /\ pc' \in [Procs -> States]
<1> DEFINE next == IF pos[p] = Len(Declared) THEN "sweep" ELSE "slot"
<1>1. next \in States
  BY DEF States
<1>2. pc' = [pc EXCEPT ![p] = next]
  BY DEF Advance, Goto
<1> HIDE DEF next
<1>3. pc' \in [Procs -> States]
  BY <1>1, <1>2 DEF TypeOK
<1>4. pos' \in [Procs -> Nat \ {0}]
  BY DEF Advance, TypeOK
<1> QED BY <1>3, <1>4

LEMMA NextTyped == TypeOK /\ [Next]_vars => TypeOK'
<1> SUFFICES ASSUME TypeOK, [Next]_vars PROVE TypeOK'
  OBVIOUS
<1> USE SomeCrumbs DEF TypeOK, States, Goto, files, walk
<1>1. ASSUME NEW p \in Procs, NothingLeft(p) PROVE TypeOK'
  BY <1>1 DEF NothingLeft
<1>2. ASSUME NEW p \in Procs, ReadLeftBehind(p) PROVE TypeOK'
  <2>1. CASE holder = NoProc
    BY <1>2, <2>1 DEF ReadLeftBehind
  <2>2. CASE holder # NoProc
    BY <1>2, <2>2 DEF ReadLeftBehind
  <2> QED BY <2>1, <2>2
<1>3. ASSUME NEW p \in Procs, WriteTrimmed(p) PROVE TypeOK'
  BY <1>3 DEF WriteTrimmed
<1>4. ASSUME NEW p \in Procs, RememberUnreadable(p) PROVE TypeOK'
  BY <1>4 DEF RememberUnreadable
<1>5. ASSUME NEW p \in Procs, OpenBreadcrumb(p) PROVE TypeOK'
  BY <1>5 DEF OpenBreadcrumb
<1>6. ASSUME NEW p \in Procs, RuntimeFault(p) PROVE TypeOK'
  BY <1>6 DEF RuntimeFault, Watch, Die
<1>7. ASSUME NEW p \in Procs, BeginWalk(p) PROVE TypeOK'
  <2> DEFINE first == IF Declared = <<>> THEN "sweep" ELSE "slot"
  <2>1. first \in States
    OBVIOUS
  <2>2. pc' = [pc EXCEPT ![p] = first]
    BY <1>7 DEF BeginWalk
  <2> HIDE DEF first
  <2>3. pc' \in [Procs -> States]
    BY <2>1, <2>2
  <2>4. ByHand \subseteq Keys
    BY ConstantsAssumption DEF ConstantsAssumption
  <2>5. /\ skip' \in [Procs -> SUBSET Keys] /\ pos' \in [Procs -> Nat \ {0}]
        /\ cache' \in [Procs -> CacheOrders \cup {<<>>}] /\ dump' \in [Procs -> SUBSET Types]
    BY <1>7, <2>4 DEF BeginWalk
  <2> QED BY <1>7, <2>3, <2>5 DEF BeginWalk
<1>8. ASSUME NEW p \in Procs, PassOverSeen(p) \/ NotInflated(p) PROVE TypeOK'
  BY <1>8, AdvanceTyped DEF PassOverSeen, NotInflated
<1>9. ASSUME NEW p \in Procs, NoteSlot(p) PROVE TypeOK'
  <2>1. SlotAt(p) \in Keys
    BY <1>9, WalkIsAtAType DEF NoteSlot, Walking
  <2>2. crumb' \in Crumbs
    BY <1>9, <2>1 DEF NoteSlot, Note
  <2>3. pos' \in [Procs -> Nat \ {0}] /\ pc' \in [Procs -> States]
    BY <1>9, AdvanceTyped DEF NoteSlot
  <2> QED BY <1>9, <2>2, <2>3 DEF NoteSlot
<1>10. ASSUME NEW p \in Procs, NotePath(p) PROVE TypeOK'
  <2>1. PathKey(TypeAt(p)) \in Keys
    BY <1>10, WalkIsAtAType DEF NotePath, Walking
  <2>2. crumb' \in Crumbs
    BY <1>10, <2>1 DEF NotePath, Note
  <2>3. pos' \in [Procs -> Nat \ {0}] /\ pc' \in [Procs -> States]
    BY <1>10, AdvanceTyped DEF NotePath
  <2> QED BY <1>10, <2>2, <2>3 DEF NotePath
<1>11. ASSUME NEW p \in Procs, ReadMembers(p) PROVE TypeOK'
  <2>1. TypeAt(p) \in Types
    BY <1>11, WalkIsAtAType DEF ReadMembers, Walking
  <2>2. pos' \in [Procs -> Nat \ {0}] /\ pc' \in [Procs -> States]
    BY <1>11, AdvanceTyped DEF ReadMembers
  <2>3. dump' \in [Procs -> SUBSET Types]
    BY <1>11, <2>1 DEF ReadMembers
  <2> QED BY <1>11, <2>2, <2>3 DEF ReadMembers
<1>12. ASSUME NEW p \in Procs, Sweep(p) PROVE TypeOK'
  BY <1>12 DEF Sweep
<1>13. ASSUME NEW p \in Procs, FinishWalk(p) PROVE TypeOK'
  BY <1>13 DEF FinishWalk
<1>14. ASSUME NEW p \in Procs, Relaunch(p) PROVE TypeOK'
  BY <1>14 DEF Relaunch
<1>15. ASSUME NEW p \in Procs, GuardedFault(p) PROVE TypeOK'
  BY <1>15 DEF GuardedFault, Watch
<1>16. ASSUME NEW p \in Procs, Kill(p) PROVE TypeOK'
  BY <1>16, ConstantsAssumption DEF Kill, Die, ConstantsAssumption
<1>17. CASE UNCHANGED vars
  BY <1>17 DEF vars
<1> QED
  BY <1>1, <1>2, <1>3, <1>4, <1>5, <1>6, <1>7, <1>8, <1>9, <1>10, <1>11, <1>12, <1>13,
     <1>14, <1>15, <1>16, <1>17
  DEF Next, Payload, SettleFault, NameFault, MemberFault, SweepFault

(* Every variable keeps to the values the code can give it. *)
THEOREM TypeCorrect == Spec => []TypeOK
BY InitTyped, NextTyped, PTL DEF Spec

(***************************************************************************)
(* Who has the file.                                                       *)
(***************************************************************************)

LEMMA NextHolds == TypeOK /\ HolderOwnsFile /\ [Next]_vars => HolderOwnsFile'
<1> SUFFICES ASSUME TypeOK, HolderOwnsFile, [Next]_vars PROVE HolderOwnsFile'
  OBVIOUS
<1> USE ConstantsAssumption
    DEF ConstantsAssumption, HolderOwnsFile, TypeOK, States, Goto, files, walk
<1>1. ASSUME NEW p \in Procs, NothingLeft(p) PROVE HolderOwnsFile'
  BY <1>1 DEF NothingLeft
<1>2. ASSUME NEW p \in Procs, ReadLeftBehind(p) PROVE HolderOwnsFile'
  BY <1>2 DEF ReadLeftBehind
<1>3. ASSUME NEW p \in Procs, WriteTrimmed(p) PROVE HolderOwnsFile'
  BY <1>3 DEF WriteTrimmed
<1>4. ASSUME NEW p \in Procs, RememberUnreadable(p) PROVE HolderOwnsFile'
  BY <1>4 DEF RememberUnreadable
<1>5. ASSUME NEW p \in Procs, OpenBreadcrumb(p) PROVE HolderOwnsFile'
  BY <1>5 DEF OpenBreadcrumb, CanOpen, Empty, Absent, Crumb
<1>6. ASSUME NEW p \in Procs, RuntimeFault(p) PROVE HolderOwnsFile'
  BY <1>6 DEF RuntimeFault, Watch, Die
<1>7. ASSUME NEW p \in Procs, BeginWalk(p) PROVE HolderOwnsFile'
  BY <1>7 DEF BeginWalk
<1>8. ASSUME NEW p \in Procs, PassOverSeen(p) \/ NotInflated(p) PROVE HolderOwnsFile'
  BY <1>8 DEF PassOverSeen, NotInflated, Advance, Walking
<1>9. ASSUME NEW p \in Procs, NoteSlot(p) PROVE HolderOwnsFile'
  BY <1>9 DEF NoteSlot, Note, Advance, Walking, Crumb, Absent
<1>10. ASSUME NEW p \in Procs, NotePath(p) PROVE HolderOwnsFile'
  BY <1>10 DEF NotePath, Note, Advance, Walking, Crumb, Absent
<1>11. ASSUME NEW p \in Procs, ReadMembers(p) PROVE HolderOwnsFile'
  BY <1>11 DEF ReadMembers, Advance, Walking
<1>12. ASSUME NEW p \in Procs, Sweep(p) PROVE HolderOwnsFile'
  BY <1>12 DEF Sweep
<1>13. ASSUME NEW p \in Procs, FinishWalk(p) PROVE HolderOwnsFile'
  BY <1>13 DEF FinishWalk
<1>14. ASSUME NEW p \in Procs, Relaunch(p) PROVE HolderOwnsFile'
  BY <1>14 DEF Relaunch
<1>15. ASSUME NEW p \in Procs, GuardedFault(p) PROVE HolderOwnsFile'
  BY <1>15 DEF GuardedFault, Watch, Absent, Crumb, Crumbs
<1>16. ASSUME NEW p \in Procs, Kill(p) PROVE HolderOwnsFile'
  BY <1>16 DEF Kill, Die
<1>17. CASE UNCHANGED vars
  BY <1>17 DEF vars
<1> QED
  BY <1>1, <1>2, <1>3, <1>4, <1>5, <1>6, <1>7, <1>8, <1>9, <1>10, <1>11, <1>12, <1>13,
     <1>14, <1>15, <1>16, <1>17
  DEF Next, Payload, SettleFault, NameFault, MemberFault, SweepFault

(* However many processes of one name run at once, the file belongs to a   *)
(* live walk or says that the last one did not come back.                  *)
THEOREM HolderOwnsFileAlways == Spec => []HolderOwnsFile
<1>1. Init => HolderOwnsFile
  BY DEF Init, HolderOwnsFile
<1> QED BY <1>1, NextHolds, TypeCorrect, PTL DEF Spec

(***************************************************************************)
(* The .unreadable list.  OnlyFaultingListed is not inductive: what goes   *)
(* on the list was read from a file, which held what a dying walk left     *)
(* there.  So the strengthening says of every record that tells of a       *)
(* runtime fault, in the file or in memory, that it names a faulting key,  *)
(* and of the process that has the file that its key is the one being      *)
(* asked about; before the walk it has none, and at the sweep it still has *)
(* the last declared type's.                                               *)
(***************************************************************************)

TellsTrue(c) == RuntimeFaulted(c) /\ c.key # NoKey => c.key \in Blamed

KeyIsCurrent(p) ==
  /\ pc[p] \in {"name", "members"} => pos[p] <= Size(p)
  /\ holder = p /\ pc[p] = "name" => crumb.key = SlotAt(p)
  /\ pc[p] = "members" => TypeAt(p) \notin NameFaults
  /\ holder = p /\ pc[p] = "members" => crumb.key = PathKey(TypeAt(p))
  /\ holder = p /\ pc[p] = "settle" => crumb.key = NoKey
  /\ holder = p /\ pc[p] = "sweep" => crumb.key \in LastNoted \cup {NoKey}

ListInv ==
  /\ TellsTrue(crumb)
  /\ \A p \in Procs : TellsTrue(last[p])
  /\ \A p \in Procs : KeyIsCurrent(p)
  /\ OnlyFaultingListed

LEMMA FaultHasItsKey ==
  ASSUME TypeOK, NEW p \in Procs, pos[p] <= Size(p)
  PROVE  /\ TypeAt(p) \in NameFaults => SlotAt(p) \in FaultKeys
         /\ TypeAt(p) \in MemberFaults \ NameFaults => PathKey(TypeAt(p)) \in FaultKeys
<1>1. TypeAt(p) \in MemberFaults \ NameFaults => PathKey(TypeAt(p)) \in FaultKeys
  BY WalkIsAtAType DEF FaultKeys
<1>2. CASE ~InSweep(p)
  BY <1>1, <1>2, WalkIsAtAType DEF FaultKeys
<1>3. CASE InSweep(p)
  BY <1>1, <1>3, WalkIsAtAType DEF FaultKeys
<1> QED BY <1>2, <1>3

(* What a walk notes of the last declared type is what the sweep finds.    *)
LEMMA LastIsNoted ==
  ASSUME TypeOK, NEW p \in Procs, pos[p] <= Size(p), pos[p] = Len(Declared)
  PROVE  SlotAt(p) \in LastNoted /\ PathKey(TypeAt(p)) \in LastNoted
<1>1. Len(Declared) \in Nat /\ pos[p] > 0 /\ Len(<<>>) = 0
  BY CacheIsSequence DEF TypeOK
<1>2. SlotAt(p) = SlotKey(Len(Declared)) /\ TypeAt(p) = Declared[Len(Declared)]
  BY <1>1 DEF SlotAt, TypeAt
<1>3. Declared # <<>>
  BY <1>1
<1> QED BY <1>2, <1>3, WalkIsAtAType DEF LastNoted

(* A record under a key that may be blamed may be written down.            *)
LEMMA FaultKeepsList ==
  ASSUME TypeOK, ListInv, NEW p \in Procs, RuntimeFault(p),
         holder = p => crumb.key \in Blamed \cup {NoKey}
  PROVE  ListInv'
<1> USE DEF ListInv, TypeOK, Goto, RuntimeFault, Watch, Die
<1>1. TellsTrue(crumb)'
  BY DEF TellsTrue, Crumbs
<1>2. \A q \in Procs : TellsTrue(last[q])'
  BY DEF TellsTrue, RuntimeFaulted, Absent, Crumb
<1>3. ASSUME NEW q \in Procs PROVE KeyIsCurrent(q)'
  <2>1. CASE q = p
    BY <2>1 DEF KeyIsCurrent
  <2>2. CASE q # p
    <3>1. pc'[q] = pc[q] /\ pos' = pos /\ cache' = cache
      BY <2>2
    <3>2. holder' = q => holder = q /\ crumb'.key = crumb.key
      BY <2>2, ConstantsAssumption DEF ConstantsAssumption, Crumbs
    <3> QED BY <3>1, <3>2 DEF KeyIsCurrent, Size, SlotAt, TypeAt
  <2> QED BY <2>1, <2>2
<1> QED BY <1>1, <1>2, <1>3 DEF OnlyFaultingListed

LEMMA NextListed ==
  TypeOK /\ HolderOwnsFile /\ ListInv /\ [Next]_vars => ListInv'
<1> SUFFICES ASSUME TypeOK, HolderOwnsFile, ListInv, [Next]_vars
             PROVE  ListInv'
  OBVIOUS
<1> USE ConstantsAssumption
    DEF ConstantsAssumption, ListInv, KeyIsCurrent, OnlyFaultingListed, TellsTrue,
        RuntimeFaulted, HolderOwnsFile, TypeOK, States, Goto, files, walk, SlotAt, TypeAt,
        Size
<1>1. ASSUME NEW p \in Procs, NothingLeft(p) PROVE ListInv'
  BY <1>1 DEF NothingLeft
<1>2. ASSUME NEW p \in Procs, ReadLeftBehind(p) PROVE ListInv'
  BY <1>2 DEF ReadLeftBehind, Empty, Crumb
<1>3. ASSUME NEW p \in Procs, WriteTrimmed(p) PROVE ListInv'
  BY <1>3 DEF WriteTrimmed
<1>4. ASSUME NEW p \in Procs, RememberUnreadable(p) PROVE ListInv'
  BY <1>4 DEF RememberUnreadable, Absent, Crumb
<1>5. ASSUME NEW p \in Procs, OpenBreadcrumb(p) PROVE ListInv'
  BY <1>5 DEF OpenBreadcrumb, CanOpen, Empty, Crumb
<1>6. ASSUME NEW p \in Procs, NameFault(p) \/ MemberFault(p) PROVE ListInv'
  <2>1. holder = p => crumb.key \in FaultKeys
    BY <1>6, FaultHasItsKey DEF NameFault, MemberFault
  <2> QED BY <1>6, <2>1, FaultKeepsList DEF NameFault, MemberFault, Blamed
<1>7. ASSUME NEW p \in Procs, SettleFault(p) \/ SweepFault(p) PROVE ListInv'
  <2>1. holder = p => crumb.key \in Blamed \cup {NoKey}
    BY <1>7 DEF SettleFault, SweepFault, Blamed
  <2> QED BY <1>7, <2>1, FaultKeepsList DEF SettleFault, SweepFault
<1>8. ASSUME NEW p \in Procs, BeginWalk(p) PROVE ListInv'
  <2> DEFINE next == IF Declared = <<>> THEN "sweep" ELSE "slot"
  <2>1. next \in {"sweep", "slot"}
    OBVIOUS
  <2> HIDE DEF next
  <2>2. pc' = [pc EXCEPT ![p] = next] /\ pc[p] = "settle"
    BY <1>8 DEF BeginWalk, next
  <2>3. UNCHANGED <<crumb, holder, unreadable, last>>
    BY <1>8 DEF BeginWalk
  <2>4. \A q \in Procs : q # p => pos'[q] = pos[q] /\ cache'[q] = cache[q]
    BY <1>8 DEF BeginWalk
  <2>5. KeyIsCurrent(p)'
    BY <2>1, <2>2, <2>3
  <2>6. ASSUME NEW q \in Procs, q # p PROVE KeyIsCurrent(q)'
    BY <2>2, <2>3, <2>4, <2>6
  <2> QED BY <2>3, <2>5, <2>6
<1>9. ASSUME NEW p \in Procs, PassOverSeen(p) \/ NotInflated(p) PROVE ListInv'
  <2>1. Len(Declared) \in Nat /\ pos[p] \in Nat
    BY CacheIsSequence
  <2>2. pc' = [pc EXCEPT ![p] = "slot"] /\ pos' = [pos EXCEPT ![p] = @ + 1]
    BY <1>9, <2>1 DEF PassOverSeen, NotInflated, Advance, InSweep
  <2>3. UNCHANGED <<crumb, holder, unreadable, last, cache>>
    BY <1>9 DEF PassOverSeen, NotInflated
  <2> QED BY <2>2, <2>3
<1>10. ASSUME NEW p \in Procs, NoteSlot(p) PROVE ListInv'
  <2>1. CASE SlotAt(p) \in skip[p]
    <3>1. /\ holder' = holder /\ cache' = cache /\ last' = last /\ unreadable' = unreadable
          /\ pos' = [pos EXCEPT ![p] = @ + 1]
          /\ \E state \in {"sweep", "slot"} : pc' = [pc EXCEPT ![p] = state]
      BY <1>10, <2>1 DEF NoteSlot, Advance
    <3>2. /\ crumb' = IF holder = p THEN [key |-> SlotAt(p), fault |-> "none"] ELSE crumb
          /\ pos[p] <= Size(p)
      BY <1>10 DEF NoteSlot, Note, Crumb, Walking
    <3>3. TellsTrue(crumb)' /\ (\A q \in Procs : TellsTrue(last[q])') /\ OnlyFaultingListed'
      BY <3>1, <3>2
    <3>4. pc'[p] = "sweep" => pos[p] = Len(Declared)
      BY <1>10, <2>1 DEF NoteSlot, Advance
    <3>5. pc'[p] = "sweep" => SlotAt(p) \in LastNoted
      BY <3>2, <3>4, LastIsNoted
    <3>6. \A q \in Procs : KeyIsCurrent(q)'
      BY <3>1, <3>2, <3>5
    <3> QED BY <3>3, <3>6
  <2>2. CASE SlotAt(p) \notin skip[p]
    <3>1. pos' = pos /\ cache' = cache /\ holder' = holder /\ pos[p] <= Size(p)
      BY <1>10, <2>2 DEF NoteSlot, Walking
    <3>2. pc' = [pc EXCEPT ![p] = "name"]
      BY <1>10, <2>2 DEF NoteSlot
    <3>3. crumb' = IF holder = p THEN [key |-> SlotAt(p), fault |-> "none"] ELSE crumb
      BY <1>10 DEF NoteSlot, Note, Crumb
    <3>4. last' = last /\ unreadable' = unreadable
      BY <1>10 DEF NoteSlot
    <3>5. TellsTrue(crumb)' /\ (\A q \in Procs : TellsTrue(last[q])') /\ OnlyFaultingListed'
      BY <3>3, <3>4
    <3>6. \A q \in Procs : KeyIsCurrent(q)'
      BY <3>1, <3>2, <3>3
    <3> QED BY <3>5, <3>6
  <2> QED BY <2>1, <2>2
<1>11. ASSUME NEW p \in Procs, NotePath(p) PROVE ListInv'
  <2>1. CASE PathKey(TypeAt(p)) \in skip[p]
    <3>1. /\ holder' = holder /\ cache' = cache /\ last' = last /\ unreadable' = unreadable
          /\ pos' = [pos EXCEPT ![p] = @ + 1]
          /\ \E state \in {"sweep", "slot"} : pc' = [pc EXCEPT ![p] = state]
      BY <1>11, <2>1 DEF NotePath, Advance
    <3>2. crumb' = IF holder = p THEN [key |-> PathKey(TypeAt(p)), fault |-> "none"] ELSE crumb
      BY <1>11 DEF NotePath, Note, Crumb
    <3>3. TellsTrue(crumb)' /\ (\A q \in Procs : TellsTrue(last[q])') /\ OnlyFaultingListed'
      BY <3>1, <3>2
    <3>4. pc'[p] = "sweep" => pos[p] = Len(Declared) /\ pos[p] <= Size(p)
      BY <1>11, <2>1 DEF NotePath, Advance, Walking
    <3>5. pc'[p] = "sweep" => PathKey(TypeAt(p)) \in LastNoted
      BY <3>4, LastIsNoted
    <3>6. \A q \in Procs : KeyIsCurrent(q)'
      BY <3>1, <3>2, <3>5
    <3> QED BY <3>3, <3>6
  <2>2. CASE PathKey(TypeAt(p)) \notin skip[p]
    <3>1. /\ pos' = pos /\ cache' = cache /\ holder' = holder /\ pos[p] <= Size(p)
          /\ TypeAt(p) \notin NameFaults
      BY <1>11, <2>2 DEF NotePath, Walking
    <3>2. pc' = [pc EXCEPT ![p] = "members"]
      BY <1>11, <2>2 DEF NotePath
    <3>3. crumb' = IF holder = p THEN [key |-> PathKey(TypeAt(p)), fault |-> "none"]
                                 ELSE crumb
      BY <1>11 DEF NotePath, Note, Crumb
    <3>4. last' = last /\ unreadable' = unreadable
      BY <1>11 DEF NotePath
    <3> QED BY <3>1, <3>2, <3>3, <3>4
  <2> QED BY <2>1, <2>2
<1>12. ASSUME NEW p \in Procs, ReadMembers(p) PROVE ListInv'
  <2>1. pc'[p] = "sweep" => PathKey(TypeAt(p)) \in LastNoted
    BY <1>12, LastIsNoted DEF ReadMembers, Advance, Walking
  <2> QED BY <1>12, <2>1 DEF ReadMembers, Advance
<1>13. ASSUME NEW p \in Procs, Sweep(p) PROVE ListInv'
  BY <1>13 DEF Sweep
<1>14. ASSUME NEW p \in Procs, FinishWalk(p) PROVE ListInv'
  BY <1>14 DEF FinishWalk, Absent, Crumb
<1>15. ASSUME NEW p \in Procs, Relaunch(p) PROVE ListInv'
  BY <1>15 DEF Relaunch
<1>16. ASSUME NEW p \in Procs, GuardedFault(p) PROVE ListInv'
  BY <1>16 DEF GuardedFault, Watch, Crumbs
<1>17. ASSUME NEW p \in Procs, Kill(p) PROVE ListInv'
  BY <1>17 DEF Kill, Die, Absent, Crumb
<1>18. CASE UNCHANGED vars
  BY <1>18 DEF vars
<1> QED
  BY <1>1, <1>2, <1>3, <1>4, <1>5, <1>6, <1>7, <1>8, <1>9, <1>10, <1>11, <1>12, <1>13,
     <1>14, <1>15, <1>16, <1>17, <1>18
  DEF Next, Payload

(* Nothing is ever put on the list but keys the runtime faults on and,     *)
(* when it faults over the class cache, what was last noted before that:   *)
(* no kill, no fault of the payload's own and no second process can lose a *)
(* readable type to it.                                                    *)
THEOREM OnlyFaultingListedAlways == Spec => []OnlyFaultingListed
<1>1. Init => ListInv
  BY DEF Init, ListInv, KeyIsCurrent, OnlyFaultingListed, TellsTrue, RuntimeFaulted, Absent,
         Crumb
<1>2. ListInv => OnlyFaultingListed
  BY DEF ListInv
<1> QED BY <1>1, <1>2, NextListed, TypeCorrect, HolderOwnsFileAlways, PTL DEF Spec

(***************************************************************************)
(* The abstract promise.  A walk has got past everything behind it, so one *)
(* that comes back has got past every place it would have faulted at.      *)
(***************************************************************************)

PastDeclared(p, i) ==
  /\ Declared[i] \in NameFaults => SlotKey(i) \in skip[p]
  /\ Declared[i] \in MemberFaults \ NameFaults
       => SlotKey(i) \in skip[p] \/ PathKey(Declared[i]) \in skip[p]

PastCached(p, j) ==
  /\ cache[p][j] \in NameFaults => CacheKey(j) \in skip[p]
  /\ cache[p][j] \in MemberFaults \ (NameFaults \cup DeclaredTypes)
       => CacheKey(j) \in skip[p] \/ PathKey(cache[p][j]) \in skip[p]

Behind(p) ==
  /\ \A i \in DOMAIN Declared : i < pos[p] => PastDeclared(p, i)
  /\ \A j \in DOMAIN cache[p] : j + Len(Declared) < pos[p] => PastCached(p, j)

WalkInv(p) ==
  /\ pc[p] \in {"slot", "name", "members", "sweep"}
       => skip[p] \subseteq ByHand \cup unreadable /\ Behind(p)
  /\ pc[p] = "sweep" => pos[p] = Len(Declared) + 1
  /\ pc[p] \in {"slot", "name", "members"} /\ InSweep(p) => cache[p] \in CacheOrders

PastHere(p) ==
  /\ TypeAt(p) \in NameFaults => SlotAt(p) \in skip[p]
  /\ TypeAt(p) \in MemberFaults \ NameFaults
       => \/ SlotAt(p) \in skip[p]
          \/ PathKey(TypeAt(p)) \in skip[p]
          \/ InSweep(p) /\ TypeAt(p) \in DeclaredTypes

LEMMA AdvanceKeepsBehind ==
  ASSUME TypeOK, NEW p \in Procs, pos[p] <= Size(p), Behind(p), PastHere(p),
         pos' = [pos EXCEPT ![p] = @ + 1], UNCHANGED <<skip, cache>>
  PROVE  Behind(p)'
<1>1. pos'[p] = pos[p] + 1 /\ pos[p] \in Nat
  BY DEF TypeOK
<1>2. Len(Declared) \in Nat
  BY CacheIsSequence
<1>3. ASSUME NEW i \in DOMAIN Declared, i < pos'[p] PROVE PastDeclared(p, i)
  <2>1. i \in Nat /\ i <= Len(Declared)
    BY CacheIsSequence
  <2>2. CASE i < pos[p]
    BY <2>2 DEF Behind
  <2>3. CASE i = pos[p]
    <3>1. ~InSweep(p) /\ TypeAt(p) = Declared[i] /\ SlotAt(p) = SlotKey(i)
      BY <1>1, <1>2, <2>1, <2>3 DEF InSweep, TypeAt, SlotAt
    <3> QED BY <3>1 DEF PastHere, PastDeclared
  <2> QED BY <1>1, <1>3, <2>1, <2>2, <2>3
<1>4. ASSUME NEW j \in DOMAIN cache[p], j + Len(Declared) < pos'[p] PROVE PastCached(p, j)
  <2>1. j \in Nat /\ j > 0
    BY CacheIsSequence
  <2>2. CASE j + Len(Declared) < pos[p]
    BY <2>2 DEF Behind
  <2>3. CASE j + Len(Declared) = pos[p]
    <3>1. j = pos[p] - Len(Declared) /\ pos[p] > Len(Declared)
      BY <1>1, <1>2, <2>1, <2>3
    <3>2. TypeAt(p) = cache[p][j] /\ SlotAt(p) = CacheKey(j)
      BY <1>1, <1>2, <3>1 DEF TypeAt, SlotAt
    <3> QED BY <3>2 DEF PastHere, PastCached
  <2> QED BY <1>1, <1>2, <1>4, <2>1, <2>2, <2>3
<1>5. ASSUME NEW i \in DOMAIN Declared, i < pos'[p] PROVE PastDeclared(p, i)'
  BY <1>3, <1>5 DEF PastDeclared
<1>6. ASSUME NEW j \in DOMAIN cache'[p], j + Len(Declared) < pos'[p] PROVE PastCached(p, j)'
  BY <1>4, <1>6 DEF PastCached
<1> QED BY <1>5, <1>6 DEF Behind

LEMMA AdvanceKeepsWalk ==
  ASSUME TypeOK, NEW p \in Procs, Walking(p), WalkInv(p), PastHere(p), Advance(p),
         UNCHANGED <<skip, cache, unreadable>>
  PROVE  WalkInv(p)'
<1>1. Behind(p)'
  BY AdvanceKeepsBehind DEF Walking, WalkInv, Advance
<1>2. pos'[p] = pos[p] + 1 /\ pos[p] \in Nat /\ Len(Declared) \in Nat
  BY CacheIsSequence DEF Advance, TypeOK
<1>3. pc'[p] = IF pos[p] = Len(Declared) THEN "sweep" ELSE "slot"
  BY DEF Advance, Goto, TypeOK
<1>4. InSweep(p)' => InSweep(p) \/ pc'[p] = "sweep"
  BY <1>2, <1>3 DEF InSweep
<1> QED BY <1>1, <1>2, <1>3, <1>4 DEF WalkInv, Walking

WalksInv == \A p \in Procs : WalkInv(p)

(* A step of one process leaves the walk of another where it was; the list  *)
(* it may add to only grows.                                               *)
LEMMA OthersKeepWalk ==
  ASSUME NEW q \in Procs, WalkInv(q), unreadable \subseteq unreadable',
         pc'[q] = pc[q], pos'[q] = pos[q], skip'[q] = skip[q], cache'[q] = cache[q]
  PROVE  WalkInv(q)'
BY DEF WalkInv, Behind, PastDeclared, PastCached, InSweep

LEMMA OutsideWalk ==
  ASSUME NEW q \in Procs, pc'[q] \notin {"slot", "name", "members", "sweep"}
  PROVE  WalkInv(q)'
BY DEF WalkInv

LEMMA NextWalks ==
  TypeOK /\ ListInv /\ WalksInv /\ [Next]_vars => WalksInv'
<1> SUFFICES ASSUME TypeOK, ListInv, WalksInv, [Next]_vars, NEW q \in Procs
             PROVE  WalkInv(q)'
  BY DEF WalksInv
<1>0. WalkInv(q)
  BY DEF WalksInv
<1> USE DEF TypeOK, Goto, files, walk
<1>1. ASSUME NEW p \in Procs,
             NothingLeft(p) \/ ReadLeftBehind(p) \/ WriteTrimmed(p)
               \/ RememberUnreadable(p) \/ OpenBreadcrumb(p)
      PROVE  WalkInv(q)'
  <2>1. unreadable \subseteq unreadable' /\ pos' = pos /\ skip' = skip /\ cache' = cache
    BY <1>1 DEF NothingLeft, ReadLeftBehind, WriteTrimmed, RememberUnreadable, OpenBreadcrumb
  <2>2. q # p => pc'[q] = pc[q]
    BY <1>1 DEF NothingLeft, ReadLeftBehind, WriteTrimmed, RememberUnreadable, OpenBreadcrumb
  <2>3. pc'[p] \in {"open", "trim", "remember", "settle"}
    BY <1>1 DEF NothingLeft, ReadLeftBehind, WriteTrimmed, RememberUnreadable, OpenBreadcrumb
  <2> QED BY <1>0, <2>1, <2>2, <2>3, OthersKeepWalk, OutsideWalk
<1>2. ASSUME NEW p \in Procs, Die(p) PROVE WalkInv(q)'
  <2>1. unreadable' = unreadable /\ pos' = pos /\ skip' = skip /\ cache' = cache
        /\ pc' = [pc EXCEPT ![p] = "dead"]
    BY <1>2 DEF Die
  <2>2. CASE q = p
    BY <2>1, <2>2, OutsideWalk
  <2>3. CASE q # p
    BY <1>0, <2>1, <2>3, OthersKeepWalk
  <2> QED BY <2>2, <2>3
<1>3. ASSUME NEW p \in Procs, BeginWalk(p) PROVE WalkInv(q)'
  <2>1. CASE q # p
    BY <1>0, <1>3, <2>1, OthersKeepWalk DEF BeginWalk
  <2>2. CASE q = p
    <3>1. /\ skip'[p] = ByHand \cup unreadable /\ unreadable' = unreadable
          /\ pos'[p] = 1 /\ cache'[p] = <<>>
          /\ pc'[p] = IF Declared = <<>> THEN "sweep" ELSE "slot"
      BY <1>3 DEF BeginWalk
    <3>2. Declared \in Seq(DeclaredTypes)
      BY CacheIsSequence
    <3>3. \A i \in DOMAIN Declared : ~(i < 1)
      BY <3>2
    <3>4. Declared = <<>> => Len(Declared) = 0
      OBVIOUS
    <3>5. Declared # <<>> => Len(Declared) >= 1 /\ Len(Declared) \in Nat
      BY <3>2
    <3>6. DOMAIN <<>> = {}
      OBVIOUS
    <3> QED BY <2>2, <3>1, <3>3, <3>4, <3>5, <3>6 DEF WalkInv, Behind, InSweep
  <2> QED BY <2>1, <2>2
<1>4. ASSUME NEW p \in Procs, Walking(p), Advance(p), PastHere(p),
             UNCHANGED <<skip, cache, unreadable>>
      PROVE  WalkInv(q)'
  <2>1. CASE q = p
    BY <1>0, <1>4, <2>1, AdvanceKeepsWalk
  <2>2. CASE q # p
    BY <1>0, <1>4, <2>2, OthersKeepWalk DEF Advance
  <2> QED BY <2>1, <2>2
<1>5. ASSUME NEW p \in Procs, PassOverSeen(p) PROVE WalkInv(q)'
  <2>1. PICK i \in DOMAIN Declared : TypeAt(p) = Declared[i] /\ SlotKey(i) \notin skip[p]
    BY <1>5 DEF PassOverSeen, Seen
  <2>2. i < pos[p]
    BY <1>5, CacheIsSequence DEF PassOverSeen, InSweep
  <2>3. PastDeclared(p, i)
    BY <1>5, <2>2 DEF PassOverSeen, WalksInv, WalkInv, Behind
  <2>4. TypeAt(p) \in DeclaredTypes
    BY <2>1 DEF DeclaredTypes
  <2>5. PastHere(p)
    BY <1>5, <2>1, <2>3, <2>4 DEF PastDeclared, PastHere, PassOverSeen
  <2> QED BY <1>4, <1>5, <2>5 DEF PassOverSeen
<1>6. ASSUME NEW p \in Procs, NoteSlot(p) PROVE WalkInv(q)'
  <2>1. CASE SlotAt(p) \in skip[p]
    BY <1>4, <1>6, <2>1 DEF NoteSlot, PastHere
  <2>2. CASE SlotAt(p) \notin skip[p]
    <3>1. pc' = [pc EXCEPT ![p] = "name"] /\ UNCHANGED <<pos, skip, cache, unreadable>>
          /\ pc[p] = "slot"
      BY <1>6, <2>2 DEF NoteSlot
    <3>2. WalkInv(p)
      BY DEF WalksInv
    <3> QED BY <1>0, <3>1, <3>2 DEF WalkInv, Behind, PastDeclared, PastCached, InSweep
  <2> QED BY <2>1, <2>2
<1>7. ASSUME NEW p \in Procs, NotInflated(p) PROVE WalkInv(q)'
  <2>1. PastHere(p)
    BY <1>7 DEF NotInflated, PastHere
  <2> QED BY <1>4, <1>7, <2>1 DEF NotInflated
<1>8. ASSUME NEW p \in Procs, NotePath(p) PROVE WalkInv(q)'
  <2>1. CASE PathKey(TypeAt(p)) \in skip[p]
    <3>1. PastHere(p)
      BY <1>8, <2>1 DEF NotePath, PastHere
    <3> QED BY <1>4, <1>8, <2>1, <3>1 DEF NotePath
  <2>2. CASE PathKey(TypeAt(p)) \notin skip[p]
    <3>1. pc' = [pc EXCEPT ![p] = "members"] /\ UNCHANGED <<pos, skip, cache, unreadable>>
          /\ pc[p] = "name"
      BY <1>8, <2>2 DEF NotePath
    <3>2. WalkInv(p)
      BY DEF WalksInv
    <3> QED BY <1>0, <3>1, <3>2 DEF WalkInv, Behind, PastDeclared, PastCached, InSweep
  <2> QED BY <2>1, <2>2
<1>9. ASSUME NEW p \in Procs, ReadMembers(p) PROVE WalkInv(q)'
  <2>1. TypeAt(p) \notin MemberFaults /\ TypeAt(p) \notin NameFaults
    BY <1>9 DEF ReadMembers, ListInv, KeyIsCurrent
  <2>2. PastHere(p)
    BY <2>1 DEF PastHere
  <2> QED BY <1>4, <1>9, <2>2 DEF ReadMembers
<1>10. ASSUME NEW p \in Procs, Sweep(p) PROVE WalkInv(q)'
  <2>1. CASE q # p
    BY <1>0, <1>10, <2>1, OthersKeepWalk DEF Sweep
  <2>2. CASE q = p
    <3>1. /\ pc[p] = "sweep" /\ pc'[p] = "slot" /\ pos'[p] = pos[p] /\ skip'[p] = skip[p]
          /\ unreadable' = unreadable /\ cache'[p] \in CacheOrders
      BY <1>10 DEF Sweep
    <3>2. pos[p] = Len(Declared) + 1 /\ Len(Declared) \in Nat
      BY <3>1, CacheIsSequence DEF WalksInv, WalkInv
    <3>3. cache'[p] \in Seq(CachedTypes)
      BY <3>1, ConstantsAssumption DEF ConstantsAssumption
    <3>4. \A j \in DOMAIN cache'[p] : ~(j + Len(Declared) < pos'[p])
      BY <3>1, <3>2, <3>3
    <3>5. skip[p] \subseteq ByHand \cup unreadable /\ Behind(p)
      BY <3>1 DEF WalksInv, WalkInv
    <3> QED BY <2>2, <3>1, <3>4, <3>5 DEF WalkInv, Behind, PastDeclared, InSweep
  <2> QED BY <2>1, <2>2
<1>11. ASSUME NEW p \in Procs, FinishWalk(p) \/ Relaunch(p) PROVE WalkInv(q)'
  <2>1. /\ unreadable' = unreadable /\ pos' = pos /\ skip' = skip /\ cache' = cache
        /\ (q # p => pc'[q] = pc[q]) /\ pc'[p] \in {"done", "idle"}
    BY <1>11 DEF FinishWalk, Relaunch
  <2> QED BY <1>0, <2>1, OthersKeepWalk, OutsideWalk
<1>12. ASSUME NEW p \in Procs, GuardedFault(p) PROVE WalkInv(q)'
  BY <1>0, <1>12, OthersKeepWalk DEF GuardedFault, Watch
<1>13. CASE UNCHANGED vars
  BY <1>0, <1>13, OthersKeepWalk DEF vars
<1> QED
  BY <1>1, <1>2, <1>3, <1>5, <1>6, <1>7, <1>8, <1>9, <1>10, <1>11, <1>12, <1>13
  DEF Next, Payload, SettleFault, NameFault, MemberFault, SweepFault, RuntimeFault, Kill

LEMMA FinishedIsCovered ==
  ASSUME TypeOK, NEW p \in Procs, WalkInv(p), FinishWalk(p)
  PROVE  Promise!Covered(unreadable \cup ByHand)
<1> DEFINE order == cache[p]
<1>1. pos[p] \in Nat /\ Len(Declared) \in Nat /\ Len(order) \in Nat
  BY CacheIsSequence DEF TypeOK
<1>2. pos[p] > Len(Declared) + Len(order) /\ pc[p] = "slot"
  BY DEF FinishWalk, Size
<1>3. order \in CacheOrders
  BY <1>1, <1>2 DEF WalkInv, InSweep
<1>4. skip[p] \subseteq unreadable \cup ByHand
  BY <1>2 DEF WalkInv
<1>5. \A i \in DOMAIN Declared : PastDeclared(p, i)
  <2> SUFFICES ASSUME NEW i \in DOMAIN Declared PROVE PastDeclared(p, i)
    OBVIOUS
  <2>1. i \in 1..Len(Declared)
    BY CacheIsSequence
  <2> QED BY <1>1, <1>2, <2>1 DEF WalkInv, Behind
<1>6. \A j \in DOMAIN order : PastCached(p, j)
  <2> SUFFICES ASSUME NEW j \in DOMAIN order PROVE PastCached(p, j)
    OBVIOUS
  <2>1. j \in 1..Len(order)
    BY CacheIsSequence
  <2> QED BY <1>1, <1>2, <2>1 DEF WalkInv, Behind
<1>7. ASSUME NEW place \in Needed(order) PROVE place \cap skip[p] # {}
  <2>1. CASE \E i \in DOMAIN Declared : Declared[i] \in NameFaults /\ place = {SlotKey(i)}
    BY <1>5, <2>1 DEF PastDeclared
  <2>2. CASE \E i \in DOMAIN Declared : /\ Declared[i] \in MemberFaults \ NameFaults
                                        /\ place = {SlotKey(i), PathKey(Declared[i])}
    BY <1>5, <2>2 DEF PastDeclared
  <2>3. CASE \E j \in DOMAIN order : order[j] \in NameFaults /\ place = {CacheKey(j)}
    BY <1>6, <2>3 DEF PastCached
  <2>4. CASE \E j \in DOMAIN order :
               /\ order[j] \in MemberFaults \ (NameFaults \cup DeclaredTypes)
               /\ place = {CacheKey(j), PathKey(order[j])}
    BY <1>6, <2>4 DEF PastCached
  <2> QED BY <1>7, <2>1, <2>2, <2>3, <2>4 DEF Needed
<1>8. \A place \in Needed(order) : place \cap (unreadable \cup ByHand) # {}
  BY <1>4, <1>7
<1> HIDE DEF order
<1> QED BY <1>3, <1>8 DEF Promise!Covered

LEMMA StepKeepsPromise ==
  ASSUME TypeOK, WalksInv, OnlyFaultingListed', [Next]_vars
  PROVE  [Promise!Next]_(Promise!vars)
<1> USE DEF TypeOK, Goto, files, walk
<1> DEFINE finished == {q \in Procs : pc[q] = "done"}
<1>1. ASSUME NEW p \in Procs, RememberUnreadable(p) PROVE [Promise!Next]_(Promise!vars)
  <2>1. finished' = finished
    BY <1>1 DEF RememberUnreadable
  <2>2. CASE unreadable' = unreadable
    BY <2>1, <2>2 DEF Promise!vars
  <2>3. CASE unreadable' # unreadable
    <3>1. unreadable' = unreadable \cup {last[p].key}
      BY <1>1, <2>3 DEF RememberUnreadable
    <3>2. last[p].key \in Blamed \ unreadable
      BY <2>3, <3>1 DEF OnlyFaultingListed
    <3>3. Promise!Learn
      BY <2>1, <3>1, <3>2 DEF Promise!Learn
    <3> QED BY <3>3 DEF Promise!Next
  <2> QED BY <2>2, <2>3
<1>2. ASSUME NEW p \in Procs, FinishWalk(p) PROVE [Promise!Next]_(Promise!vars)
  <2>1. Promise!Covered(unreadable \cup ByHand)
    BY <1>2, FinishedIsCovered DEF WalksInv
  <2>2. finished' = finished \cup {p} /\ p \notin finished /\ unreadable' = unreadable
    BY <1>2 DEF FinishWalk
  <2> QED BY <2>1, <2>2 DEF Promise!Next, Promise!Finish
<1>3. ASSUME NEW p \in Procs, Relaunch(p) PROVE [Promise!Next]_(Promise!vars)
  <2>1. finished' = finished \ {p} /\ unreadable' = unreadable
    BY <1>3 DEF Relaunch
  <2>2. CASE p \in finished
    BY <2>1, <2>2 DEF Promise!Next, Promise!Relaunch
  <2>3. CASE p \notin finished
    BY <2>1, <2>3 DEF Promise!vars
  <2> QED BY <2>2, <2>3
<1>4. ASSUME NEW p \in Procs,
             NothingLeft(p) \/ ReadLeftBehind(p) \/ WriteTrimmed(p) \/ OpenBreadcrumb(p)
               \/ BeginWalk(p) \/ Sweep(p)
      PROVE  [Promise!Next]_(Promise!vars)
  <2>1. unreadable' = unreadable
    BY <1>4 DEF NothingLeft, ReadLeftBehind, WriteTrimmed, OpenBreadcrumb, BeginWalk, Sweep
  <2>2. pc[p] # "done" /\ pc'[p] # "done" /\ \A q \in Procs : q # p => pc'[q] = pc[q]
    BY <1>4 DEF NothingLeft, ReadLeftBehind, WriteTrimmed, OpenBreadcrumb, BeginWalk, Sweep
  <2>3. finished' = finished
    BY <2>2
  <2> QED BY <2>1, <2>3 DEF Promise!vars
<1>5. ASSUME NEW p \in Procs,
             PassOverSeen(p) \/ NoteSlot(p) \/ NotInflated(p) \/ NotePath(p)
               \/ ReadMembers(p) \/ GuardedFault(p)
      PROVE  [Promise!Next]_(Promise!vars)
  <2>1. unreadable' = unreadable
    BY <1>5 DEF PassOverSeen, NoteSlot, NotInflated, NotePath, ReadMembers, GuardedFault
  <2>2. pc[p] # "done" /\ pc'[p] # "done" /\ \A q \in Procs : q # p => pc'[q] = pc[q]
    BY <1>5 DEF PassOverSeen, NoteSlot, NotInflated, NotePath, ReadMembers, GuardedFault,
                Advance, Walking
  <2>3. finished' = finished
    BY <2>2
  <2> QED BY <2>1, <2>3 DEF Promise!vars
<1>6. ASSUME NEW p \in Procs, Die(p), pc[p] # "done" PROVE [Promise!Next]_(Promise!vars)
  <2>1. unreadable' = unreadable /\ finished' = finished
    BY <1>6 DEF Die
  <2> QED BY <2>1 DEF Promise!vars
<1>7. CASE UNCHANGED vars
  <2>1. unreadable' = unreadable /\ finished' = finished
    BY <1>7 DEF vars
  <2> QED BY <2>1 DEF Promise!vars
<1> QED
  BY <1>1, <1>2, <1>3, <1>4, <1>5, <1>6, <1>7
  DEF Next, Payload, SettleFault, NameFault, MemberFault, SweepFault, RuntimeFault, Kill,
      Walking

(* Breadcrumb, watch, list and walk together keep the promise: every death *)
(* teaches at most one key, only a faulting one, and a walk that comes     *)
(* back has got past everything, whatever is killed and whenever.          *)
THEOREM ResumesAsPromisedAlways == Spec => ResumesAsPromised
<1>1. Init => Promise!Init /\ ListInv /\ WalksInv
  <2>1. Init => Promise!Init
    BY DEF Init, Promise!Init
  <2>2. Init => ListInv
    BY DEF Init, ListInv, KeyIsCurrent, OnlyFaultingListed, TellsTrue, RuntimeFaulted, Absent,
           Crumb
  <2>3. Init => WalksInv
    BY DEF Init, WalksInv, WalkInv
  <2> QED BY <2>1, <2>2, <2>3
<1>2. ListInv => OnlyFaultingListed
  BY DEF ListInv
<1>3. TypeOK /\ WalksInv /\ OnlyFaultingListed' /\ [Next]_vars
        => [Promise!Next]_(Promise!vars)
  BY StepKeepsPromise
<1> QED
  BY <1>1, <1>2, <1>3, NextListed, NextWalks, TypeCorrect, HolderOwnsFileAlways, PTL
  DEF Spec, ResumesAsPromised, Promise!Spec

(***************************************************************************)
(* The watch is one-shot, and the walk never runs without it: nothing but  *)
(* the fault that kills the process uses it up, unless the payload's own   *)
(* reads fault as well.                                                    *)
(***************************************************************************)

WatchIsOn ==
  \A p \in Procs : pc[p] \in {"settle", "slot", "name", "members", "sweep"} => armed[p]

LEMMA NextWatches ==
  ASSUME ~GuardedFaults
  PROVE  TypeOK /\ WatchIsOn /\ [Next]_vars => WatchIsOn'
<1> SUFFICES ASSUME TypeOK, WatchIsOn, [Next]_vars PROVE WatchIsOn'
  OBVIOUS
<1> USE DEF WatchIsOn, TypeOK, Goto
<1>1. ASSUME NEW p \in Procs, OpenBreadcrumb(p) PROVE WatchIsOn'
  BY <1>1 DEF OpenBreadcrumb
<1>2. ASSUME NEW p \in Procs,
             NothingLeft(p) \/ ReadLeftBehind(p) \/ WriteTrimmed(p) \/ RememberUnreadable(p)
               \/ FinishWalk(p) \/ Relaunch(p)
      PROVE  WatchIsOn'
  <2>1. pc'[p] \in {"open", "trim", "remember", "done", "idle"}
    BY <1>2 DEF NothingLeft, ReadLeftBehind, WriteTrimmed, RememberUnreadable, FinishWalk,
                Relaunch
  <2>2. \A q \in Procs \ {p} : pc'[q] = pc[q] /\ armed'[q] = armed[q]
    BY <1>2 DEF NothingLeft, ReadLeftBehind, WriteTrimmed, RememberUnreadable, FinishWalk,
                Relaunch
  <2> QED BY <2>1, <2>2
<1>3. ASSUME NEW p \in Procs, RuntimeFault(p) \/ Kill(p) PROVE WatchIsOn'
  BY <1>3 DEF RuntimeFault, Kill, Watch, Die
<1>4. ASSUME NEW p \in Procs,
             BeginWalk(p) \/ PassOverSeen(p) \/ NoteSlot(p) \/ NotInflated(p) \/ NotePath(p)
               \/ ReadMembers(p) \/ Sweep(p)
      PROVE  WatchIsOn'
  <2>1. armed' = armed /\ armed[p]
    BY <1>4 DEF BeginWalk, PassOverSeen, NoteSlot, NotInflated, NotePath, ReadMembers, Sweep
  <2>2. \A q \in Procs \ {p} : pc'[q] = pc[q]
    BY <1>4 DEF BeginWalk, PassOverSeen, NoteSlot, NotInflated, NotePath, ReadMembers, Sweep,
                Advance
  <2> QED BY <2>1, <2>2
<1>5. ASSUME NEW p \in Procs, GuardedFault(p) PROVE WatchIsOn'
  BY <1>5 DEF GuardedFault
<1>6. CASE UNCHANGED vars
  BY <1>6 DEF vars
<1> QED
  BY <1>1, <1>2, <1>3, <1>4, <1>5, <1>6
  DEF Next, Payload, SettleFault, NameFault, MemberFault, SweepFault

\* A runtime fault on a type, in the process that has the breadcrumb open, leaves the
\* line that the next run decides on (FaultWatch), where none of the payload's own
\* guarded reads faults before it: the watch would be used up.
THEOREM RuntimeFaultRecordedAlways ==
  ASSUME ~GuardedFaults
  PROVE  Spec => RuntimeFaultRecorded
<1>1. Init => WatchIsOn
  BY DEF Init, WatchIsOn
<1>2. ASSUME TypeOK, WatchIsOn, [Next]_vars
      PROVE  [\A p \in Procs : FaultedInRuntime(p) => RuntimeFaulted(crumb')]_vars
  <2> SUFFICES ASSUME Next, NEW p \in Procs, FaultedInRuntime(p)
               PROVE  RuntimeFaulted(crumb')
    BY <1>2
  <2> USE <1>2 DEF TypeOK, Goto, FaultedInRuntime
  <2>1. PICK q \in Procs : Payload(q) \/ GuardedFault(q) \/ Kill(q) \/ Relaunch(q)
    BY DEF Next
  <2>2. CASE NameFault(q) \/ MemberFault(q) \/ SettleFault(q) \/ SweepFault(q)
    <3>1. RuntimeFault(q)
      BY <2>2 DEF NameFault, MemberFault, SettleFault, SweepFault
    <3>2. q = p
      BY <3>1 DEF RuntimeFault, Die
    <3>3. armed[p] /\ holder = p
      BY DEF WatchIsOn
    <3>4. crumb' = [crumb EXCEPT !.fault = "inside"] /\ crumb \in Crumbs
      BY <3>1, <3>2, <3>3 DEF RuntimeFault, Watch
    <3> QED BY <3>4 DEF Crumbs, RuntimeFaulted
  <2>3. CASE Kill(q)
    BY <2>3 DEF Kill
  <2>4. CASE GuardedFault(q)
    BY <2>4 DEF GuardedFault
  <2>5. CASE NothingLeft(q) \/ ReadLeftBehind(q) \/ WriteTrimmed(q) \/ RememberUnreadable(q)
               \/ OpenBreadcrumb(q) \/ BeginWalk(q) \/ Sweep(q) \/ FinishWalk(q)
               \/ Relaunch(q)
    BY <2>5 DEF NothingLeft, ReadLeftBehind, WriteTrimmed, RememberUnreadable, OpenBreadcrumb,
                BeginWalk, Sweep, FinishWalk, Relaunch
  <2>6. CASE PassOverSeen(q) \/ NoteSlot(q) \/ NotInflated(q) \/ NotePath(q) \/ ReadMembers(q)
    BY <2>6 DEF PassOverSeen, NoteSlot, NotInflated, NotePath, ReadMembers, Advance
  <2> QED BY <2>1, <2>2, <2>3, <2>4, <2>5, <2>6 DEF Payload
<1>3. TypeOK /\ WatchIsOn /\ [Next]_vars
        => [\A p \in Procs : FaultedInRuntime(p) => RuntimeFaulted(crumb')]_vars
  BY <1>2
<1> QED BY <1>1, <1>3, NextWatches, TypeCorrect, PTL DEF Spec, RuntimeFaultRecorded

(***************************************************************************)
(* What happens to a record between the death that left it and the list.   *)
(* With a second process of the name CREATE_ALWAYS may zero it before it   *)
(* is read, so the names are apart here: Procs has one process at most.    *)
(***************************************************************************)

NamesApart == \A p, q \in Procs : p = q

RecordInHand ==
  \A p \in Procs :
    /\ pc[p] = "trim" => crumb = Empty
    /\ pc[p] = "remember" => last[p] = crumb /\ holder = NoProc
    /\ pc[p] = "open" /\ RuntimeFaulted(crumb) /\ crumb.key # NoKey
         => crumb.key \in unreadable

LEMMA NextInHand ==
  ASSUME NamesApart
  PROVE  TypeOK /\ HolderOwnsFile /\ RecordInHand /\ [Next]_vars => RecordInHand'
<1> SUFFICES ASSUME TypeOK, HolderOwnsFile, RecordInHand, [Next]_vars PROVE RecordInHand'
  OBVIOUS
<1> USE NamesApart
    DEF NamesApart, RecordInHand, HolderOwnsFile, TypeOK, Goto, files, RuntimeFaulted, Empty,
        Crumb
<1>1. ASSUME NEW p \in Procs, NothingLeft(p) PROVE RecordInHand'
  <2>1. ~RuntimeFaulted(crumb) /\ crumb' = crumb /\ pc'[p] = "open"
    BY <1>1 DEF NothingLeft, Readable, Absent
  <2> QED BY <2>1
<1>2. ASSUME NEW p \in Procs, ReadLeftBehind(p) PROVE RecordInHand'
  <2>1. holder = NoProc
    BY <1>2, ConstantsAssumption DEF ReadLeftBehind, ConstantsAssumption
  <2>2. pc'[p] = "trim" /\ crumb' = Empty
    BY <1>2, <2>1 DEF ReadLeftBehind
  <2> QED BY <2>2
<1>3. ASSUME NEW p \in Procs, WriteTrimmed(p) PROVE RecordInHand'
  <2>1. pc'[p] = "remember" /\ crumb' = last[p] /\ last' = last /\ holder' = NoProc
    BY <1>3 DEF WriteTrimmed
  <2> QED BY <2>1
<1>4. ASSUME NEW p \in Procs, RememberUnreadable(p) PROVE RecordInHand'
  <2>1. pc'[p] = "open" /\ crumb' = crumb /\ last[p] = crumb
    BY <1>4 DEF RememberUnreadable
  <2>2. RuntimeFaulted(crumb) /\ crumb.key # NoKey => crumb.key \in unreadable'
    BY <1>4, <2>1 DEF RememberUnreadable
  <2> QED BY <2>1, <2>2
<1>5. ASSUME NEW p \in Procs, pc'[p] \notin {"trim", "remember", "open"} PROVE RecordInHand'
  BY <1>5
<1>6. ASSUME NEW p \in Procs, RuntimeFault(p) \/ Kill(p) PROVE RecordInHand'
  <2>1. pc'[p] = "dead"
    BY <1>6 DEF RuntimeFault, Kill, Die
  <2> QED BY <1>5, <2>1
<1>7. ASSUME NEW p \in Procs,
             OpenBreadcrumb(p) \/ BeginWalk(p) \/ Sweep(p) \/ FinishWalk(p) \/ Relaunch(p)
      PROVE  RecordInHand'
  <2>1. pc'[p] \in {"settle", "slot", "sweep", "done", "idle"}
    BY <1>7 DEF OpenBreadcrumb, BeginWalk, Sweep, FinishWalk, Relaunch
  <2> QED BY <1>5, <2>1
<1>8. ASSUME NEW p \in Procs,
             PassOverSeen(p) \/ NoteSlot(p) \/ NotInflated(p) \/ NotePath(p)
               \/ ReadMembers(p) \/ GuardedFault(p)
      PROVE  RecordInHand'
  <2>1. pc'[p] \in {"sweep", "slot", "name", "members"}
    BY <1>8 DEF PassOverSeen, NoteSlot, NotInflated, NotePath, ReadMembers, Advance,
                GuardedFault
  <2> QED BY <1>5, <2>1
<1>9. CASE UNCHANGED vars
  BY <1>9 DEF vars
<1> QED
  BY <1>1, <1>2, <1>3, <1>4, <1>6, <1>7, <1>8, <1>9
  DEF Next, Payload, SettleFault, NameFault, MemberFault, SweepFault

\* A record is where it was left, unless the file is written by whoever has it open.
LEMMA PendingStays ==
  ASSUME TypeOK, HolderOwnsFile, RecordInHand, NamesApart, NEW p \in Procs, NEW k \in Keys,
         Pending(k), pc[p] # "trim",
         crumb' = crumb \/ holder = p,
         holder' = holder \/ holder = p
  PROVE  Pending(k)'
<1>1. ~\E q \in Procs : pc[q] = "trim" /\ PendingIn(last[q], k)
  BY DEF NamesApart
<1>2. holder = NoProc /\ PendingIn(crumb, k)
  BY <1>1 DEF Pending
<1>3. holder # p
  BY <1>2, ConstantsAssumption DEF ConstantsAssumption
<1> QED BY <1>2, <1>3 DEF Pending, PendingIn, RuntimeFaulted

\* A fault record that survived its process is not lost before its key is on the list,
\* but to a kill between truncating the file to trim it and writing it back
\* (RunIl2CppDump: TrimBreadcrumbFile before RememberUnreadable).
THEOREM RecordKeptAlways ==
  ASSUME NamesApart
  PROVE  Spec => RecordKept
<1> DEFINE Kept == \A k \in Keys :
                     Pending(k) /\ ~Pending(k)'
                       => \/ k \in unreadable'
                          \/ \E p \in Procs : pc[p] = "trim" /\ pc'[p] = "dead"
<1>1. Init => RecordInHand
  BY DEF Init, RecordInHand
<1>2. ASSUME TypeOK, HolderOwnsFile, RecordInHand, [Next]_vars PROVE [Kept]_vars
  <2> SUFFICES ASSUME Next, NEW k \in Keys, Pending(k), ~Pending(k)'
               PROVE  \/ k \in unreadable'
                      \/ \E p \in Procs : pc[p] = "trim" /\ pc'[p] = "dead"
    BY <1>2
  <2> USE <1>2 DEF TypeOK, Goto, files
  <2>1. PICK p \in Procs : Payload(p) \/ GuardedFault(p) \/ Kill(p) \/ Relaunch(p)
    BY DEF Next
  <2>2. CASE ReadLeftBehind(p)
    <3>1. holder = NoProc
      BY <2>2, ConstantsAssumption, NamesApart
      DEF ReadLeftBehind, ConstantsAssumption, NamesApart, HolderOwnsFile
    <3>2. pc'[p] = "trim" /\ last'[p] = crumb /\ pc[p] # "trim"
      BY <2>2, <3>1 DEF ReadLeftBehind
    <3>3. PendingIn(crumb, k)
      BY <3>2, NamesApart DEF Pending, NamesApart
    <3> QED BY <3>2, <3>3 DEF Pending, PendingIn, RuntimeFaulted
  <2>3. CASE WriteTrimmed(p)
    <3>1. pc[p] = "trim" /\ crumb = Empty /\ holder = NoProc
      BY <2>3 DEF WriteTrimmed, RecordInHand, HolderOwnsFile
    <3>2. PendingIn(last[p], k)
      BY <3>1, NamesApart DEF Pending, PendingIn, RuntimeFaulted, Empty, Crumb, NamesApart
    <3>3. crumb' = last[p] /\ holder' = NoProc
      BY <2>3, <3>1 DEF WriteTrimmed
    <3> QED BY <3>2, <3>3 DEF Pending, PendingIn, RuntimeFaulted
  <2>4. CASE OpenBreadcrumb(p)
    <3>1. PendingIn(crumb, k)
      BY <2>4, NamesApart DEF OpenBreadcrumb, Pending, NamesApart
    <3>2. k # NoKey
      BY ConstantsAssumption DEF ConstantsAssumption
    <3>3. k \in unreadable
      BY <2>4, <3>1, <3>2 DEF OpenBreadcrumb, RecordInHand, PendingIn
    <3> QED BY <2>4, <3>3 DEF OpenBreadcrumb
  <2>5. CASE Kill(p)
    <3>1. CASE pc[p] = "trim"
      BY <2>5, <3>1 DEF Kill, Die
    <3>2. CASE pc[p] # "trim"
      BY <2>5, <3>2, NamesApart, PendingStays DEF Kill, Die
    <3> QED BY <3>1, <3>2
  <2>6. CASE RuntimeFault(p) /\ pc[p] # "trim"
    BY <2>6, NamesApart, PendingStays DEF RuntimeFault, Watch, Die
  <2>7. CASE NothingLeft(p) \/ RememberUnreadable(p) \/ BeginWalk(p) \/ Sweep(p)
               \/ FinishWalk(p) \/ Relaunch(p)
    <3>1. pc[p] # "trim"
      BY <2>7 DEF NothingLeft, RememberUnreadable, BeginWalk, Sweep, FinishWalk, Relaunch
    <3>2. /\ crumb' = crumb \/ holder = p
          /\ holder' = holder \/ holder = p
      BY <2>7 DEF NothingLeft, RememberUnreadable, BeginWalk, Sweep, FinishWalk, Relaunch
    <3> QED BY <3>1, <3>2, NamesApart, PendingStays
  <2>8. CASE PassOverSeen(p) \/ NoteSlot(p) \/ NotInflated(p) \/ NotePath(p)
               \/ ReadMembers(p) \/ GuardedFault(p)
    <3>1. pc[p] # "trim"
      BY <2>8 DEF PassOverSeen, NoteSlot, NotInflated, NotePath, ReadMembers, GuardedFault
    <3>2. holder' = holder
      BY <2>8 DEF PassOverSeen, NoteSlot, NotInflated, NotePath, ReadMembers, GuardedFault
    <3>3. crumb' = crumb \/ holder = p
      BY <2>8 DEF PassOverSeen, NoteSlot, NotInflated, NotePath, ReadMembers, GuardedFault,
                  Note, Watch
    <3> QED BY <3>1, <3>2, <3>3, NamesApart, PendingStays
  <2> QED
    BY <2>1, <2>2, <2>3, <2>4, <2>5, <2>6, <2>7, <2>8
    DEF Payload, SettleFault, NameFault, MemberFault, SweepFault
<1>3. TypeOK /\ HolderOwnsFile /\ RecordInHand /\ [Next]_vars => [Kept]_vars
  BY <1>2
<1>4. TypeOK /\ HolderOwnsFile /\ RecordInHand /\ [Next]_vars => RecordInHand'
  BY NextInHand
<1>5. Spec => [][Kept]_vars
  BY <1>1, <1>3, <1>4, TypeCorrect, HolderOwnsFileAlways, PTL DEF Spec
<1> QED BY <1>5 DEF RecordKept

(***************************************************************************)
(* What a finished dump lacks.  Skipping is sound as long as a key means    *)
(* the same thing in every process: one order of the class cache, and no   *)
(* fault that is blamed on the type noted before it.  Then what is behind a *)
(* walk is in the dump, or faults, or was named by hand.                   *)
(***************************************************************************)

OneCacheOrder == \A c, d \in CacheOrders : c = d

Accounted(p, t) == t \in dump[p] \cup Faulting \cup NamedByHand(p)

NothingPassedLost(p) ==
  /\ \A i \in DOMAIN Declared : i < pos[p] => Accounted(p, Declared[i])
  /\ \A j \in DOMAIN cache[p] : j + Len(Declared) < pos[p] => Accounted(p, cache[p][j])

NothingLostSoFar ==
  \A p \in Procs :
    /\ pc[p] \in {"slot", "name", "members", "sweep"} => NothingPassedLost(p)
    /\ pc[p] = "done" => \A t \in Asked(p) : Accounted(p, t)

LEMMA OnlyFaultKeysListed ==
  ASSUME TRUE \notin SweepFaults, ListInv
  PROVE  unreadable \subseteq FaultKeys
BY DEF ListInv, OnlyFaultingListed, Blamed

\* Skipped by its slot or by its path: by hand, or because the runtime faults on it.
LEMMA SkippedIsAccounted ==
  ASSUME TypeOK, OneCacheOrder, TRUE \notin SweepFaults, ListInv,
         NEW p \in Procs, WalkInv(p), pos[p] <= Size(p), pc[p] \in {"slot", "name"},
         SlotAt(p) \in skip[p] \/ PathKey(TypeAt(p)) \in skip[p]
  PROVE  Accounted(p, TypeAt(p))
<1> DEFINE t == TypeAt(p)
<1>1. skip[p] \subseteq ByHand \cup FaultKeys
  BY OnlyFaultKeysListed DEF WalkInv
<1>2. t \in Asked(p)
  BY WalkIsAtAType DEF Asked, DeclaredTypes
<1>3. CASE PathKey(t) \in ByHand
  BY <1>2, <1>3 DEF Accounted, NamedByHand
<1>4. CASE PathKey(t) \in FaultKeys
  BY <1>4 DEF FaultKeys, PathKey, SlotKey, CacheKey, Accounted, Faulting
<1>5. CASE SlotAt(p) \in ByHand
  <2>1. t \in NamedByHand(p)
    BY <1>2, <1>5, WalkIsAtAType DEF NamedByHand
  <2> QED BY <2>1 DEF Accounted
<1>6. CASE SlotAt(p) \in FaultKeys /\ ~InSweep(p)
  <2>1. SlotAt(p) = SlotKey(pos[p]) /\ t = Declared[pos[p]]
    BY <1>6, WalkIsAtAType
  <2>2. t \in NameFaults
    BY <1>6, <2>1 DEF FaultKeys, PathKey, SlotKey, CacheKey
  <2> QED BY <2>2 DEF Accounted, Faulting
<1>7. CASE SlotAt(p) \in FaultKeys /\ InSweep(p)
  <2> DEFINE j == pos[p] - Len(Declared)
  <2>1. SlotAt(p) = CacheKey(j) /\ t = cache[p][j] /\ cache[p] \in CacheOrders
    BY <1>7, WalkIsAtAType
  <2> HIDE DEF j
  <2>2. PICK c \in CacheOrders :
               \E i \in DOMAIN c : c[i] \in NameFaults /\ CacheKey(j) = CacheKey(i)
    BY <1>7, <2>1 DEF FaultKeys, PathKey, SlotKey, CacheKey
  <2>3. c = cache[p]
    BY <2>1 DEF OneCacheOrder
  <2>4. t \in NameFaults
    BY <2>1, <2>2, <2>3 DEF CacheKey
  <2> QED BY <2>4 DEF Accounted, Faulting
<1> QED BY <1>1, <1>3, <1>4, <1>5, <1>6, <1>7

LEMMA StaysAccounted ==
  ASSUME NEW p \in Procs, NEW t, Accounted(p, t),
         dump[p] \subseteq dump'[p], cache'[p] = cache[p]
  PROVE  Accounted(p, t)'
BY DEF Accounted, NamedByHand, Asked

LEMMA AdvanceLosesNothing ==
  ASSUME TypeOK, NEW p \in Procs, pos[p] <= Size(p), NothingPassedLost(p), Advance(p),
         NEW t, t = TypeAt(p), Accounted(p, t)',
         dump[p] \subseteq dump'[p], cache' = cache
  PROVE  NothingPassedLost(p)'
<1>1. pos'[p] = pos[p] + 1 /\ pos[p] \in Nat /\ Len(Declared) \in Nat
  BY CacheIsSequence DEF Advance, TypeOK
<1>2. ASSUME NEW i \in DOMAIN Declared, i < pos'[p] PROVE Accounted(p, Declared[i])'
  <2>1. i \in 1..Len(Declared)
    BY CacheIsSequence
  <2>2. CASE i < pos[p]
    BY <2>2, StaysAccounted DEF NothingPassedLost
  <2>3. CASE i = pos[p]
    <3>1. t = Declared[i]
      BY <1>1, <2>1, <2>3 DEF TypeAt
    <3> QED BY <3>1
  <2> QED BY <1>1, <1>2, <2>1, <2>2, <2>3
<1>3. ASSUME NEW j \in DOMAIN cache[p], j + Len(Declared) < pos'[p]
      PROVE  Accounted(p, cache[p][j])'
  <2>1. j \in Nat /\ j > 0
    BY CacheIsSequence
  <2>2. CASE j + Len(Declared) < pos[p]
    <3>1. Accounted(p, cache[p][j])
      BY <2>2 DEF NothingPassedLost
    <3> DEFINE u == cache[p][j]
    <3>2. Accounted(p, u)
      BY <3>1
    <3> QED BY <3>1 DEF Accounted, NamedByHand, Asked
  <2>3. CASE j + Len(Declared) = pos[p]
    <3>1. j = pos[p] - Len(Declared) /\ pos[p] > Len(Declared)
      BY <1>1, <2>1, <2>3
    <3>2. t = cache[p][j]
      BY <1>1, <3>1 DEF TypeAt
    <3>3. t = cache'[p][j]
      BY <3>2
    <3> QED BY <3>3 DEF Accounted
  <2> QED BY <1>1, <1>3, <2>1, <2>2, <2>3
<1>4. \A j \in DOMAIN cache'[p] :
        j + Len(Declared) < pos'[p] => Accounted(p, cache[p][j])'
  BY <1>3
<1> QED BY <1>2, <1>4 DEF NothingPassedLost

\* A step of another process leaves this one's walk and dump alone.
LEMMA OthersLoseNothing ==
  ASSUME NEW q \in Procs, NothingLostSoFar,
         pc'[q] = pc[q], pos'[q] = pos[q], cache'[q] = cache[q], dump'[q] = dump[q]
  PROVE  /\ (pc[q] \in {"slot", "name", "members", "sweep"} => NothingPassedLost(q))'
         /\ (pc[q] = "done" => \A t \in Asked(q) : Accounted(q, t))'
BY DEF NothingLostSoFar, NothingPassedLost, Accounted, NamedByHand, Asked

LEMMA NextLosesNothing ==
  ASSUME OneCacheOrder, TRUE \notin SweepFaults
  PROVE  TypeOK /\ ListInv /\ WalksInv /\ NothingLostSoFar /\ [Next]_vars
           => NothingLostSoFar'
<1> SUFFICES ASSUME TypeOK, ListInv, WalksInv, NothingLostSoFar, [Next]_vars,
                    NEW q \in Procs
             PROVE  /\ (pc[q] \in {"slot", "name", "members", "sweep"}
                          => NothingPassedLost(q))'
                    /\ (pc[q] = "done" => \A t \in Asked(q) : Accounted(q, t))'
  BY DEF NothingLostSoFar
<1> DEFINE KeptHere == /\ (pc[q] \in {"slot", "name", "members", "sweep"}
                             => NothingPassedLost(q))'
                       /\ (pc[q] = "done" => \A t \in Asked(q) : Accounted(q, t))'
<1> USE DEF TypeOK, Goto, files, walk
<1>1. ASSUME NEW p \in Procs, q # p, Payload(p) \/ GuardedFault(p) \/ Kill(p) \/ Relaunch(p)
      PROVE  KeptHere
  <2>1. /\ pc'[q] = pc[q] /\ pos'[q] = pos[q]
        /\ cache'[q] = cache[q] /\ dump'[q] = dump[q]
    <3>1. CASE NothingLeft(p) \/ ReadLeftBehind(p) \/ WriteTrimmed(p)
                 \/ RememberUnreadable(p) \/ OpenBreadcrumb(p) \/ FinishWalk(p)
                 \/ Relaunch(p) \/ GuardedFault(p)
      BY <1>1, <3>1 DEF NothingLeft, ReadLeftBehind, WriteTrimmed, RememberUnreadable,
                        OpenBreadcrumb, FinishWalk, Relaunch, GuardedFault
    <3>2. CASE Die(p)
      BY <1>1, <3>2 DEF Die
    <3>3. CASE BeginWalk(p) \/ Sweep(p)
      BY <1>1, <3>3 DEF BeginWalk, Sweep
    <3>4. CASE PassOverSeen(p) \/ NoteSlot(p) \/ NotInflated(p) \/ NotePath(p)
                 \/ ReadMembers(p)
      BY <1>1, <3>4 DEF PassOverSeen, NoteSlot, NotInflated, NotePath, ReadMembers, Advance
    <3> QED BY <1>1, <3>1, <3>2, <3>3, <3>4
            DEF Payload, SettleFault, NameFault, MemberFault, SweepFault, RuntimeFault, Kill
  <2> QED BY <2>1, OthersLoseNothing
<1>2. ASSUME pc'[q] \notin {"slot", "name", "members", "sweep", "done"} PROVE KeptHere
  BY <1>2
<1>3. CASE NothingLeft(q) \/ ReadLeftBehind(q) \/ WriteTrimmed(q) \/ RememberUnreadable(q)
             \/ OpenBreadcrumb(q) \/ Relaunch(q) \/ Die(q)
  <2>1. pc'[q] \in {"open", "trim", "remember", "settle", "idle", "dead"}
    BY <1>3 DEF NothingLeft, ReadLeftBehind, WriteTrimmed, RememberUnreadable,
                OpenBreadcrumb, Relaunch, Die
  <2> QED BY <1>2, <2>1
<1>4. CASE BeginWalk(q)
  <2>1. pos'[q] = 1 /\ cache'[q] = <<>> /\ pc'[q] \in {"sweep", "slot"}
    BY <1>4 DEF BeginWalk
  <2>2. \A i \in DOMAIN Declared : ~(i < 1)
    BY CacheIsSequence
  <2>3. DOMAIN <<>> = {}
    OBVIOUS
  <2> QED BY <2>1, <2>2, <2>3 DEF NothingPassedLost
<1>5. CASE GuardedFault(q)
  <2>1. pc'[q] = pc[q] /\ pos'[q] = pos[q] /\ cache'[q] = cache[q] /\ dump'[q] = dump[q]
    BY <1>5 DEF GuardedFault
  <2> QED BY <2>1, OthersLoseNothing
<1>6. ASSUME Walking(q), Advance(q), Accounted(q, TypeAt(q)), UNCHANGED <<dump, cache>>
      PROVE  KeptHere
  <2>1. NothingPassedLost(q) /\ pos[q] <= Size(q) /\ pc'[q] # "done"
    BY <1>6 DEF NothingLostSoFar, Walking, Advance
  <2>2. PICK u : u = TypeAt(q)
    OBVIOUS
  <2>3. Accounted(q, u)
    BY <1>6, <2>2
  <2>4. Accounted(q, u)'
    BY <1>6, <2>3, StaysAccounted
  <2>5. NothingPassedLost(q)'
    BY <1>6, <2>1, <2>2, <2>4, AdvanceLosesNothing
  <2> QED BY <2>1, <2>5
<1>7. ASSUME NEW i \in DOMAIN Declared, pc[q] \in {"slot", "name"}, InSweep(q)
      PROVE  Accounted(q, Declared[i])
  <2>1. i < pos[q]
    BY <1>7, CacheIsSequence DEF InSweep
  <2> QED BY <1>7, <2>1 DEF NothingLostSoFar, NothingPassedLost
<1>8. CASE PassOverSeen(q)
  <2>1. Accounted(q, TypeAt(q))
    BY <1>7, <1>8 DEF PassOverSeen, Seen
  <2> QED BY <1>6, <1>8, <2>1 DEF PassOverSeen
<1>9. CASE NotInflated(q)
  <2>1. Accounted(q, TypeAt(q))
    BY <1>7, <1>9 DEF NotInflated, DeclaredTypes
  <2> QED BY <1>6, <1>9, <2>1 DEF NotInflated
<1>10. ASSUME pc'[q] \in {"name", "members"}, pc[q] \in {"slot", "name"},
              pos'[q] = pos[q], cache'[q] = cache[q], dump'[q] = dump[q]
       PROVE  KeptHere
  <2>1. NothingPassedLost(q)
    BY <1>10 DEF NothingLostSoFar
  <2> QED BY <1>10, <2>1 DEF NothingPassedLost, Accounted, NamedByHand, Asked
<1>11. CASE NoteSlot(q)
  <2>1. CASE SlotAt(q) \in skip[q]
    <3>1. Accounted(q, TypeAt(q))
      BY <1>11, <2>1, SkippedIsAccounted DEF NoteSlot, Walking, WalksInv
    <3> QED BY <1>6, <1>11, <2>1, <3>1 DEF NoteSlot
  <2>2. CASE SlotAt(q) \notin skip[q]
    BY <1>10, <1>11, <2>2 DEF NoteSlot
  <2> QED BY <2>1, <2>2
<1>12. CASE NotePath(q)
  <2>1. CASE PathKey(TypeAt(q)) \in skip[q]
    <3>1. Accounted(q, TypeAt(q))
      BY <1>12, <2>1, SkippedIsAccounted DEF NotePath, Walking, WalksInv
    <3> QED BY <1>6, <1>12, <2>1, <3>1 DEF NotePath
  <2>2. CASE PathKey(TypeAt(q)) \notin skip[q]
    BY <1>10, <1>12, <2>2 DEF NotePath
  <2> QED BY <2>1, <2>2
<1>13. CASE ReadMembers(q)
  <2>1. PICK u : u = TypeAt(q)
    OBVIOUS
  <2>2. /\ dump'[q] = dump[q] \cup {u} /\ cache' = cache /\ Advance(q)
        /\ pos[q] <= Size(q) /\ pc'[q] # "done" /\ pc[q] = "members"
    BY <1>13, <2>1 DEF ReadMembers, Walking, Advance
  <2>3. Accounted(q, u)'
    BY <2>2 DEF Accounted
  <2>4. NothingPassedLost(q)
    BY <2>2 DEF NothingLostSoFar
  <2>5. NothingPassedLost(q)'
    BY <2>1, <2>2, <2>3, <2>4, AdvanceLosesNothing
  <2> QED BY <2>2, <2>5
<1>14. CASE Sweep(q)
  <2>1. /\ pc[q] = "sweep" /\ pc'[q] = "slot" /\ pos'[q] = pos[q] /\ dump' = dump
        /\ cache'[q] \in CacheOrders
    BY <1>14 DEF Sweep
  <2>2. pos[q] = Len(Declared) + 1 /\ NothingPassedLost(q)
    BY <2>1 DEF WalksInv, WalkInv, NothingLostSoFar
  <2>3. Len(Declared) \in Nat /\ cache'[q] \in Seq(CachedTypes)
    BY <2>1, CacheIsSequence, ConstantsAssumption DEF ConstantsAssumption
  <2>4. cache[q] = cache'[q] \/ cache[q] = <<>>
    BY <2>1 DEF OneCacheOrder
  <2>5. ASSUME NEW i \in DOMAIN Declared, i < pos[q] PROVE Accounted(q, Declared[i])'
    <3>1. Accounted(q, Declared[i])
      BY <2>2, <2>5 DEF NothingPassedLost
    <3>2. CASE cache[q] = cache'[q]
      BY <2>1, <3>1, <3>2 DEF Accounted, NamedByHand, Asked
    <3>3. CASE cache[q] = <<>>
      <4>1. DOMAIN <<>> = {}
        OBVIOUS
      <4> QED BY <2>1, <3>1, <3>3, <4>1 DEF Accounted, NamedByHand, Asked
    <3> QED BY <2>4, <3>2, <3>3
  <2>6. ASSUME NEW j \in DOMAIN cache'[q] PROVE ~(j + Len(Declared) < pos'[q])
    <3>1. j \in Nat /\ j > 0
      BY <2>3
    <3> QED BY <2>1, <2>2, <2>3, <3>1
  <2>7. NothingPassedLost(q)'
    BY <2>1, <2>5, <2>6 DEF NothingPassedLost
  <2> QED BY <2>1, <2>7
<1>15. CASE FinishWalk(q)
  <2>1. /\ pc[q] = "slot" /\ pc'[q] = "done" /\ pos[q] > Size(q)
        /\ dump' = dump /\ cache' = cache
    BY <1>15 DEF FinishWalk
  <2>2. NothingPassedLost(q)
    BY <2>1 DEF NothingLostSoFar
  <2>3. pos[q] \in Nat /\ Len(Declared) \in Nat /\ Len(cache[q]) \in Nat
    BY CacheIsSequence
  <2>4. ASSUME NEW i \in DOMAIN Declared PROVE Accounted(q, Declared[i])
    <3>1. i \in 1..Len(Declared)
      BY CacheIsSequence
    <3> QED BY <2>1, <2>2, <2>3, <3>1 DEF NothingPassedLost, Size
  <2>5. ASSUME NEW j \in DOMAIN cache[q] PROVE Accounted(q, cache[q][j])
    <3>1. j \in 1..Len(cache[q])
      BY CacheIsSequence
    <3> QED BY <2>1, <2>2, <2>3, <3>1 DEF NothingPassedLost, Size
  <2>6. \A t \in Asked(q) : Accounted(q, t)
    BY <2>4, <2>5 DEF Asked, DeclaredTypes
  <2>7. (\A t \in Asked(q) : Accounted(q, t))'
    BY <2>1, <2>6 DEF Accounted, NamedByHand, Asked
  <2> QED BY <2>1, <2>7
<1>16. CASE UNCHANGED vars
  BY <1>16, OthersLoseNothing DEF vars
<1> QED
  BY <1>1, <1>3, <1>4, <1>5, <1>8, <1>9, <1>11, <1>12, <1>13, <1>14, <1>15, <1>16
  DEF Next, Payload, SettleFault, NameFault, MemberFault, SweepFault, RuntimeFault, Kill

\* A finished dump has every type the runtime can be asked about, but for those named by
\* hand: what auto-resume skips is what faults (WalkOptions::skip), on every game whose
\* class cache keeps its order and can be enumerated, however many processes die on the way.
THEOREM NothingReadableLostAlways ==
  ASSUME OneCacheOrder, TRUE \notin SweepFaults
  PROVE  Spec => []NothingReadableLost
<1>1. Init => ListInv /\ WalksInv /\ NothingLostSoFar
  <2>1. Init => ListInv
    BY DEF Init, ListInv, KeyIsCurrent, OnlyFaultingListed, TellsTrue, RuntimeFaulted, Absent,
           Crumb
  <2>2. Init => WalksInv /\ NothingLostSoFar
    BY DEF Init, WalksInv, WalkInv, NothingLostSoFar
  <2> QED BY <2>1, <2>2
<1>2. NothingLostSoFar => NothingReadableLost
  BY DEF NothingLostSoFar, NothingReadableLost, Accounted
<1>3. TypeOK /\ ListInv /\ WalksInv /\ NothingLostSoFar /\ [Next]_vars => NothingLostSoFar'
  BY NextLosesNothing
<1> QED
  BY <1>1, <1>2, <1>3, NextListed, NextWalks, TypeCorrect, HolderOwnsFileAlways, PTL DEF Spec
=============================================================================
