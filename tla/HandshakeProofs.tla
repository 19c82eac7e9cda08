--------------------------- MODULE HandshakeProofs --------------------------
(***************************************************************************)
(* Proofs about InjectHandshake, for every set of calls and of games.      *)
(*                                                                         *)
(* Type correctness needs nothing of the calls but the constants they are  *)
(* stated with, and what an "ok" is of no more than that they take turns.  *)
(* That options reach the game they were written for is true of calls that *)
(* wait, one at a time, and only as long as no game is injected into       *)
(* twice; OneCallEach carries it.                                          *)
(***************************************************************************)
EXTENDS InjectHandshake, TLAPS

(***************************************************************************)
(* Type correctness.  A count never falls below zero because a payload is  *)
(* there exactly as long as its DLL is counted, and only a call that waits *)
(* is written a report.                                                    *)
(***************************************************************************)
Counted ==
  \A g \in Games :
    /\ refs[g] = 0 <=> payload[g] = "none"
    /\ payload[g] = "reporting" => took[g] \in Waits
    /\ payload[g] \in {"telling", "reporting", "finishing"} => outcome[g] # "none"

LEMMA FileTypes ==
  /\ \A c \in Calls : StatusOf(c) \in Games
  /\ \A c \in Calls : c \notin {None, Absent, Blank}
  /\ Waits \subseteq Calls
BY ConstantsAssumption DEF ConstantsAssumption, StatusOf

LEMMA ReportIsReport ==
  ASSUME NEW g \in Games, NEW c \in Calls, NEW r \in Outcomes \ {"none"}
  PROVE  Report(g, c, r) \in Reports
BY DEF Reports

LEMMA InitTyped == Init => TypeOK /\ Counted
BY DEF Init, TypeOK, Counted, CallStates, PayloadStates, Outcomes

LEMMA RemoveHandoffTyped ==
  ASSUME TypeOK, RemoveHandoff
  PROVE  handoff' \in {Absent, Blank} \cup Calls
BY DEF TypeOK, RemoveHandoff

LEMMA RemoveStatusTyped ==
  ASSUME TypeOK, NEW g \in Games, RemoveStatus(g)
  PROVE  status' \in [Games -> {Absent, Blank} \cup Reports]
<1>1. CASE StatusOpen(g)
  BY <1>1 DEF TypeOK, RemoveStatus
<1>2. CASE ~StatusOpen(g)
  BY <1>2 DEF TypeOK, RemoveStatus
<1> QED BY <1>1, <1>2

LEMMA LoadIntoTyped ==
  ASSUME TypeOK, Counted, NEW g \in Games, LoadInto(g)
  PROVE  /\ refs' \in [Games -> Nat] /\ payload' \in [Games -> PayloadStates]
         /\ alive' \subseteq Games /\ took' \in [Games -> Calls \cup {None}]
         /\ outcome' \in [Games -> Outcomes]
         /\ Counted'
<1>1. refs' \in [Games -> Nat] /\ refs' = [refs EXCEPT ![g] = @ + 1]
  BY DEF LoadInto, TypeOK
<1>2. took' = took /\ outcome' = outcome /\ alive' = alive
  BY DEF LoadInto
<1>3. CASE refs[g] = 0
  <2>1. payload' = [payload EXCEPT ![g] = "attached"]
    BY <1>3 DEF LoadInto, Step
  <2> QED BY <1>1, <1>2, <2>1 DEF TypeOK, PayloadStates, Counted
<1>4. CASE refs[g] # 0
  <2>1. payload' = payload
    BY <1>4 DEF LoadInto
  <2> QED BY <1>1, <1>2, <1>4, <2>1 DEF TypeOK, Counted
<1> QED BY <1>3, <1>4

LEMMA NextTyped == TypeOK /\ Counted /\ [Next]_vars => TypeOK' /\ Counted'
<1> SUFFICES ASSUME TypeOK, Counted, [Next]_vars PROVE TypeOK' /\ Counted'
  OBVIOUS
<1> USE DEF cli, game, inside, Goto, Step
<1>1. ASSUME NEW c \in Calls, Begin(c) PROVE TypeOK' /\ Counted'
  <2>1. status' \in [Games -> {Absent, Blank} \cup Reports]
    BY <1>1, FileTypes, RemoveStatusTyped DEF Begin
  <2> QED BY <1>1, <2>1 DEF Begin, TypeOK, Counted, CallStates
<1>2. ASSUME NEW c \in Calls, NothingToSay(c) PROVE TypeOK' /\ Counted'
  BY <1>2, RemoveHandoffTyped DEF NothingToSay, TypeOK, Counted, CallStates
<1>3. ASSUME NEW c \in Calls, OpenHandoff(c) \/ CannotOpenHandoff(c) PROVE TypeOK' /\ Counted'
  BY <1>3 DEF OpenHandoff, CannotOpenHandoff, TypeOK, Counted, CallStates, Returned
<1>4. ASSUME NEW c \in Calls, WriteHandoff(c) PROVE TypeOK' /\ Counted'
  BY <1>4 DEF WriteHandoff, TypeOK, Counted, CallStates
<1>5. ASSUME NEW c \in Calls, Load(c) PROVE TypeOK' /\ Counted'
  <2>1. Target[c] \in Games /\ LoadInto(Target[c])
    BY <1>5, FileTypes DEF Load, StatusOf
  <2>2. /\ refs' \in [Games -> Nat] /\ payload' \in [Games -> PayloadStates]
        /\ alive' \subseteq Games /\ took' \in [Games -> Calls \cup {None}]
        /\ outcome' \in [Games -> Outcomes]
        /\ Counted'
    BY <2>1, LoadIntoTyped
  <2>3. call' \in [Calls -> CallStates]
    BY <1>5 DEF Load, TypeOK, CallStates, Returned
  <2> QED BY <1>5, <2>2, <2>3 DEF Load, TypeOK
<1>6. ASSUME NEW c \in Calls, LoadFails(c) PROVE TypeOK' /\ Counted'
  BY <1>6, RemoveHandoffTyped DEF LoadFails, TypeOK, Counted, CallStates, Returned
<1>7. ASSUME NEW c \in Calls, LoadStalls(c) PROVE TypeOK' /\ Counted'
  BY <1>7, RemoveHandoffTyped DEF LoadStalls, TypeOK, Counted, CallStates, Returned
<1>8. ASSUME NEW c \in Calls, LateLoad(c) PROVE TypeOK' /\ Counted'
  <2>1. Target[c] \in Games /\ LoadInto(Target[c])
    BY <1>8, FileTypes DEF LateLoad, StatusOf
  <2>2. /\ refs' \in [Games -> Nat] /\ payload' \in [Games -> PayloadStates]
        /\ alive' \subseteq Games /\ took' \in [Games -> Calls \cup {None}]
        /\ outcome' \in [Games -> Outcomes]
        /\ Counted'
    BY <2>1, LoadIntoTyped
  <2> QED BY <1>8, <2>2 DEF LateLoad, TypeOK
<1>9. ASSUME NEW c \in Calls, PollStatus(c) \/ TakeAnswer(c) PROVE TypeOK' /\ Counted'
  <2>1. CASE PollStatus(c)
    <3>1. status[StatusOf(c)] \in {Absent, Blank} \cup Reports
      BY FileTypes DEF TypeOK
    <3> QED BY <2>1, <3>1 DEF PollStatus, TypeOK, Counted, CallStates
  <2>2. CASE TakeAnswer(c)
    <3>1. status' \in [Games -> {Absent, Blank} \cup Reports]
      BY <2>2, FileTypes, RemoveStatusTyped DEF TakeAnswer
    <3>2. call' \in [Calls -> CallStates]
      BY <2>2 DEF TakeAnswer, TypeOK, CallStates, Returned
    <3> QED BY <2>2, <3>1, <3>2 DEF TakeAnswer, TypeOK, Counted
  <2> QED BY <1>9, <2>1, <2>2
<1>10. ASSUME NEW c \in Calls, PollAlive(c) PROVE TypeOK' /\ Counted'
  BY <1>10 DEF PollAlive, TypeOK, Counted, CallStates, Returned
<1>11. ASSUME NEW c \in Calls, TimeOut(c) PROVE TypeOK' /\ Counted'
  BY <1>11 DEF TimeOut, TypeOK, Counted, CallStates, Returned
<1>12. ASSUME NEW g \in Games, ReadHandoff(g) PROVE TypeOK' /\ Counted'
  <2>1. took' \in [Games -> Calls \cup {None}]
    BY <1>12 DEF ReadHandoff, TypeOK
  <2>2. payload' \in [Games -> PayloadStates] /\ payload'[g] \in {"walking", "taking"}
    BY <1>12 DEF ReadHandoff, TypeOK, PayloadStates
  <2>3. Counted'
    BY <1>12, <2>2 DEF ReadHandoff, TypeOK, Counted
  <2> QED BY <1>12, <2>1, <2>2, <2>3 DEF ReadHandoff, TypeOK
<1>13. ASSUME NEW g \in Games, RemoveTaken(g) PROVE TypeOK' /\ Counted'
  BY <1>13, RemoveHandoffTyped DEF RemoveTaken, TypeOK, Counted, PayloadStates
<1>14. ASSUME NEW g \in Games, Walk(g) PROVE TypeOK' /\ Counted'
  BY <1>14 DEF Walk, TypeOK, Counted, PayloadStates
<1>15. ASSUME NEW g \in Games, SayNothing(g) PROVE TypeOK' /\ Counted'
  BY <1>15 DEF SayNothing, TypeOK, Counted, PayloadStates
<1>16. ASSUME NEW g \in Games, OpenStatus(g) PROVE TypeOK' /\ Counted'
  BY <1>16 DEF OpenStatus, TypeOK, Counted, PayloadStates, Listens
<1>17. ASSUME NEW g \in Games, WriteStatus(g) PROVE TypeOK' /\ Counted'
  <2>1. took[g] \in Calls /\ outcome[g] \in Outcomes \ {"none"}
    BY <1>17, FileTypes DEF WriteStatus, Counted, TypeOK
  <2>2. Report(g, took[g], outcome[g]) \in Reports
    BY <2>1, ReportIsReport
  <2>3. status' \in [Games -> {Absent, Blank} \cup Reports]
    BY <1>17, <2>2 DEF WriteStatus, TypeOK
  <2> QED BY <1>17, <2>3 DEF WriteStatus, TypeOK, Counted, PayloadStates
<1>18. ASSUME NEW g \in Games, Unload(g) PROVE TypeOK' /\ Counted'
  <2>1. refs[g] \in Nat \ {0}
    BY <1>18 DEF Unload, TypeOK, Counted
  <2>2. refs' \in [Games -> Nat] /\ payload' \in [Games -> PayloadStates]
    BY <1>18, <2>1 DEF Unload, TypeOK, PayloadStates
  <2>3. Counted'
    BY <1>18, <2>1 DEF Unload, TypeOK, Counted
  <2> QED BY <1>18, <2>2, <2>3 DEF Unload, TypeOK
<1>19. ASSUME NEW g \in Games, GameDies(g) PROVE TypeOK' /\ Counted'
  BY <1>19 DEF GameDies, TypeOK, Counted, PayloadStates
<1>20. ASSUME UNCHANGED vars PROVE TypeOK' /\ Counted'
  BY <1>20 DEF vars, TypeOK, Counted
<1> QED
  BY <1>1, <1>2, <1>3, <1>4, <1>5, <1>6, <1>7, <1>8, <1>9, <1>10, <1>11, <1>12, <1>13,
     <1>14, <1>15, <1>16, <1>17, <1>18, <1>19, <1>20 DEF Next, CallStep, PayloadStep

\* Every variable has its type: no count of loads falls below zero, and what is read
\* as a report is one.
THEOREM HandshakeTyped == Spec => []TypeOK
<1>1. Init => TypeOK /\ Counted
  BY InitTyped
<1>2. TypeOK /\ Counted /\ [Next]_vars => TypeOK' /\ Counted'
  BY NextTyped
<1> QED BY <1>1, <1>2, PTL DEF Spec

(***************************************************************************)
(* One call for each game.                                                 *)
(***************************************************************************)

\* No game is injected into twice.
EachGameOnce ==
  \A c, d \in Calls :
    call[c] # "idle" /\ call[d] # "idle" /\ Target[c] = Target[d] => c = d

Active(c) == call[c] \notin Returned \cup {"idle"}
Polling(c) == call[c] \in {"waiting", "checking"}
\* No call has come as far as loading the DLL into it.
Untouched(g) ==
  \A c \in Calls : Target[c] = g => call[c] \in {"idle", "prepare", "note", "load"}

\* One call is under way, and the handoff is its own from its note to the load.
CallsInTurn ==
  /\ stalled = {}
  /\ \A c, d \in Calls : Active(c) /\ Active(d) => c = d
  /\ writers = {c \in Calls : call[c] = "note"}
  /\ \A c \in Calls : call[c] = "load" => handoff = c

\* A payload begins with the handoff of the call that loaded it, which waits until
\* there is a status to read; and a status is of the payload that wrote it.
PayloadInTurn(g) ==
  /\ payload[g] # "none" => g \in alive
  /\ Untouched(g) => payload[g] = "none" /\ status[g] = Absent
  /\ payload[g] = "attached" =>
       \E c \in Calls : Target[c] = g /\ Polling(c) /\ handoff = c
  /\ payload[g] = "taking" => Polling(took[g])
  /\ payload[g] \in {"walking", "telling"} => Polling(took[g]) \/ call[took[g]] = "timeout"
  /\ payload[g] \in {"attached", "taking", "walking", "telling"} => status[g] = Absent
  /\ Running(g) => took[g] \in Calls /\ Target[took[g]] = g

PayloadsInTurn == \A g \in Games : PayloadInTurn(g)

OneCallEach == CallsInTurn /\ PayloadsInTurn

\* A game is walked once, and every report is of its own walk, on the options of the call
\* that reads it.
ReportsInTurn ==
  /\ \A g \in Games :
       /\ Untouched(g) => outcome[g] = "none"
       /\ outcome[g] # "none" =>
            /\ payload[g] \notin {"attached", "taking", "walking"}
            /\ took[g] \in Calls /\ Target[took[g]] = g /\ call[took[g]] # "idle"
       /\ status[g] \in {Absent, Blank, Report(g, took[g], outcome[g])}
       /\ status[g] # Absent => outcome[g] # "none"
  /\ \A c \in Calls :
       /\ call[c] = "ok" => answer[c] \in Reports
       /\ call[c] \in {"heard", "ok"} /\ answer[c] \in Reports =>
            LET g == Target[c] IN
            outcome[g] # "none" /\ took[g] = c /\ answer[c] = Report(g, c, outcome[g])

\* Calls wait, one at a time, and none is outlived by its loader.
Alone == OneAtATime /\ ~MayStall /\ Waits = Calls

LEMMA NothingStalls == Alone => Quiet = {} /\ \A c \in Calls : ~LoadStalls(c) /\ ~NothingToSay(c)
BY ConstantsAssumption DEF ConstantsAssumption, Alone, LoadStalls, NothingToSay

LEMMA InitInTurn == Init => OneCallEach /\ ReportsInTurn
BY DEF Init, ReportsInTurn, OneCallEach, CallsInTurn, PayloadsInTurn, PayloadInTurn, Active, Running, Returned, Untouched

LEMMA TheActiveOne ==
  ASSUME CallsInTurn, NEW c \in Calls, Active(c)
  PROVE  \A d \in Calls \ {c} : ~Active(d)
BY DEF CallsInTurn

\* What a call does before its load leaves every payload as it is.
LEMMA BeforeLoad ==
  ASSUME Alone, TypeOK, Counted, OneCallEach, NEW c \in Calls,
         Begin(c) \/ OpenHandoff(c) \/ WriteHandoff(c)
  PROVE  OneCallEach'
<1> USE DEF cli, game, inside, Goto, Step
<1>1. /\ call[c] \in {"idle", "prepare", "note"} /\ call'[c] \in {"prepare", "note", "load"}
      /\ \A d \in Calls \ {c} : call'[d] = call[d] /\ ~Active(d)
      /\ UNCHANGED <<answer, stalled, alive, refs, payload, took, outcome>>
  <2>1. CASE Begin(c)
    BY <2>1 DEF Begin, Alone, Active, TypeOK
  <2>2. CASE OpenHandoff(c) \/ WriteHandoff(c)
    <3>1. Active(c)
      BY <2>2 DEF OpenHandoff, WriteHandoff, Active, Returned
    <3> QED BY <2>2, <3>1, TheActiveOne DEF OpenHandoff, WriteHandoff, OneCallEach, TypeOK
  <2> QED BY <2>1, <2>2
<1>2. \A g \in Games : status'[g] \in {status[g], Absent}
  BY FileTypes DEF Begin, OpenHandoff, WriteHandoff, RemoveStatus, TypeOK
<1>3. CallsInTurn'
  <2>1. CASE Begin(c)
    BY <1>1, <2>1 DEF Begin, OneCallEach, CallsInTurn, Active, Returned, TypeOK
  <2>2. CASE OpenHandoff(c)
    BY <1>1, <2>2 DEF OpenHandoff, OneCallEach, CallsInTurn, Active, Returned, TypeOK
  <2>3. CASE WriteHandoff(c)
    BY <1>1, <2>3 DEF WriteHandoff, OneCallEach, CallsInTurn, Active, Returned, TypeOK
  <2> QED BY <2>1, <2>2, <2>3
<1>4. \A d \in Calls : /\ Polling(d) <=> Polling(d)'
                       /\ call[d] = "timeout" <=> call'[d] = "timeout"
  BY <1>1 DEF Polling
<1>5. \A g \in Games : payload[g] # "attached"
  BY <1>1 DEF OneCallEach, PayloadsInTurn, PayloadInTurn, Polling, Active, Returned
<1>6. \A g \in Games : Untouched(g) <=> Untouched(g)'
  BY <1>1 DEF Untouched
<1>7. \A g \in Games : Running(g) <=> Running(g)'
  BY <1>1 DEF Running
<1>8. PayloadsInTurn'
  <2> SUFFICES ASSUME NEW g \in Games PROVE PayloadInTurn(g)'
    BY DEF PayloadsInTurn
  <2>1. Running(g) => took[g] \in Calls /\ Target[took[g]] = g
    BY DEF OneCallEach, PayloadsInTurn, PayloadInTurn
  <2>2. payload[g] \in {"taking", "walking", "telling"} => Running(g)
    BY DEF Running
  <2>3. took' = took /\ payload' = payload /\ alive' = alive
    BY <1>1
  <2> QED BY <1>2, <1>4, <1>5, <1>6, <1>7, <2>1, <2>2, <2>3 DEF OneCallEach, PayloadsInTurn, PayloadInTurn
<1> QED BY <1>3, <1>8 DEF OneCallEach

\* The load of the one call of a game begins its payload, with the call's own handoff.
LEMMA TheLoad ==
  ASSUME Alone, TypeOK, Counted, OneCallEach, EachGameOnce, NEW c \in Calls, Load(c)
  PROVE  OneCallEach'
<1> DEFINE g == Target[c]
<1>1. g \in Games /\ c \in Waits
  BY FileTypes DEF Alone, StatusOf
<1>2. Active(c) /\ call[c] = "load" /\ handoff = c /\ g \in alive
  BY DEF Load, Active, Returned, OneCallEach, CallsInTurn
<1>3. Untouched(g)
  BY <1>2 DEF Untouched, EachGameOnce
<1>4. payload[g] = "none" /\ status[g] = Absent /\ refs[g] = 0
  BY <1>1, <1>3 DEF OneCallEach, PayloadsInTurn, PayloadInTurn, Counted
<1>5. /\ payload' = [payload EXCEPT ![g] = "attached"]
      /\ call' = [call EXCEPT ![c] = "waiting"]
      /\ UNCHANGED <<handoff, writers, status, answer, stalled, alive, took, outcome>>
  BY <1>1, <1>4 DEF Load, LoadInto, Goto, Step
<1>6. \A d \in Calls \ {c} : ~Active(d)
  BY <1>2, TheActiveOne DEF OneCallEach
<1> HIDE DEF g
<1>7. CallsInTurn'
  BY <1>2, <1>5, <1>6 DEF OneCallEach, CallsInTurn, Active, Returned, TypeOK
<1>8. PayloadsInTurn'
  <2> SUFFICES ASSUME NEW h \in Games PROVE PayloadInTurn(h)'
    BY DEF PayloadsInTurn
  <2>1. CASE h = g
    <3>1. payload'[h] = "attached" /\ Target[c] = h /\ Polling(c)' /\ ~Untouched(h)' /\ ~Running(h)'
      BY <1>1, <1>5, <2>1 DEF TypeOK, Polling, Untouched, Running, g
    <3> QED BY <1>2, <1>4, <1>5, <2>1, <3>1 DEF TypeOK, PayloadInTurn
  <2>2. CASE h # g
    <3>1. payload'[h] = payload[h] /\ (Running(h)' <=> Running(h))
      BY <1>5, <2>2 DEF TypeOK, Running
    <3>2. Untouched(h)' => Untouched(h)
      BY <1>5, <2>2 DEF TypeOK, Untouched, g
    <3>3. \A d \in Calls : Polling(d) => d = c
      BY <1>6 DEF Polling, Active, Returned
    <3>4. ~Polling(c)
      BY <1>2 DEF Polling
    <3>5. payload[h] \notin {"attached", "taking"}
      BY <3>3, <3>4 DEF OneCallEach, PayloadsInTurn, PayloadInTurn, Running
    <3>6. Running(h) => took[h] \in Calls
      BY DEF OneCallEach, PayloadsInTurn, PayloadInTurn
    <3>7. payload[h] \in {"walking", "telling"} => call[took[h]] = "timeout" /\ took[h] # c
      BY <1>2, <3>3, <3>4, <3>6 DEF OneCallEach, PayloadsInTurn, PayloadInTurn, Running
    <3> QED BY <1>5, <3>1, <3>2, <3>5, <3>6, <3>7 DEF OneCallEach, PayloadsInTurn, PayloadInTurn, Running, TypeOK
  <2> QED BY <2>1, <2>2
<1> QED BY <1>7, <1>8 DEF OneCallEach

\* A call that comes back, or is polling: it leaves a status alone that is not written.
LEMMA TheReturn ==
  ASSUME Alone, TypeOK, Counted, OneCallEach, NEW c \in Calls,
         CannotOpenHandoff(c) \/ LoadFails(c) \/ PollStatus(c) \/ TakeAnswer(c) \/ PollAlive(c)
           \/ TimeOut(c)
  PROVE  OneCallEach'
<1> USE DEF cli, game, inside, Goto, Step
<1>1. /\ Active(c)
      /\ call[c] \in {"prepare", "load", "waiting", "checking", "heard"}
      /\ call'[c] \in {"failed", "waiting", "checking", "heard", "ok", "gaveup", "died",
                       "timeout"}
      /\ \A d \in Calls \ {c} : call'[d] = call[d] /\ ~Active(d)
      /\ UNCHANGED <<stalled, writers, alive, refs, payload, took, outcome>>
  <2>1. Active(c)
    BY DEF CannotOpenHandoff, LoadFails, PollStatus, TakeAnswer, PollAlive, TimeOut, Active, Returned
  <2>2. \A d \in Calls \ {c} : ~Active(d)
    BY <2>1, TheActiveOne DEF OneCallEach
  <2> QED BY <2>1, <2>2 DEF CannotOpenHandoff, LoadFails, PollStatus, TakeAnswer, PollAlive, TimeOut, TypeOK
<1>2. \A g \in Games : status'[g] \in {status[g], Absent}
  BY FileTypes DEF CannotOpenHandoff, LoadFails, PollStatus, TakeAnswer, PollAlive, TimeOut, RemoveStatus, TypeOK
<1>3. CallsInTurn'
  BY <1>1 DEF OneCallEach, CallsInTurn, Active, Returned
<1>4. ASSUME NEW g \in Games, payload[g] \in {"attached", "taking"}
      PROVE  Polling(c)' /\ handoff' = handoff
  <2>1. payload[g] = "attached" => Target[c] = g /\ Polling(c)
    BY <1>1, <1>4 DEF OneCallEach, PayloadsInTurn, PayloadInTurn, Polling, Active, Returned
  <2>2. payload[g] = "taking" => Target[c] = g /\ Polling(c)
    BY <1>1, <1>4 DEF OneCallEach, PayloadsInTurn, PayloadInTurn, Polling, Active, Returned, Running
  <2>3. Target[c] = g /\ Polling(c) /\ status[g] = Absent /\ g \in alive
    BY <1>4, <2>1, <2>2 DEF OneCallEach, PayloadsInTurn, PayloadInTurn
  <2> QED BY <1>4, <2>3 DEF Polling, CannotOpenHandoff, LoadFails, PollStatus, TakeAnswer, PollAlive, TimeOut, StatusOf, TypeOK
<1>5. ASSUME NEW g \in Games, payload[g] \in {"walking", "telling"}, Polling(took[g])
      PROVE  took[g] = c /\ (Polling(c)' \/ call'[c] = "timeout")
  <2>1. took[g] = c /\ Target[c] = g
    BY <1>1, <1>5 DEF OneCallEach, PayloadsInTurn, PayloadInTurn, Polling, Active, Returned, Running
  <2>2. status[g] = Absent /\ g \in alive
    BY <1>5 DEF OneCallEach, PayloadsInTurn, PayloadInTurn
  <2> QED BY <1>5, <2>1, <2>2 DEF Polling, CannotOpenHandoff, LoadFails, PollStatus, TakeAnswer, PollAlive, TimeOut, StatusOf, TypeOK
<1>6. PayloadsInTurn'
  <2> SUFFICES ASSUME NEW g \in Games PROVE PayloadInTurn(g)'
    BY DEF PayloadsInTurn
  <2>1. Untouched(g)' => Untouched(g)
    BY <1>1 DEF Untouched
  <2>2. payload'[g] = "attached" => \E d \in Calls : Target[d] = g /\ Polling(d)' /\ handoff' = d
    BY <1>1, <1>4 DEF OneCallEach, PayloadsInTurn, PayloadInTurn, Polling, Active, Returned
  <2>3. payload'[g] = "taking" => Polling(took[g])'
    <3>1. payload[g] = "taking" => took[g] \in Calls /\ Polling(took[g])
      BY DEF OneCallEach, PayloadsInTurn, PayloadInTurn, Running
    <3> QED BY <1>1, <1>4, <3>1 DEF Polling, Active, Returned
  <2>4. payload'[g] \in {"walking", "telling"} => Polling(took[g])' \/ call'[took'[g]] = "timeout"
    <3>1. payload[g] \in {"walking", "telling"} => took[g] \in Calls
      BY DEF OneCallEach, PayloadsInTurn, PayloadInTurn, Running
    <3>2. call[took[g]] = "timeout" => took[g] # c
      BY <1>1
    <3> QED BY <1>1, <1>5, <3>1, <3>2 DEF OneCallEach, PayloadsInTurn, PayloadInTurn
  <2>5. Running(g)' <=> Running(g)
    BY <1>1 DEF Running
  <2> QED BY <1>1, <1>2, <2>1, <2>2, <2>3, <2>4, <2>5 DEF OneCallEach, PayloadsInTurn, PayloadInTurn
<1> QED BY <1>3, <1>6 DEF OneCallEach

\* What a payload does touches only its own game, and the handoff it was loaded with.
LEMMA ThePayload ==
  ASSUME Alone, TypeOK, Counted, OneCallEach, NEW g \in Games,
         ReadHandoff(g) \/ RemoveTaken(g) \/ Walk(g) \/ SayNothing(g) \/ OpenStatus(g)
           \/ WriteStatus(g) \/ Unload(g) \/ GameDies(g)
  PROVE  OneCallEach'
<1> USE DEF cli, game, inside, Goto, Step
<1>1. /\ UNCHANGED <<writers, call, answer>>
      /\ alive' \in {alive, alive \ {g}}
      /\ payload[g] = "none" => payload'[g] = "none"
      /\ \A h \in Games \ {g} : /\ payload'[h] = payload[h] /\ took'[h] = took[h]
                                /\ h \in alive <=> h \in alive'
      /\ stalled' \subseteq stalled
  BY DEF ReadHandoff, RemoveTaken, Walk, SayNothing, OpenStatus, WriteStatus, Unload, GameDies,
         TypeOK
<1>2. handoff' = handoff \/ payload[g] = "taking"
  BY DEF ReadHandoff, RemoveTaken, Walk, SayNothing, OpenStatus, WriteStatus, Unload, GameDies
<1>3. ASSUME payload[g] \in {"attached", "taking"}
      PROVE  \E c \in Calls : Target[c] = g /\ Polling(c) /\ \A d \in Calls \ {c} : ~Active(d)
  <2>1. PICK c \in Calls : Target[c] = g /\ Polling(c)
    BY <1>3 DEF OneCallEach, PayloadsInTurn, PayloadInTurn, Running
  <2>2. Active(c)
    BY <2>1 DEF Polling, Active, Returned
  <2> QED BY <2>1, <2>2, TheActiveOne DEF OneCallEach
<1>4. CallsInTurn'
  <2>1. \A c \in Calls : call[c] = "load" => handoff' = c
    <3> SUFFICES ASSUME NEW c \in Calls, call[c] = "load" PROVE handoff' = c
      OBVIOUS
    <3>1. Active(c) /\ ~Polling(c) /\ handoff = c
      BY DEF Active, Polling, Returned, OneCallEach, CallsInTurn
    <3>2. payload[g] # "taking"
      BY <1>3, <3>1
    <3> QED BY <1>2, <3>1, <3>2
  <2> QED BY <1>1, <2>1 DEF OneCallEach, CallsInTurn, Active
<1>5. \A h \in Games : Untouched(h)' <=> Untouched(h)
  BY <1>1 DEF Untouched
<1>6. \A h \in Games \ {g} : status'[h] = status[h]
  <2>1. payload[g] \in {"telling", "reporting"} => StatusOf(took[g]) = g
    BY DEF OneCallEach, PayloadsInTurn, PayloadInTurn, Running, StatusOf
  <2> QED BY <2>1 DEF ReadHandoff, RemoveTaken, Walk, SayNothing, OpenStatus, WriteStatus, Unload,
                      GameDies, TypeOK
<1>7. ASSUME NEW h \in Games \ {g} PROVE PayloadInTurn(h)'
  <2>1. payload[h] = "attached" =>
          \E c \in Calls : Target[c] = h /\ Polling(c)' /\ handoff' = c
    <3> SUFFICES ASSUME payload[h] = "attached"
                 PROVE  \E c \in Calls : Target[c] = h /\ Polling(c)' /\ handoff' = c
      OBVIOUS
    <3>1. PICK c \in Calls : Target[c] = h /\ Polling(c) /\ handoff = c
      BY DEF OneCallEach, PayloadsInTurn, PayloadInTurn
    <3>2. payload[g] # "taking"
      BY <1>3, <3>1 DEF Polling, Active, Returned
    <3> QED BY <1>1, <1>2, <3>1, <3>2 DEF Polling
  <2>2. \A c \in Calls : Polling(c)' <=> Polling(c)
    BY <1>1 DEF Polling
  <2>3. Running(h)' <=> Running(h)
    BY <1>1 DEF Running
  <2>4. payload[h] \in {"taking", "walking", "telling"} => took[h] \in Calls
    BY DEF OneCallEach, PayloadsInTurn, PayloadInTurn, Running
  <2> QED BY <1>1, <1>5, <1>6, <2>1, <2>2, <2>3, <2>4
             DEF OneCallEach, PayloadsInTurn, PayloadInTurn
<1>8. PayloadInTurn(g)'
  <2>1. payload[g] # "none" => g \in alive /\ ~Untouched(g)'
    BY <1>5 DEF OneCallEach, PayloadsInTurn, PayloadInTurn
  <2>2. Running(g) => took[g] \in Calls /\ Target[took[g]] = g
    BY DEF OneCallEach, PayloadsInTurn, PayloadInTurn
  <2>3. CASE ReadHandoff(g)
    <3>1. PICK c \in Calls : Target[c] = g /\ Polling(c) /\ handoff = c
      BY <2>3 DEF ReadHandoff, OneCallEach, PayloadsInTurn, PayloadInTurn
    <3>2. took'[g] = c /\ payload'[g] = "taking" /\ payload[g] = "attached"
      BY <2>3, <3>1, FileTypes DEF ReadHandoff, TypeOK
    <3> QED BY <2>1, <2>3, <3>1, <3>2
               DEF ReadHandoff, Polling, OneCallEach, PayloadsInTurn, PayloadInTurn
  <2>4. CASE RemoveTaken(g)
    <3>1. payload[g] = "taking" /\ payload'[g] = "walking" /\ Running(g)
      BY <2>4 DEF RemoveTaken, TypeOK, Running
    <3> QED BY <2>1, <2>2, <2>4, <3>1
               DEF RemoveTaken, Polling, OneCallEach, PayloadsInTurn, PayloadInTurn
  <2>5. CASE Walk(g)
    <3>1. payload[g] = "walking" /\ payload'[g] = "telling" /\ Running(g)
      BY <2>5 DEF Walk, TypeOK, Running
    <3> QED BY <2>1, <2>2, <2>5, <3>1
               DEF Walk, Polling, OneCallEach, PayloadsInTurn, PayloadInTurn
  <2>6. CASE SayNothing(g) \/ OpenStatus(g) \/ WriteStatus(g)
    <3>1. /\ payload[g] \in {"telling", "reporting"} /\ payload'[g] \in {"reporting", "finishing"}
          /\ UNCHANGED <<alive, took>> /\ Running(g)
      BY <2>6 DEF SayNothing, OpenStatus, WriteStatus, TypeOK, Running
    <3> QED BY <2>1, <2>2, <3>1 DEF PayloadInTurn
  <2>7. CASE Unload(g) \/ GameDies(g)
    <3>1. /\ payload'[g] \in {"none", "resident"}
          /\ payload'[g] # "none" => alive' = alive
          /\ payload[g] = "none" => payload'[g] = "none"
          /\ status' = status
      BY <2>7 DEF Unload, GameDies, TypeOK
    <3> QED BY <1>5, <2>1, <3>1 DEF PayloadInTurn, Running, OneCallEach, PayloadsInTurn
  <2> QED BY <2>3, <2>4, <2>5, <2>6, <2>7
<1> QED BY <1>4, <1>7, <1>8 DEF OneCallEach, PayloadsInTurn

LEMMA StaysInTurn ==
  ASSUME Alone, TypeOK, Counted, OneCallEach, EachGameOnce, [Next]_vars
  PROVE  OneCallEach'
<1>1. ASSUME NEW c \in Calls PROVE ~LateLoad(c)
  BY DEF OneCallEach, CallsInTurn, LateLoad
<1>2. CASE UNCHANGED vars
  BY <1>2 DEF vars, OneCallEach, CallsInTurn, PayloadsInTurn, PayloadInTurn, Active, Polling,
              Untouched, Running
<1> QED
  BY <1>1, <1>2, NothingStalls, BeforeLoad, TheLoad, TheReturn, ThePayload
     DEF Next, CallStep, PayloadStep

LEMMA CallsLeaveReports ==
  ASSUME Alone, TypeOK, Counted, OneCallEach, ReportsInTurn, EachGameOnce, NEW c \in Calls,
         Begin(c) \/ OpenHandoff(c) \/ CannotOpenHandoff(c) \/ WriteHandoff(c) \/ Load(c)
           \/ LoadFails(c) \/ PollStatus(c) \/ TakeAnswer(c) \/ PollAlive(c) \/ TimeOut(c)
  PROVE  ReportsInTurn'
<1> USE DEF cli, game, inside, Goto, Step
<1> DEFINE Answered(d) == call[d] \in {"heard", "ok"}
           Moves == /\ UNCHANGED <<took, outcome>>
                    /\ call'[c] # "idle" /\ \A d \in Calls \ {c} : call'[d] = call[d]
                    /\ call'[c] \in {"heard", "ok"} => PollStatus(c) \/ TakeAnswer(c)
                    /\ answer' = answer \/ PollStatus(c)
                    /\ call[c] # "ok"
                    /\ \A g \in Games : status'[g] \in {status[g], Absent}
<1>1. Moves
  <2>1. CASE Begin(c) \/ OpenHandoff(c) \/ CannotOpenHandoff(c) \/ WriteHandoff(c)
    BY <2>1, FileTypes DEF Begin, OpenHandoff, CannotOpenHandoff, WriteHandoff, RemoveStatus, TypeOK
  <2>2. CASE Load(c) \/ LoadFails(c) \/ PollAlive(c) \/ TimeOut(c)
    BY <2>2 DEF Load, LoadInto, LoadFails, PollAlive, TimeOut, TypeOK
  <2>3. CASE PollStatus(c) \/ TakeAnswer(c)
    BY <2>3, FileTypes DEF PollStatus, TakeAnswer, RemoveStatus, TypeOK
  <2> QED BY <2>1, <2>2, <2>3
<1>2. \A g \in Games : Untouched(g)' => Untouched(g)
  BY <1>1 DEF Untouched, Begin, OpenHandoff, CannotOpenHandoff, WriteHandoff, Load, LoadFails,
              PollStatus, TakeAnswer, PollAlive, TimeOut, TypeOK
<1>3. \A g \in Games : payload'[g] = payload[g] \/ (payload[g] = "none" /\ Untouched(g))
  <2>1. CASE Load(c)
    <3>1. Untouched(Target[c]) /\ Target[c] \in Games
      BY <2>1, FileTypes DEF Load, Untouched, EachGameOnce, StatusOf
    <3> QED BY <2>1, <3>1 DEF Load, LoadInto, TypeOK, OneCallEach, PayloadsInTurn, PayloadInTurn
  <2>2. CASE ~Load(c)
    BY <2>2 DEF Begin, OpenHandoff, CannotOpenHandoff, WriteHandoff, LoadFails, PollStatus,
                TakeAnswer, PollAlive, TimeOut
  <2> QED BY <2>1, <2>2
<1>4. ASSUME NEW d \in Calls
      PROVE  /\ call'[d] = "ok" => answer'[d] \in Reports
             /\ Answered(d)' /\ answer'[d] \in Reports =>
                  LET g == Target[d] IN
                  outcome'[g] # "none" /\ took'[g] = d /\ answer'[d] = Report(g, d, outcome'[g])
  <2>1. CASE PollStatus(d) /\ d = c
    <3> DEFINE g == Target[d]
    <3>1. call'[d] # "ok" /\ g \in Games /\ StatusOf(d) = g /\ call[d] = "waiting"
      BY <2>1, FileTypes DEF PollStatus, TypeOK, StatusOf
    <3>2. ASSUME Answered(d)', answer'[d] \in Reports
          PROVE  outcome'[g] # "none" /\ took'[g] = d /\ answer'[d] = Report(g, d, outcome'[g])
      <4>1. answer'[d] = status[g] /\ status[g] \notin {Absent, Blank}
        BY <2>1, <3>1, <3>2, FilesAssumption DEF PollStatus, TypeOK, FilesAssumption
      <4>2. status[g] = Report(g, took[g], outcome[g]) /\ outcome[g] # "none"
        BY <3>1, <4>1 DEF ReportsInTurn
      <4>3. took[g] \in Calls /\ Target[took[g]] = g /\ call[took[g]] # "idle" /\ call[d] # "idle"
        BY <3>1, <4>2 DEF ReportsInTurn
      <4>4. took[g] = d
        BY <4>3 DEF EachGameOnce
      <4> QED BY <1>1, <3>1, <4>1, <4>2, <4>4
    <3> QED BY <3>1, <3>2
  <2>2. CASE ~(PollStatus(d) /\ d = c)
    <3>1. answer'[d] = answer[d]
      BY <1>1, <2>2 DEF PollStatus, TypeOK
    <3>2. Answered(d)' => Answered(d)
      BY <1>1, <2>2 DEF TakeAnswer
    <3>3. call'[d] = "ok" => answer[d] \in Reports
      BY <1>1, <2>2 DEF TakeAnswer, ReportsInTurn, TypeOK
    <3> QED BY <1>1, <3>1, <3>2, <3>3 DEF ReportsInTurn
  <2> QED BY <2>1, <2>2
<1>5. ASSUME NEW g \in Games
      PROVE  /\ Untouched(g)' => outcome'[g] = "none"
             /\ outcome'[g] # "none" =>
                  /\ payload'[g] \notin {"attached", "taking", "walking"}
                  /\ took'[g] \in Calls /\ Target[took'[g]] = g /\ call'[took'[g]] # "idle"
             /\ status'[g] \in {Absent, Blank, Report(g, took'[g], outcome'[g])}
             /\ status'[g] # Absent => outcome'[g] # "none"
  BY <1>1, <1>2, <1>3 DEF ReportsInTurn
<1> QED BY <1>4, <1>5 DEF ReportsInTurn

LEMMA PayloadsReport ==
  ASSUME Alone, TypeOK, Counted, OneCallEach, ReportsInTurn, EachGameOnce, NEW g \in Games,
         ReadHandoff(g) \/ RemoveTaken(g) \/ Walk(g) \/ SayNothing(g) \/ OpenStatus(g)
           \/ WriteStatus(g) \/ Unload(g) \/ GameDies(g)
  PROVE  ReportsInTurn'
<1> USE DEF cli, game, inside, Goto, Step
<1>1. /\ UNCHANGED <<call, answer>>
      /\ \A h \in Games \ {g} : /\ payload'[h] = payload[h] /\ took'[h] = took[h]
                                /\ outcome'[h] = outcome[h]
      /\ payload[g] = "none" => payload'[g] = "none"
      /\ took'[g] # took[g] => payload[g] = "attached"
      /\ outcome'[g] # outcome[g] => payload[g] = "walking"
      /\ outcome[g] # "none" => outcome'[g] # "none"
  BY DEF ReadHandoff, RemoveTaken, Walk, SayNothing, OpenStatus, WriteStatus, Unload, GameDies,
         TypeOK
<1>2. \A h \in Games : Untouched(h)' <=> Untouched(h)
  BY <1>1 DEF Untouched
<1>3. \A h \in Games \ {g} : status'[h] = status[h]
  <2>1. payload[g] \in {"telling", "reporting"} => StatusOf(took[g]) = g
    BY DEF OneCallEach, PayloadsInTurn, PayloadInTurn, Running, StatusOf
  <2> QED BY <2>1 DEF ReadHandoff, RemoveTaken, Walk, SayNothing, OpenStatus, WriteStatus, Unload,
                      GameDies, TypeOK
<1>4. outcome[g] # "none" => took'[g] = took[g] /\ outcome'[g] = outcome[g]
  BY <1>1 DEF ReportsInTurn
<1>5. ASSUME NEW d \in Calls
      PROVE  /\ call'[d] = "ok" => answer'[d] \in Reports
             /\ call'[d] \in {"heard", "ok"} /\ answer'[d] \in Reports =>
                  LET h == Target[d] IN
                  outcome'[h] # "none" /\ took'[h] = d /\ answer'[d] = Report(h, d, outcome'[h])
  BY <1>1, <1>4, FileTypes DEF ReportsInTurn, StatusOf
<1>6. /\ Untouched(g)' => outcome'[g] = "none"
      /\ outcome'[g] # "none" =>
           /\ payload'[g] \notin {"attached", "taking", "walking"}
           /\ took'[g] \in Calls /\ Target[took'[g]] = g /\ call'[took'[g]] # "idle"
      /\ status'[g] \in {Absent, Blank, Report(g, took'[g], outcome'[g])}
      /\ status'[g] # Absent => outcome'[g] # "none"
  <2>1. Untouched(g) => payload[g] = "none" /\ outcome[g] = "none"
    BY DEF OneCallEach, PayloadsInTurn, PayloadInTurn, ReportsInTurn
  <2>2. Untouched(g)' => outcome'[g] = "none"
    BY <1>1, <1>2, <2>1
  <2>3. CASE ReadHandoff(g) \/ RemoveTaken(g)
    <3>1. payload[g] \in {"attached", "taking"} /\ status' = status /\ outcome' = outcome
      BY <2>3 DEF ReadHandoff, RemoveTaken
    <3>2. outcome[g] = "none" /\ status[g] = Absent
      BY <3>1 DEF ReportsInTurn
    <3> QED BY <2>2, <3>1, <3>2
  <2>4. CASE Walk(g)
    <3>1. payload[g] = "walking" /\ status' = status /\ took' = took /\ payload'[g] = "telling"
      BY <2>4 DEF Walk, TypeOK
    <3>2. status[g] = Absent /\ took[g] \in Calls /\ Target[took[g]] = g /\ call[took[g]] # "idle"
      BY <3>1 DEF OneCallEach, PayloadsInTurn, PayloadInTurn, Running, Polling
    <3> QED BY <1>1, <2>2, <3>1, <3>2
  <2>5. CASE SayNothing(g) \/ OpenStatus(g) \/ WriteStatus(g)
    <3>1. /\ payload[g] \in {"telling", "reporting"} /\ payload'[g] \in {"reporting", "finishing"}
          /\ UNCHANGED <<took, outcome>>
      BY <2>5 DEF SayNothing, OpenStatus, WriteStatus, TypeOK
    <3>2. outcome[g] # "none" /\ took[g] \in Calls /\ StatusOf(took[g]) = g
      BY <3>1 DEF Counted, OneCallEach, PayloadsInTurn, PayloadInTurn, Running, StatusOf
    <3>3. status'[g] \in {status[g], Blank, Report(g, took[g], outcome[g])}
      BY <2>5, <3>2 DEF SayNothing, OpenStatus, WriteStatus, TypeOK
    <3> QED BY <1>1, <2>2, <3>1, <3>2, <3>3 DEF ReportsInTurn
  <2>6. CASE Unload(g) \/ GameDies(g)
    <3>1. payload'[g] \in {"none", "resident"} /\ UNCHANGED <<took, outcome, status>>
      BY <2>6 DEF Unload, GameDies, TypeOK
    <3> QED BY <1>1, <2>2, <3>1 DEF ReportsInTurn
  <2> QED BY <2>3, <2>4, <2>5, <2>6
<1> QED BY <1>1, <1>2, <1>3, <1>5, <1>6 DEF ReportsInTurn

LEMMA StaysReported ==
  ASSUME Alone, TypeOK, Counted, OneCallEach, ReportsInTurn, EachGameOnce, [Next]_vars
  PROVE  ReportsInTurn'
<1>1. ASSUME NEW c \in Calls PROVE ~LateLoad(c)
  BY DEF OneCallEach, CallsInTurn, LateLoad
<1>2. CASE UNCHANGED vars
  BY <1>2 DEF vars, ReportsInTurn, Untouched
<1> QED
  BY <1>1, <1>2, NothingStalls, CallsLeaveReports, PayloadsReport DEF Next, CallStep, PayloadStep

LEMMA InTurn ==
  ASSUME Alone
  PROVE  Spec /\ []EachGameOnce => [](TypeOK /\ Counted /\ OneCallEach /\ ReportsInTurn)
<1> DEFINE Inv == TypeOK /\ Counted /\ OneCallEach /\ ReportsInTurn
<1>1. Init => Inv
  BY InitTyped, InitInTurn
<1>2. Inv /\ EachGameOnce /\ [Next]_vars => Inv'
  BY NextTyped, StaysInTurn, StaysReported
<1> HIDE DEF Inv
<1>3. Spec /\ []EachGameOnce => []Inv
  BY <1>1, <1>2, PTL DEF Spec
<1> QED BY <1>3 DEF Inv

\* What a call hands over reaches the load it was written for: as long as calls wait, one
\* at a time, and no game is injected into twice, a payload runs only on the options of
\* the call that loaded it, though both pass through one file beside the DLL.
THEOREM OptionsReach ==
  ASSUME Alone
  PROVE  Spec /\ []EachGameOnce => []OptionsReachTheirGame
<1>1. OneCallEach => OptionsReachTheirGame
  BY DEF OneCallEach, PayloadsInTurn, PayloadInTurn, OptionsReachTheirGame
<1> QED BY <1>1, InTurn, PTL

(***************************************************************************)
(* What an ok is of, when calls take turns: whether they wait or not, into *)
(* whatever games, with loaders that come late and answers that come late. *)
(***************************************************************************)

\* Options run in the game they were written for, or in one where a payload was left.
Own(g, c) == Target[c] = g \/ LeftBehind(g)

IsOwn(text, g) ==
  text \in Reports => Target[text.options] = g /\ Own(text.from, text.options)

Tells(text, g, c) == text \in Reports /\ text.from = g /\ text.options = c

\* The payload of g has run on the options of c.
Ran(g, c) ==
  \/ Running(g) /\ took[g] = c
  \/ \E s \in Games : Tells(status[s], g, c)

\* The call that waits for g has not heard of a run of it.
Expects(c, g) ==
  /\ Target[c] = g
  /\ \/ Polling(c) /\ ~Tells(status[g], g, c)
     \/ call[c] = "heard" /\ ~Tells(answer[c], g, c)

\* One call at a time: its options are in the handoff from its load on, or none are.
TurnsTaken ==
  /\ \A c, d \in Calls : Active(c) /\ Active(d) => c = d
  /\ writers \subseteq {c \in Calls : call[c] = "note"}
  /\ \A c \in Calls : /\ call[c] \in {"load", "waiting", "checking", "heard"} => handoff \in {c, Absent}
                      /\ call[c] \in {"idle", "prepare", "note"} => handoff # c
  /\ \A c \in stalled : call[c] = "failed"

\* A payload that has no options yet gets those of the call that waits for it, unless a call
\* left it behind; and no call has been run that did not load, unless one did.
RunsOwn ==
  /\ \A g \in Games :
       /\ payload[g] # "none" => g \in alive
       /\ payload[g] = "attached" => LeftBehind(g) \/ \E c \in Calls : Expects(c, g)
       /\ Running(g) /\ took[g] \in Calls => Own(g, took[g])
       /\ IsOwn(status[g], g)
       /\ \A c \in Calls :
            call[c] \in {"idle", "prepare", "note", "load"} /\ Ran(g, c) => LeftBehind(g)
  /\ \A c \in Calls : /\ IsOwn(answer[c], Target[c])
                      /\ call[c] = "ok" => answer[c] \in Reports

OwnInv == TurnsTaken /\ RunsOwn

LEMMA TextsAreNone == Absent \notin Reports /\ Blank \notin Reports
BY FilesAssumption DEF FilesAssumption

LEMMA OwnStarts == Init => OwnInv
BY TextsAreNone, FileTypes DEF Init, OwnInv, TurnsTaken, RunsOwn, Active, Returned, Running, IsOwn, Ran, Tells

\* A call that is back is where it was, and has heard what it had.
LEMMA LeftIsLeft ==
  ASSUME TypeOK, [Next]_vars, NEW g \in Games, LeftBehind(g)
  PROVE  LeftBehind(g)'
<1>1. PICK e \in Calls : Target[e] = g /\ call[e] \in Returned \ {"died"} /\ ~Heard(e)
  BY DEF LeftBehind
<1>2. call'[e] = call[e] /\ answer'[e] = answer[e]
  <2> USE DEF cli, game, inside, Goto, Step
  <2>1. ASSUME NEW c \in Calls, Begin(c) \/ CallStep(c) \/ LateLoad(c) \/ TimeOut(c)
        PROVE  call'[e] = call[e] /\ answer'[e] = answer[e]
    <3>1. c = e => LateLoad(c)
      BY <1>1, <2>1 DEF Begin, CallStep, NothingToSay, OpenHandoff, CannotOpenHandoff, WriteHandoff,
                        Load, LoadFails, LoadStalls, PollStatus, TakeAnswer, PollAlive, TimeOut, Returned
    <3>2. CASE LateLoad(c)
      BY <3>2 DEF LateLoad
    <3>3. CASE c # e
      BY <2>1, <3>3 DEF Begin, CallStep, NothingToSay, OpenHandoff, CannotOpenHandoff, WriteHandoff,
                        Load, LoadFails, LoadStalls, PollStatus, TakeAnswer, PollAlive, TimeOut,
                        LateLoad, TypeOK
    <3> QED BY <3>1, <3>2, <3>3
  <2>2. ASSUME NEW h \in Games, PayloadStep(h) \/ Unload(h) \/ GameDies(h)
        PROVE  call' = call /\ answer' = answer
    BY <2>2 DEF PayloadStep, ReadHandoff, RemoveTaken, Walk, SayNothing, OpenStatus, WriteStatus,
                Unload, GameDies
  <2>3. CASE UNCHANGED vars
    BY <2>3 DEF vars
  <2> QED BY <2>1, <2>2, <2>3 DEF Next
<1> QED BY <1>1, <1>2 DEF LeftBehind, Heard

LEMMA TurnsStayTaken ==
  ASSUME OneAtATime, TypeOK, TurnsTaken, [Next]_vars
  PROVE  TurnsTaken'
<1> USE DEF cli, game, inside, Goto, Step
<1>1. ASSUME NEW c \in Calls, Begin(c) PROVE TurnsTaken'
  BY <1>1 DEF Begin, TurnsTaken, TypeOK, Active, Returned
<1>2. ASSUME NEW c \in Calls, NothingToSay(c) PROVE TurnsTaken'
  <2>1. writers = {} /\ Active(c)
    BY <1>2 DEF NothingToSay, TurnsTaken, Active, Returned
  <2> QED BY <1>2, <2>1, FileTypes DEF NothingToSay, RemoveHandoff, TurnsTaken, TypeOK, Active, Returned
<1>3. ASSUME NEW c \in Calls, OpenHandoff(c) \/ CannotOpenHandoff(c) PROVE TurnsTaken'
  BY <1>3, FileTypes DEF OpenHandoff, CannotOpenHandoff, TurnsTaken, TypeOK, Active, Returned
<1>4. ASSUME NEW c \in Calls, WriteHandoff(c) PROVE TurnsTaken'
  BY <1>4 DEF WriteHandoff, TurnsTaken, TypeOK, Active, Returned
<1>5. ASSUME NEW c \in Calls, Load(c) PROVE TurnsTaken'
  BY <1>5 DEF Load, TurnsTaken, TypeOK, Active, Returned
<1>6. ASSUME NEW c \in Calls, LoadFails(c) \/ LoadStalls(c) PROVE TurnsTaken'
  <2>1. handoff' \in {handoff, Absent}
    BY <1>6 DEF LoadFails, LoadStalls, RemoveHandoff
  <2>2. /\ call[c] = "load" /\ call' = [call EXCEPT ![c] = "failed"] /\ writers' = writers
        /\ stalled' \subseteq stalled \cup {c}
    BY <1>6 DEF LoadFails, LoadStalls
  <2> QED BY <2>1, <2>2, FileTypes DEF TurnsTaken, TypeOK, Active, Returned
<1>7. ASSUME NEW c \in Calls, LateLoad(c) PROVE TurnsTaken'
  BY <1>7 DEF LateLoad, TurnsTaken, TypeOK, Active
<1>8. ASSUME NEW c \in Calls, PollStatus(c) \/ TakeAnswer(c) \/ PollAlive(c) \/ TimeOut(c)
      PROVE TurnsTaken'
  <2>1. /\ call[c] \in {"waiting", "checking", "heard"}
        /\ \E state \in Returned \cup {"waiting", "checking", "heard"} :
             call' = [call EXCEPT ![c] = state]
        /\ UNCHANGED <<handoff, writers, stalled>>
    BY <1>8 DEF PollStatus, TakeAnswer, PollAlive, TimeOut, Returned
  <2> QED BY <2>1 DEF TurnsTaken, TypeOK, Active, Returned
<1>9. ASSUME NEW g \in Games, PayloadStep(g) \/ Unload(g) \/ GameDies(g) PROVE TurnsTaken'
  <2>1. handoff' \in {handoff, Absent} /\ stalled' \subseteq stalled /\ UNCHANGED <<writers, call>>
    BY <1>9 DEF PayloadStep, ReadHandoff, RemoveTaken, Walk, SayNothing, OpenStatus, WriteStatus,
                Unload, GameDies, RemoveHandoff
  <2> QED BY <2>1, FileTypes DEF TurnsTaken, Active
<1>10. CASE UNCHANGED vars
  BY <1>10 DEF vars, TurnsTaken, Active
<1> QED
  BY <1>1, <1>2, <1>3, <1>4, <1>5, <1>6, <1>7, <1>8, <1>9, <1>10 DEF Next, CallStep

\* What a call does that is not about its answer: no payload runs on, and if it loads, its
\* payload is there for it.
LEMMA CallsRunOwn ==
  ASSUME OneAtATime, TypeOK, Counted, OwnInv, NEW c \in Calls,
         \A g \in Games : LeftBehind(g) => LeftBehind(g)',
         \/ Begin(c) \/ NothingToSay(c) \/ OpenHandoff(c) \/ CannotOpenHandoff(c) \/ WriteHandoff(c)
         \/ Load(c) \/ LoadFails(c) \/ LoadStalls(c) \/ LateLoad(c)
  PROVE  RunsOwn'
<1> USE DEF cli, game, inside, Goto, Step
<1> DEFINE g == Target[c]
           Loads == Load(c) \/ LateLoad(c)
<1>1. g \in Games
  BY FileTypes DEF StatusOf
<1>2. /\ UNCHANGED <<answer, alive, took>>
      /\ \A h \in Games : status'[h] \in {status[h], Absent}
      /\ call'[c] \in {"idle", "prepare", "note", "load"} =>
           call[c] \in {"idle", "prepare", "note", "load"}
      /\ call'[c] # "ok" /\ \A d \in Calls \ {c} : call'[d] = call[d]
  <2>1. CASE Begin(c)
    BY <2>1, FileTypes DEF Begin, RemoveStatus, TypeOK
  <2>2. CASE ~Begin(c)
    BY <2>2 DEF NothingToSay, OpenHandoff, CannotOpenHandoff, WriteHandoff, Load, LoadFails,
                LoadStalls, LateLoad, LoadInto, OwnInv, TurnsTaken, TypeOK
  <2> QED BY <2>1, <2>2
<1>3. /\ ~Loads => payload' = payload
      /\ Loads => /\ g \in alive
                  /\ payload' = payload \/ (payload[g] = "none" /\ payload' = [payload EXCEPT ![g] = "attached"])
  BY <1>1 DEF Begin, NothingToSay, OpenHandoff, CannotOpenHandoff, WriteHandoff, LoadFails, LoadStalls,
              Load, LateLoad, LoadInto, Counted
<1>4. \A h \in Games : Running(h)' <=> Running(h)
  BY <1>1, <1>3 DEF Running, TypeOK
<1>5. \A h \in Games, d \in Calls : Ran(h, d)' => Ran(h, d)
  <2>1. \A h, s \in Games, d \in Calls : Tells(status'[s], h, d) => Tells(status[s], h, d)
    BY <1>2, TextsAreNone DEF Tells
  <2> QED BY <1>2, <1>4, <2>1 DEF Ran, Tells
<1>6. ASSUME ~LateLoad(c)
      PROVE  /\ \A d \in Calls, h \in Games : ~Expects(d, h)
             /\ \A h \in Games : payload[h] = "attached" => LeftBehind(h)'
  <2>1. call[c] \notin {"waiting", "checking", "heard"} /\ \A d \in Calls \ {c} : ~Active(d)
    BY <1>6 DEF Begin, NothingToSay, OpenHandoff, CannotOpenHandoff, WriteHandoff, Load, LoadFails,
                LoadStalls, OwnInv, TurnsTaken, Active, Returned
  <2>2. \A d \in Calls, h \in Games : ~Expects(d, h)
    BY <2>1 DEF Expects, Polling, Active, Returned
  <2> QED BY <2>2 DEF OwnInv, RunsOwn
<1>7. ASSUME NEW h \in Games, payload'[h] = "attached"
      PROVE  LeftBehind(h)' \/ \E d \in Calls : Expects(d, h)'
  <2>1. CASE LateLoad(c)
    <3>1. UNCHANGED <<call, answer, status>> /\ call[c] = "failed"
      BY <2>1 DEF LateLoad, OwnInv, TurnsTaken
    <3>2. LeftBehind(g)'
      BY <3>1 DEF LeftBehind, Heard, Returned
    <3>3. h # g => payload[h] = "attached"
      BY <1>1, <1>3, <1>7 DEF TypeOK
    <3>4. \A d \in Calls : Expects(d, h) => Expects(d, h)'
      BY <3>1 DEF Expects, Polling
    <3> QED BY <3>2, <3>3, <3>4 DEF OwnInv, RunsOwn
  <2>2. CASE Load(c) /\ h = g /\ payload[h] # "attached"
    <3>1. call[c] = "load" /\ call' = [call EXCEPT ![c] = IF c \in Waits THEN "waiting" ELSE "loaded"]
            /\ status' = status
      BY <2>2 DEF Load
    <3>2. CASE c \notin Waits
      BY <2>2, <3>1, <3>2 DEF LeftBehind, Heard, Returned, TypeOK
    <3>3. CASE Tells(status[g], g, c)
      BY <1>1, <2>2, <3>1, <3>3 DEF Ran, OwnInv, RunsOwn
    <3>4. CASE c \in Waits /\ ~Tells(status[g], g, c)
      BY <2>2, <3>1, <3>4 DEF Expects, Polling, TypeOK
    <3> QED BY <3>2, <3>3, <3>4
  <2>3. CASE ~LateLoad(c) /\ payload[h] = "attached"
    BY <1>6, <2>3
  <2>4. h # g \/ ~Loads => payload[h] = "attached"
    BY <1>1, <1>3, <1>7 DEF TypeOK
  <2> QED BY <2>1, <2>2, <2>3, <2>4
<1>8. \A h \in Games, d \in Calls : Own(h, d) => Own(h, d)'
  BY DEF Own
<1>9. \A text, h : IsOwn(text, h) => IsOwn(text, h)'
  BY <1>8 DEF IsOwn, Reports, Report
<1>10. \A h \in Games : IsOwn(status[h], h)'
  <2>1. \A h \in Games : IsOwn(status[h], h) /\ IsOwn(Absent, h)
    BY TextsAreNone DEF IsOwn, OwnInv, RunsOwn
  <2>2. \A h \in Games : IsOwn(status'[h], h)
    BY <1>2, <2>1
  <2> QED BY <1>9, <2>2 DEF IsOwn
<1>11. \A d \in Calls : IsOwn(answer[d], Target[d])'
  <2>1. \A d \in Calls : IsOwn(answer'[d], Target[d])
    BY <1>2 DEF OwnInv, RunsOwn
  <2> QED BY <1>9, <2>1 DEF IsOwn
<1>12. ASSUME NEW h \in Games
       PROVE  /\ payload'[h] # "none" => h \in alive'
              /\ Running(h)' /\ took'[h] \in Calls => Own(h, took[h])'
              /\ \A d \in Calls : call'[d] \in {"idle", "prepare", "note", "load"} /\ Ran(h, d)' =>
                   LeftBehind(h)'
  <2>1. payload'[h] # "none" => h \in alive'
    BY <1>1, <1>2, <1>3 DEF OwnInv, RunsOwn, TypeOK
  <2>2. Running(h)' /\ took'[h] \in Calls => Own(h, took[h])'
    BY <1>2, <1>4, <1>8 DEF OwnInv, RunsOwn
  <2>3. \A d \in Calls : call'[d] \in {"idle", "prepare", "note", "load"} /\ Ran(h, d)' =>
          LeftBehind(h)'
    BY <1>2, <1>5 DEF OwnInv, RunsOwn
  <2> QED BY <2>1, <2>2, <2>3
<1>13. \A d \in Calls : call'[d] = "ok" => answer'[d] \in Reports
  BY <1>2 DEF OwnInv, RunsOwn
<1> QED BY <1>2, <1>7, <1>10, <1>11, <1>12, <1>13 DEF RunsOwn

\* A call that polls hears what is there, and one that comes back without having heard
\* of its own run leaves a payload behind.
LEMMA AnswersAreOwn ==
  ASSUME TypeOK, Counted, OwnInv, NEW c \in Calls,
         \A g \in Games : LeftBehind(g) => LeftBehind(g)',
         PollStatus(c) \/ TakeAnswer(c) \/ PollAlive(c) \/ TimeOut(c)
  PROVE  RunsOwn'
<1> USE DEF cli, game, inside, Goto, Step
<1>1. Target[c] \in Games /\ StatusOf(c) = Target[c]
  BY FileTypes DEF StatusOf
<1>2. /\ UNCHANGED <<alive, took, payload>>
      /\ \A h \in Games : status'[h] \in {status[h], Absent}
      /\ call[c] \in {"waiting", "checking", "heard"}
      /\ call'[c] \notin {"idle", "prepare", "note", "load"}
      /\ \A d \in Calls \ {c} : call'[d] = call[d] /\ answer'[d] = answer[d]
      /\ answer'[c] \in {answer[c], status[Target[c]]}
  BY <1>1 DEF PollStatus, TakeAnswer, PollAlive, TimeOut, RemoveStatus, TypeOK
<1>3. \A h, s \in Games, d \in Calls : Tells(status'[s], h, d) => Tells(status[s], h, d)
  BY <1>2, TextsAreNone DEF Tells
<1>4. \A h \in Games, d \in Calls : Ran(h, d)' => Ran(h, d)
  BY <1>2, <1>3 DEF Ran, Tells, Running
<1>5. \A h \in Games, d \in Calls : Own(h, d) => Own(h, d)'
  BY DEF Own
<1>6. \A text, h : IsOwn(text, h) => IsOwn(text, h)'
  BY <1>5 DEF IsOwn, Reports, Report
<1>7. \A h \in Games : IsOwn(status[h], h)'
  <2>1. \A h \in Games : IsOwn(status[h], h) /\ IsOwn(Absent, h)
    BY TextsAreNone DEF IsOwn, OwnInv, RunsOwn
  <2>2. \A h \in Games : IsOwn(status'[h], h)
    BY <1>2, <2>1
  <2> QED BY <1>6, <2>2 DEF IsOwn
<1>8. \A d \in Calls : IsOwn(answer[d], Target[d])'
  <2>1. \A d \in Calls : IsOwn(answer'[d], Target[d])
    BY <1>1, <1>2 DEF OwnInv, RunsOwn
  <2> QED BY <1>6, <2>1 DEF IsOwn
<1>9. ASSUME NEW h \in Games, NEW d \in Calls, payload[h] = "attached", Expects(d, h)
      PROVE  LeftBehind(h)' \/ Expects(d, h)'
  <2>1. CASE d # c
    BY <1>2, <1>3, <1>9, <2>1 DEF Expects, Polling, Tells
  <2>2. CASE d = c /\ PollStatus(c)
    BY <1>1, <1>2, <1>9, <2>2 DEF Expects, Polling, PollStatus, Tells, TypeOK
  <2>3. CASE d = c /\ TakeAnswer(c)
    <3>1. ~Tells(answer[c], h, c) /\ answer' = answer /\ Target[c] = h
      BY <1>9, <2>3 DEF Expects, Polling, TakeAnswer
    <3>2. call'[c] \in Returned \ {"died"} /\ ~Heard(c)'
      BY <2>3, <3>1 DEF TakeAnswer, TypeOK, Returned, Heard, Tells
    <3> QED BY <3>1, <3>2 DEF LeftBehind
  <2>4. CASE d = c /\ PollAlive(c)
    BY <1>9, <2>4 DEF Expects, Polling, PollAlive, OwnInv, RunsOwn, Tells, TypeOK
  <2>5. CASE d = c /\ TimeOut(c)
    BY <1>9, <2>5 DEF TimeOut, Expects
  <2> QED BY <2>1, <2>2, <2>3, <2>4, <2>5
<1>10. ASSUME NEW h \in Games
       PROVE  /\ payload'[h] # "none" => h \in alive'
              /\ payload'[h] = "attached" => LeftBehind(h)' \/ \E d \in Calls : Expects(d, h)'
              /\ Running(h)' /\ took'[h] \in Calls => Own(h, took[h])'
              /\ \A d \in Calls : call'[d] \in {"idle", "prepare", "note", "load"} /\ Ran(h, d)' =>
                   LeftBehind(h)'
  <2>1. payload'[h] # "none" => h \in alive'
    BY <1>2 DEF OwnInv, RunsOwn
  <2>2. payload'[h] = "attached" => LeftBehind(h)' \/ \E d \in Calls : Expects(d, h)'
    BY <1>2, <1>9 DEF OwnInv, RunsOwn
  <2>3. Running(h)' /\ took'[h] \in Calls => Own(h, took[h])'
    BY <1>2, <1>5 DEF OwnInv, RunsOwn, Running
  <2>4. \A d \in Calls : call'[d] \in {"idle", "prepare", "note", "load"} /\ Ran(h, d)' =>
          LeftBehind(h)'
    BY <1>2, <1>4 DEF OwnInv, RunsOwn
  <2> QED BY <2>1, <2>2, <2>3, <2>4
<1>11. \A d \in Calls : call'[d] = "ok" => answer'[d] \in Reports
  BY <1>2 DEF OwnInv, RunsOwn, PollStatus, TakeAnswer, PollAlive, TimeOut, TypeOK
<1> QED BY <1>7, <1>8, <1>10, <1>11 DEF RunsOwn

\* A payload takes the options of the call it was loaded for, or was left behind; and what
\* it says is of its own run.
LEMMA PayloadsRunOwn ==
  ASSUME TypeOK, Counted, OwnInv, NEW g \in Games,
         \A h \in Games : LeftBehind(h) => LeftBehind(h)',
         PayloadStep(g) \/ Unload(g) \/ GameDies(g)
  PROVE  RunsOwn'
<1> USE DEF cli, game, inside, Goto, Step
<1>1. /\ UNCHANGED <<call, answer>>
      /\ alive' \in {alive, alive \ {g}}
      /\ \A h \in Games \ {g} : payload'[h] = payload[h] /\ took'[h] = took[h]
      /\ payload'[g] # "attached"
      /\ payload'[g] # "none" => payload[g] # "none" /\ alive' = alive
  BY DEF PayloadStep, ReadHandoff, RemoveTaken, Walk, SayNothing, OpenStatus, WriteStatus, Unload,
         GameDies, TypeOK
<1>2. \A h \in Games, d \in Calls : Own(h, d) => Own(h, d)'
  BY DEF Own
<1>3. \A text, h : IsOwn(text, h) => IsOwn(text, h)'
  BY <1>2 DEF IsOwn, Reports, Report
<1>4. ASSUME Running(g)'
      PROVE  \/ Running(g) /\ took'[g] = took[g]
             \/ payload[g] = "attached" /\ took'[g] = IF handoff \in Calls THEN handoff ELSE None
  BY <1>4 DEF Running, PayloadStep, ReadHandoff, RemoveTaken, Walk, SayNothing, OpenStatus,
              WriteStatus, Unload, GameDies, TypeOK, PayloadStates
<1>5. ASSUME payload[g] = "attached", NEW c \in Calls, handoff = c
      PROVE  /\ Own(g, c)
             /\ call[c] \in {"idle", "prepare", "note", "load"} => LeftBehind(g)
  <2>1. CASE LeftBehind(g)
    BY <2>1 DEF Own
  <2>2. CASE ~LeftBehind(g)
    <3>1. PICK d \in Calls : Expects(d, g)
      BY <1>5, <2>2 DEF OwnInv, RunsOwn
    <3>2. call[d] \in {"waiting", "checking", "heard"} /\ Target[d] = g /\ Active(d)
      BY <3>1 DEF Expects, Polling, Active, Returned
    <3>3. d = c
      BY <1>5, <3>2, FileTypes DEF OwnInv, TurnsTaken
    <3> QED BY <3>2, <3>3 DEF Own
  <2> QED BY <2>1, <2>2
<1>6. \A s \in Games : \/ status'[s] \in {status[s], Absent, Blank}
                       \/ /\ Running(g) /\ took[g] \in Calls /\ s = Target[took[g]]
                          /\ status'[s] = Report(g, took[g], outcome[g])
  BY FileTypes DEF PayloadStep, ReadHandoff, RemoveTaken, Walk, SayNothing, OpenStatus,
         WriteStatus, Unload, GameDies, TypeOK, StatusOf, Counted, Running
<1>7. \A h, s \in Games, d \in Calls :
        Tells(status'[s], h, d) => Tells(status[s], h, d) \/ (h = g /\ Running(g) /\ took[g] = d)
  BY <1>6, TextsAreNone DEF Tells, Report
<1>8. \A h \in Games : IsOwn(status[h], h)'
  <2> SUFFICES ASSUME NEW h \in Games PROVE IsOwn(status'[h], h)
    BY <1>3 DEF IsOwn
  <2>1. CASE status'[h] \in {status[h], Absent, Blank}
    BY <2>1, TextsAreNone DEF IsOwn, OwnInv, RunsOwn
  <2>2. CASE /\ Running(g) /\ took[g] \in Calls /\ h = Target[took[g]]
             /\ status'[h] = Report(g, took[g], outcome[g])
    BY <2>2 DEF IsOwn, OwnInv, RunsOwn, Report
  <2> QED BY <1>6, <2>1, <2>2
<1>9. \A d \in Calls : IsOwn(answer[d], Target[d])'
  <2>1. \A d \in Calls : IsOwn(answer'[d], Target[d])
    BY <1>1 DEF OwnInv, RunsOwn
  <2> QED BY <1>3, <2>1 DEF IsOwn
<1>10. ASSUME NEW h \in Games
       PROVE  /\ payload'[h] # "none" => h \in alive'
              /\ payload'[h] = "attached" => LeftBehind(h)' \/ \E d \in Calls : Expects(d, h)'
              /\ Running(h)' /\ took'[h] \in Calls => Own(h, took[h])'
              /\ \A d \in Calls : call'[d] \in {"idle", "prepare", "note", "load"} /\ Ran(h, d)' =>
                   LeftBehind(h)'
  <2>1. payload'[h] # "none" => h \in alive'
    BY <1>1 DEF OwnInv, RunsOwn
  <2>2. payload'[h] = "attached" => LeftBehind(h)' \/ \E d \in Calls : Expects(d, h)'
    <3> SUFFICES ASSUME payload'[h] = "attached", NEW d \in Calls, Expects(d, h)
                 PROVE  Expects(d, h)'
      BY <1>1 DEF OwnInv, RunsOwn
    <3>1. h # g
      BY <1>1
    <3>2. \A s \in Games : Tells(status'[s], h, d) => Tells(status[s], h, d)
      BY <1>7, <3>1
    <3> QED BY <1>1, <3>2 DEF Expects, Polling, Tells
  <2>3. Running(h)' /\ took'[h] \in Calls => Own(h, took'[h])
    BY <1>1, <1>4, <1>5, FileTypes DEF OwnInv, RunsOwn, Running
  <2>4. ASSUME NEW d \in Calls, call'[d] \in {"idle", "prepare", "note", "load"}, Ran(h, d)'
        PROVE  LeftBehind(h)'
    <3>1. Ran(h, d) \/ (h = g /\ payload[g] = "attached" /\ handoff = d)
      BY <1>1, <1>4, <1>7, <2>4, FileTypes DEF Ran, Running, Tells
    <3> QED BY <1>1, <1>5, <2>4, <3>1 DEF OwnInv, RunsOwn
  <2>5. Running(h)' /\ took'[h] \in Calls => Own(h, took[h])'
    BY <1>2, <2>3 DEF Own
  <2> QED BY <2>1, <2>2, <2>4, <2>5
<1>11. \A d \in Calls : call'[d] = "ok" => answer'[d] \in Reports
  BY <1>1 DEF OwnInv, RunsOwn
<1> QED BY <1>8, <1>9, <1>10, <1>11 DEF RunsOwn

\* An ok is of the call that returns it: of a run on options for its game, in that game or
\* in one where a call left its payload behind.  It is so for any calls that take
\* turns, though one file beside the DLL passes on the options of all of them.
THEOREM OkIsOwn ==
  ASSUME OneAtATime
  PROVE  Spec => []OkIsOfTheCall
<1> DEFINE Inv == TypeOK /\ Counted /\ OwnInv
<1>1. Init => Inv
  BY InitTyped, OwnStarts
<1>2. ASSUME Inv, [Next]_vars PROVE Inv'
  <2>1. TypeOK' /\ Counted'
    BY <1>2, NextTyped
  <2>2. TurnsTaken'
    BY <1>2, TurnsStayTaken DEF OwnInv
  <2>3. \A g \in Games : LeftBehind(g) => LeftBehind(g)'
    BY <1>2, LeftIsLeft
  <2>4. CASE UNCHANGED vars
    <3>1. UNCHANGED <<status, call, answer, alive, payload, took>>
      BY <2>4 DEF vars
    <3>2. \A g \in Games : LeftBehind(g)' <=> LeftBehind(g)
      BY <3>1 DEF LeftBehind, Heard
    <3>3. /\ \A g \in Games, c \in Calls : Ran(g, c)' <=> Ran(g, c)
          /\ \A g \in Games, c \in Calls : Expects(c, g)' <=> Expects(c, g)
          /\ \A g \in Games : Running(g)' <=> Running(g)
      BY <3>1 DEF Ran, Expects, Polling, Running, Tells
    <3>4. \A text, g : IsOwn(text, g) => IsOwn(text, g)'
      BY <3>2 DEF IsOwn, Own, Reports, Report
    <3>5. /\ \A g \in Games : IsOwn(status[g], g)'
          /\ \A c \in Calls : IsOwn(answer[c], Target[c])'
      BY <1>2, <3>1, <3>4 DEF OwnInv, RunsOwn
    <3>6. \A g \in Games : Running(g)' /\ took'[g] \in Calls => Own(g, took[g])'
      BY <1>2, <3>1, <3>2, <3>3 DEF OwnInv, RunsOwn, Own
    <3>7. RunsOwn'
      BY <1>2, <3>1, <3>2, <3>3, <3>5, <3>6 DEF OwnInv, RunsOwn
    <3> QED BY <2>1, <2>2, <3>7 DEF OwnInv
  <2>5. CASE Next
    <3>1. ASSUME NEW c \in Calls, Begin(c) \/ CallStep(c) \/ LateLoad(c) \/ TimeOut(c)
          PROVE  RunsOwn'
      BY <1>2, <2>3, <3>1, CallsRunOwn, AnswersAreOwn DEF CallStep
    <3>2. ASSUME NEW g \in Games, PayloadStep(g) \/ Unload(g) \/ GameDies(g) PROVE RunsOwn'
      BY <1>2, <2>3, <3>2, PayloadsRunOwn
    <3> QED BY <2>1, <2>2, <2>5, <3>1, <3>2 DEF Next, OwnInv
  <2> QED BY <1>2, <2>4, <2>5
<1>3. Inv => OkIsOfTheCall
  <2> SUFFICES ASSUME Inv, NEW c \in Calls, call[c] = "ok"
               PROVE  /\ Target[answer[c].options] = Target[c]
                      /\ answer[c].from = Target[c] \/ LeftBehind(answer[c].from)
    BY DEF OkIsOfTheCall
  <2> QED BY DEF OwnInv, RunsOwn, IsOwn, Own
<1> HIDE DEF Inv
<1> QED BY <1>1, <1>2, <1>3, PTL DEF Spec
=============================================================================
