--------------------------- MODULE ResumePromise ---------------------------
(***************************************************************************)
(* What auto-resume promises about a game whose runtime faults on some of  *)
(* its own types: each death teaches the payload about at most one more    *)
(* key, only keys the runtime really faults on are ever learned, nothing   *)
(* learned is forgotten, and a walk comes back only once every place it    *)
(* would fault at is covered by a learned or a hand-written key.           *)
(***************************************************************************)
CONSTANTS Procs,     \* the game processes the payload is injected into
          Learnable, \* the keys the runtime faults on
          Scenarios, \* what a walk may meet: for every place the runtime would
                     \* fault, the set of the keys that get past it
          ByHand     \* the keys of the hand-written skip list

VARIABLES learned,  \* the keys of <Game>.unreadable
          finished  \* the processes whose walk has come back

vars == <<learned, finished>>

Covered(keys) == \E s \in Scenarios : \A place \in s : place \cap keys # {}

Init == /\ learned = {}
        /\ finished = {}

Learn == /\ \E k \in Learnable \ learned : learned' = learned \cup {k}
         /\ UNCHANGED finished

Finish == /\ Covered(learned \cup ByHand)
          /\ \E p \in Procs \ finished : finished' = finished \cup {p}
          /\ UNCHANGED learned

Relaunch == /\ \E p \in finished : finished' = finished \ {p}
            /\ UNCHANGED learned

Next == Learn \/ Finish \/ Relaunch

Spec == Init /\ [][Next]_vars
=============================================================================
