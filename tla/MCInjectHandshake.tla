------------------------- MODULE MCInjectHandshake -------------------------
(* The instances of InjectHandshake that TLC checks. *)
EXTENDS InjectHandshake, TLC

CONSTANTS c1, c2, c3, g1, g2

OneGame    == c1 :> g1
\* A call into each game, and a quiet one into the second.
ThreeCalls == (c1 :> g1) @@ (c2 :> g2) @@ (c3 :> g2)
=============================================================================
