-------------------------- MODULE MCUploadSession --------------------------
(* The instances of UploadSession that TLC checks. *)
EXTENDS UploadSession, TLC

CONSTANTS r1, r2, f1, f2, stem1, stem2, l1, l2

OneDump  == (r1 :> f1) @@ (r2 :> f1)
TwoDumps == (r1 :> f1) @@ (r2 :> f2)
OneLabel  == (r1 :> l1) @@ (r2 :> l1)
TwoLabels == (r1 :> l1) @@ (r2 :> l2)
OwnStems1 == f1 :> stem1
OwnStems == (f1 :> stem1) @@ (f2 :> stem2)
SameStem == (f1 :> stem1) @@ (f2 :> stem1)
\* What is read of a dump while version 2 is written may come to the length of version 2.
Sizes == <<10, 11, 11, 5>>
TwoIds == 1 .. 2
FourIds == 1 .. 4
SixIds == 1 .. 6
=============================================================================
