--------------------------- MODULE MCCrashResume ---------------------------
(* The instances of CrashResume that TLC checks. *)
EXTENDS CrashResume

CONSTANTS p1, p2, t1, t2, t3, g1, g2

\* t1 cannot be named, t2 can be named but not read, t3 is fine; the class cache
\* has the readable t3, the unnameable t1, and two instantiations of which g1
\* cannot be read.
MCDeclared == <<t1, t2, t3>>
MCCache    == <<t3, g1, t1, g2>>
OneOrder   == {MCCache}

ByHandPath == {PathKey(g2)}

\* By slot, which the sweep then meets a second time.
ByHandSlot == {SlotKey(3)}
Nothing == {}
=============================================================================
