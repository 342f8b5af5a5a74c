------------------------------ MODULE MCToggle ------------------------------
(* Small instances of Toggle for TLC. *)
EXTENDS Toggle

CONSTANTS o1, o2, o3, k1, k2

ThreeOps == {o1, o2, o3}

\* Three calls: pause, pause, resume.
PausePauseResume == [o \in ThreeOps |-> IF o = o3 THEN "ENABLED" ELSE "DISABLED"]

\* The resume on a Client of its own, the pauses share one.
TwoClients == [o \in ThreeOps |-> IF o = o3 THEN k1 ELSE k2]
=============================================================================
