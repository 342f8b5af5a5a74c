---------------------------- MODULE MCTokenCache ----------------------------
(* TokenCache for TLC: two processes, as model values, without symmetry,    *)
(* since the run checks liveness.                                           *)
EXTENDS TokenCache
=============================================================================
