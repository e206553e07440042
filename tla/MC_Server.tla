----------------------------- MODULE MC_Server ------------------------------
(***************************************************************************)
(* Instance of Server for TLC, with three workers as model values.  The   *)
(* run checks a liveness property, so it uses no worker symmetry.          *)
(***************************************************************************)
EXTENDS Server

CONSTANTS w1, w2, w3

MC_Workers == {w1, w2, w3}
MC_SchedAlgs == {BLOCK, DROP_TAIL, DROP_HEAD, DROP_RANDOM}

====
