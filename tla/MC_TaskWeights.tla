---------------------------- MODULE MC_TaskWeights ----------------------------
(***************************************************************************)
(* Instance of TaskWeights for TLC.                                        *)
(***************************************************************************)
EXTENDS TaskWeights

(* A weight set_weight rejects, and two it accepts. *)
MC_Weights == {-1, 0, 2}

====
