-------------------------- MODULE MCLiveScheduler --------------------------
(* Two streams of two frames: a frame replaced in the slot, a result that  *)
(* outlives its stream, and observations pending when the stop comes.      *)
EXTENDS LiveScheduler
=============================================================================
