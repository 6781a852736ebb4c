------------------------ MODULE MCObservationWriter ------------------------
(* Two callers of stop(), a queue of two items and three bytes, and sizes  *)
(* that fit, that fill the byte limit early, and that can never fit.       *)
EXTENDS ObservationWriter

CONSTANTS s1, s2
MCStoppers == {s1, s2}
MCSizes == {1, 2, 4}
=============================================================================
