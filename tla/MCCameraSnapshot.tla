-------------------------- MODULE MCCameraSnapshot --------------------------
(* Two callers and four captures: one that leaves something behind, one    *)
(* that finds it, one that may recover, and one that overlaps another.     *)
EXTENDS CameraSnapshot

CONSTANTS c1, c2
MCCallers == {c1, c2}
=============================================================================
