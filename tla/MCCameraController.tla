------------------------- MODULE MCCameraController -------------------------
(* Two callers of stop() for the races, one retry, one warmup frame, two   *)
(* epochs and two frames per epoch: enough for a reconnection after a      *)
(* stable stream, an exhausted retry budget and every exhausted counter.   *)
EXTENDS CameraController

CONSTANTS s1, s2
OneStopper == {s1}
TwoStoppers == {s1, s2}
=============================================================================
