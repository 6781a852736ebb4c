--------------------------- MODULE MCCameraWorker ---------------------------
(* Instance of CameraWorker for TLC. *)
EXTENDS CameraWorker
=============================================================================
