--------------------------- MODULE MCCameraControl ---------------------------
(* Two names for tasks: one would hide a second task beside a forgotten one. *)
EXTENDS CameraControl
=============================================================================
