---------------------------- MODULE MCFramePipeline ----------------------------
(* Two clients are enough for one to wait while the other is served. *)
EXTENDS FramePipeline
=============================================================================
