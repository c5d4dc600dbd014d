---------------------------- MODULE MCMicrorosSync ----------------------------
(* Image lengths for TLC: equal, growing and shrinking images all occur. *)
EXTENDS MicrorosSync

MCSizes == {1, 2, 3}
=============================================================================
