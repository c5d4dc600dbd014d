-------------------------------- MODULE MCBoot --------------------------------
(* Two of the five routes: the rest are registered in the same way.           *)
EXTENDS Boot
=============================================================================
