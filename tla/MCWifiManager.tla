---------------------------- MODULE MCWifiManager ----------------------------
(* The values of the constants for TLC. *)
EXTENDS WifiManager, TLC

MCReadings == {-60, -80, -90}   \* good, weak, critical
MCWarn     == -75
MCCritical == -85

\* The networks are interchangeable, which the safety runs may use.
Symmetry == Permutations(Creds)
=============================================================================
