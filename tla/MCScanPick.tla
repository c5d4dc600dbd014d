------------------------------ MODULE MCScanPick ------------------------------
(* Four slots as in the code: a name, an empty slot, another name, and the    *)
(* first name again.                                                          *)
EXTENDS ScanPick

CONSTANTS home, work, other

MCCreds ==
  [i \in 0..3 |-> CASE i = 1 -> NoSsid [] i = 2 -> work [] OTHER -> home]
MCReadings == {-128, -90, -50}
=============================================================================
