---------------------------- MODULE MicrorosSession ----------------------------
(***************************************************************************)
(* What components/microros_sync promises its two clients, the camera task *)
(* that hands it images and the reader of the "microros" registry entry:   *)
(* images are sent only over an open session, a session is closed only     *)
(* between images, and the entry goes through the lifecycle of README.md   *)
(* OFF -> DISCOVERING -> CONNECTED -> DISCONNECTED -> DISCOVERING ...      *)
(***************************************************************************)

VARIABLES
  state,    \* the registry entry
  open,     \* the session accepts images
  sending   \* an image is on its way

vars == <<state, open, sending>>

Init == state = "OFF" /\ ~open /\ ~sending

\* From OFF, after a failed attempt, or after a lost session.
Discover ==
  /\ state \in {"OFF", "DISCOVERING", "DISCONNECTED"} /\ ~open
  /\ state' = "DISCOVERING"
  /\ UNCHANGED <<open, sending>>

Open ==
  /\ state = "DISCOVERING" /\ ~open
  /\ open' = TRUE
  /\ UNCHANGED <<state, sending>>

Announce ==
  /\ state = "DISCOVERING" /\ open
  /\ state' = "CONNECTED"
  /\ UNCHANGED <<open, sending>>

Close ==
  /\ state = "CONNECTED" /\ open /\ ~sending
  /\ open' = FALSE
  /\ UNCHANGED <<state, sending>>

ReportLoss ==
  /\ state = "CONNECTED" /\ ~open
  /\ state' = "DISCONNECTED"
  /\ UNCHANGED <<open, sending>>

BeginImage ==
  /\ open /\ ~sending
  /\ sending' = TRUE
  /\ UNCHANGED <<state, open>>

EndImage ==
  /\ sending
  /\ sending' = FALSE
  /\ UNCHANGED <<state, open>>

Next == Discover \/ Open \/ Announce \/ Close \/ ReportLoss \/ BeginImage \/ EndImage

Spec == Init /\ [][Next]_vars
=============================================================================
