---------------------------- MODULE MCStateMachine ----------------------------
(* The Wi-Fi entry: two tasks write it, app_main registers it and reads it.   *)
EXTENDS StateMachine

CONSTANTS manager, event, main, dump, wifi, off, connecting, connected

MCLength ==
  [s \in States |-> CASE s = off -> 3 [] s = connecting -> 10 [] OTHER -> 9]

CallOf(op, s) == [op |-> op, mod |-> wifi, new |-> s]

MCCalls ==
  [t \in Clients |->
    CASE t = manager -> {CallOf("changeState", s) : s \in {connecting, connected}}
      [] t = event -> {CallOf("changeState", connected)}
      [] t = main -> {CallOf("setInitial", off), CallOf("getState", off)}
      [] OTHER -> {CallOf("dump", off)}]
=============================================================================
