----------------------------- MODULE StateRegister -----------------------------
(***************************************************************************)
(* What the registry of component states promises its readers: a regular   *)
(* register per component.  A read that no change overlaps returns the     *)
(* state.  A read that overlaps changes may return the state before or     *)
(* after any of them, or a string that is no state at all; but a state it  *)
(* returns is one the component had, or was being given, while the read    *)
(* was going on.                                                           *)
(***************************************************************************)
CONSTANTS
  Modules,  \* the components
  States,   \* names of states
  Clients,  \* the tasks
  Absent,   \* the answer for a component that is not registered
  Torn      \* an answer that is no state

VARIABLES
  value,    \* the state of each component
  writing,  \* the changes under way: <<component, its new state>>
  reading,  \* per client: the component it reads, or Absent
  seen,     \* per client: the states that component had, or was being given, since
            \* the read began
  torn,     \* per client: has a change overlapped its read?
  result    \* per client: its last answer

vars == <<value, writing, reading, seen, torn, result>>

Init ==
  /\ value = [m \in Modules |-> Absent]
  /\ writing = {}
  /\ reading = [t \in Clients |-> Absent]
  /\ seen = [t \in Clients |-> {}]
  /\ torn = [t \in Clients |-> FALSE]
  /\ result = [t \in Clients |-> Absent]

Coming(m) == {s \in States : <<m, s>> \in writing}

\* The reads of m under way may return s from now on.
Shows(m, s) ==
  seen' = [t \in Clients |-> IF reading[t] = m THEN seen[t] \cup {s} ELSE seen[t]]

\* A component enters the registry at once.
Register(m, s) ==
  /\ value[m] = Absent
  /\ value' = [value EXCEPT ![m] = s]
  /\ Shows(m, s)
  /\ UNCHANGED <<writing, reading, torn, result>>

BeginChange(m, s) ==
  /\ value[m] # Absent /\ Coming(m) = {}
  /\ writing' = writing \cup {<<m, s>>}
  /\ Shows(m, s)
  /\ torn' = [t \in Clients |-> torn[t] \/ reading[t] = m]
  /\ UNCHANGED <<value, reading, result>>

EndChange(m, s) ==
  /\ <<m, s>> \in writing
  /\ writing' = writing \ {<<m, s>>}
  /\ value' = [value EXCEPT ![m] = s]
  /\ UNCHANGED <<reading, seen, torn, result>>

BeginRead(t, m) ==
  /\ reading[t] = Absent
  /\ reading' = [reading EXCEPT ![t] = m]
  /\ seen' = [seen EXCEPT ![t] = {value[m]} \cup Coming(m)]
  /\ torn' = [torn EXCEPT ![t] = Coming(m) # {}]
  /\ UNCHANGED <<value, writing, result>>

Answers(t) == seen[t] \cup IF torn[t] THEN {Torn} ELSE {}

EndRead(t) ==
  /\ reading[t] # Absent
  /\ \E answer \in Answers(t) : result' = [result EXCEPT ![t] = answer]
  /\ reading' = [reading EXCEPT ![t] = Absent]
  /\ seen' = [seen EXCEPT ![t] = {}]
  /\ torn' = [torn EXCEPT ![t] = FALSE]
  /\ UNCHANGED <<value, writing>>

Next ==
  \/ \E m \in Modules, s \in States : Register(m, s) \/ BeginChange(m, s) \/ EndChange(m, s)
  \/ \E t \in Clients, m \in Modules : BeginRead(t, m)
  \/ \E t \in Clients : EndRead(t)

Spec == Init /\ [][Next]_vars
=============================================================================
