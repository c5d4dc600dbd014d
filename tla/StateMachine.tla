----------------------------- MODULE StateMachine -----------------------------
(***************************************************************************)
(* The registry of component states (state_machine.cpp) as its callers use *)
(* it from several tasks, network_manager.cpp:63 included, which copies    *)
(* the string that getState refers to after the mutex has been released.   *)
(*                                                                         *)
(* A std::string of at most 15 characters is assigned in place: memcpy     *)
(* moves the characters piece by piece, the length follows.  It is modelled *)
(* by three parts, the front and the back of the characters and the length, *)
(* each known by the state it was written for.  A copy reads the parts in   *)
(* an order the compiler chooses, and without the mutex they may come from  *)
(* before, after or amid an assignment.  The mutex and the map are          *)
(* external; a reference into an unordered_map outlives a rehash, so a      *)
(* registration does not disturb it.                                        *)
(***************************************************************************)
EXTENDS Naturals

CONSTANTS
  Modules, States, Clients,
  Dumper,      \* the client that is status_dump_task
  Calls,       \* client -> the calls it makes: [op, mod, new]
  Length,      \* state -> number of characters of its name
  Absent, Torn, None

Ops == {"setInitial", "changeState", "getState", "dump"}
CallRecord == [op : Ops, mod : Modules, new : States]
Parts == {"front", "back", "length"}

ASSUME StateMachineAssumption ==
  /\ Absent \notin States /\ Torn \notin States \cup {Absent}
  /\ None \notin Clients \cup States \cup {Absent} /\ Absent \notin Modules
  /\ Calls \in [Clients -> SUBSET CallRecord]
  /\ None \notin CallRecord
  \* Two states may have names of one length, as "capturing" and "streaming" of
  \* camera_control.hpp and "starting" and "shutdown" of state_machine_lifecycle.hpp.
  /\ Length \in [States -> Nat]

VARIABLES
  running,  \* task_running_
  owner,    \* who holds mutex_
  pc,       \* per client: where it is in its call
  call,     \* per client: the call
  present,  \* the modules in the map
  text,     \* module -> the parts of its string
  value,    \* history, module -> the state last assigned to the end, or Absent
  copy,     \* per reader: the parts it has copied
  seen,     \* history, per reader: states the entry had, or was being given, since
            \* the call began
  torn,     \* history, per reader: has an assignment overlapped the call?
  result    \* per reader: its last copy

entryVars == <<present, text, value>>
readVars  == <<copy, seen, torn, result>>
vars == <<running, owner, pc, call, entryVars, readVars>>

Of(s) == [part \in Parts |-> s]

TypeOK ==
  /\ running \in BOOLEAN
  /\ owner \in Clients \cup {None}
  /\ pc \in [Clients -> {"idle", "lock", "body", "back", "length", "log", "unlock", "copy"}]
  /\ call \in [Clients -> CallRecord \cup {None}]
  /\ present \subseteq Modules
  /\ text \in [Modules -> [Parts -> States \cup {None}]]
  /\ value \in [Modules -> States \cup {Absent}]
  /\ copy \in [Clients -> [Parts -> States \cup {None, Absent}]]
  /\ seen \in [Clients -> SUBSET (States \cup {Absent})]
  /\ torn \in [Clients -> BOOLEAN]
  /\ result \in [Clients -> States \cup {Absent, Torn}]

Init ==
  /\ running = FALSE /\ owner = None
  /\ pc = [t \in Clients |-> "idle"]
  /\ call = [t \in Clients |-> None]
  /\ present = {}
  /\ text = [m \in Modules |-> Of(None)] /\ value = [m \in Modules |-> Absent]
  /\ copy = [t \in Clients |-> Of(None)]
  /\ seen = [t \in Clients |-> {}]
  /\ torn = [t \in Clients |-> FALSE]
  /\ result = [t \in Clients |-> Absent]

Goto(t, l) == pc' = [pc EXCEPT ![t] = l]
Hangup(t) == Goto(t, "idle") /\ call' = [call EXCEPT ![t] = None]
Op(t, op) == call[t] # None /\ call[t].op = op
Reading(t) == Op(t, "getState")

\* The readers of m see s from now on (history).
Show(m, s) ==
  seen' = [t \in Clients |-> IF Reading(t) /\ call[t].mod = m THEN seen[t] \cup {s} ELSE seen[t]]

\* The assignments under way, and the state one of them is giving to m.
Assigners == {t \in Clients : pc[t] \in {"back", "length"}}
writing   == {<<call[t].mod, call[t].new>> : t \in Assigners}
Coming(m) == {s \in States : <<m, s>> \in writing}

\* What the parts of a string may read as: the state they all belong to; otherwise a
\* string that is no state, or one of their states, where the others' names agree in
\* what it lacks.  No mixture of names of a component's states spells one that has no
\* part in it: each name has a character that none of the others has in its place.
TextsOf(c) ==
  CASE c["front"] = Absent -> {Absent}
    [] c["front"] \in States /\ c["back"] = c["front"] /\ c["length"] \in States
         /\ Length[c["length"]] = Length[c["front"]] -> {c["front"]}
    [] OTHER -> {Torn} \cup {c[part] : part \in Parts}

-----------------------------------------------------------------------------

\* StateMachine::init: the second call returns early.
StartDump ==
  /\ ~running
  /\ running' = TRUE
  /\ UNCHANGED <<owner, pc, call, entryVars, readVars>>

Call(t) ==
  /\ pc[t] = "idle"
  /\ t = Dumper => running
  /\ \E c \in Calls[t] :
       /\ call' = [call EXCEPT ![t] = c]
       /\ IF c.op = "getState"
            THEN /\ seen' = [seen EXCEPT ![t] = {value[c.mod]} \cup Coming(c.mod)]
                 /\ torn' = [torn EXCEPT ![t] = Coming(c.mod) # {}]
            ELSE UNCHANGED <<seen, torn>>
  /\ Goto(t, "lock")
  /\ UNCHANGED <<running, owner, entryVars, copy, result>>

\* Mutant of Lock: there is no mutex.
LockNothing(t) ==
  /\ pc[t] = "lock"
  /\ owner' = t
  /\ Goto(t, "body")
  /\ UNCHANGED <<running, call, entryVars, readVars>>

Lock(t) ==
  /\ pc[t] = "lock" /\ owner = None
  /\ owner' = t
  /\ Goto(t, "body")
  /\ UNCHANGED <<running, call, entryVars, readVars>>

\* The call is over but for the destructor of the lock_guard.
Finish(t) ==
  /\ Goto(t, "unlock")
  /\ UNCHANGED <<running, owner, call, entryVars, readVars>>

SetInitial(t) ==
  /\ pc[t] = "body" /\ Op(t, "setInitial") /\ call[t].mod \notin present
  /\ LET m == call[t].mod  s == call[t].new IN
       /\ present' = present \cup {m}
       /\ text' = [text EXCEPT ![m] = Of(s)] /\ value' = [value EXCEPT ![m] = s]
       /\ Show(m, s)
  /\ Goto(t, "unlock")
  /\ UNCHANGED <<running, owner, call, copy, torn, result>>

SetInitialExists(t) ==
  /\ pc[t] = "body" /\ Op(t, "setInitial") /\ call[t].mod \in present
  /\ Finish(t)

\* Not found, or already in that state.
ChangeNothing(t) ==
  /\ pc[t] = "body" /\ Op(t, "changeState")
  /\ call[t].mod \in present => TextsOf(text[call[t].mod]) = {call[t].new}
  /\ Finish(t)

Write(t, part) == text' = [text EXCEPT ![call[t].mod][part] = call[t].new]

\* From here on a reader may meet the new state.
ChangeFront(t) ==
  /\ pc[t] = "body" /\ Op(t, "changeState")
  /\ call[t].mod \in present /\ TextsOf(text[call[t].mod]) # {call[t].new}
  /\ Write(t, "front")
  /\ Show(call[t].mod, call[t].new)
  /\ torn' = [u \in Clients |-> torn[u] \/ (Reading(u) /\ call[u].mod = call[t].mod)]
  /\ Goto(t, "back")
  /\ UNCHANGED <<running, owner, call, present, value, copy, result>>

ChangeBack(t) ==
  /\ pc[t] = "back"
  /\ Write(t, "back")
  /\ Goto(t, "length")
  /\ UNCHANGED <<running, owner, call, present, value, readVars>>

ChangeLength(t) ==
  /\ pc[t] = "length"
  /\ Write(t, "length")
  /\ value' = [value EXCEPT ![call[t].mod] = call[t].new]
  /\ Goto(t, "log")
  /\ UNCHANGED <<running, owner, call, present, readVars>>

\* The transition is written to the UART with the mutex held.
ChangeLog(t) ==
  /\ pc[t] = "log"
  /\ Goto(t, "unlock")
  /\ UNCHANGED <<running, owner, call, entryVars, readVars>>

\* getState finds the entry and returns a reference to it, or to the static
\* empty string, which nobody ever writes.
GetFound(t) ==
  /\ pc[t] = "body" /\ Op(t, "getState") /\ call[t].mod \in present
  /\ Finish(t)

GetNotFound(t) ==
  /\ pc[t] = "body" /\ Op(t, "getState") /\ call[t].mod \notin present
  /\ copy' = [copy EXCEPT ![t] = Of(Absent)]
  /\ Goto(t, "unlock")
  /\ UNCHANGED <<running, owner, call, entryVars, seen, torn, result>>

\* Mutant of Dump: the UART's buffer stays full, and the dump waits for it.
DumpBlocks(t) ==
  /\ pc[t] = "body" /\ Op(t, "dump")
  /\ UNCHANGED vars

\* dumpAllStates writes every entry to the UART with the mutex held.
Dump(t) ==
  /\ pc[t] = "body" /\ Op(t, "dump")
  /\ Finish(t)

Unlock(t) ==
  /\ pc[t] = "unlock"
  /\ owner' = None
  /\ IF Op(t, "getState") THEN Goto(t, "copy") /\ UNCHANGED call ELSE Hangup(t)
  /\ UNCHANGED <<running, entryVars, readVars>>

\* network_manager.cpp:63: std::string wifi_state = getState(...).
CopyPart(t) ==
  /\ pc[t] = "copy"
  /\ \E part \in Parts : /\ copy[t][part] = None
                         /\ copy' = [copy EXCEPT ![t][part] = text[call[t].mod][part]]
  /\ UNCHANGED <<running, owner, pc, call, entryVars, seen, torn, result>>

Answer(t) ==
  /\ pc[t] = "copy" /\ \A part \in Parts : copy[t][part] # None
  /\ \E answer \in TextsOf(copy[t]) : result' = [result EXCEPT ![t] = answer]
  /\ seen' = [seen EXCEPT ![t] = {}] /\ torn' = [torn EXCEPT ![t] = FALSE]
  /\ Hangup(t)
  /\ UNCHANGED <<running, owner, entryVars>>

\* Mutant of Return: the copy is kept and answers the next call, too.
ReturnKeepsCopy(t) == Answer(t) /\ UNCHANGED copy

Return(t) == Answer(t) /\ copy' = [copy EXCEPT ![t] = Of(None)]

\* The steps of a call after it has got the mutex.
Step(t) ==
  \/ SetInitial(t) \/ SetInitialExists(t)
  \/ ChangeNothing(t) \/ ChangeFront(t) \/ ChangeBack(t) \/ ChangeLength(t) \/ ChangeLog(t)
  \/ GetFound(t) \/ GetNotFound(t) \/ Dump(t)
  \/ Unlock(t)
  \/ CopyPart(t) \/ Return(t)

Next == StartDump \/ \E t \in Clients : Call(t) \/ Lock(t) \/ Step(t)

Spec == Init /\ [][Next]_vars

\* Every task gets to run, and a task that waits for the mutex gets it in the
\* end: FreeRTOS hands it to the waiter of the highest priority, and no task
\* calls the registry in a loop without blocking.
FairSpec == Spec /\ \A t \in Clients : SF_vars(Lock(t)) /\ WF_vars(Step(t))

-----------------------------------------------------------------------------
(* Properties *)

\* The critical sections (lock_guard in every function): who is inside holds
\* the mutex, and between them every string is whole, whatever two writers of
\* the same entry do (the manager task and the event task).
Inside == {"body", "back", "length", "log", "unlock"}

EntriesWhole ==
  /\ \A t \in Clients : pc[t] \in Inside <=> owner = t
  /\ \A m \in present : Coming(m) = {} => text[m] = Of(value[m])

\* getState hands out a reference that is read after the unlock: the registry still
\* implements a regular register, for all its entries, those included whose states
\* have names of one length.
reading == [t \in Clients |-> IF Reading(t) THEN call[t].mod ELSE Absent]
Register == INSTANCE StateRegister
RegisterSpec == Register!Spec

\* Every call ends, although the dump holds the mutex while it writes to the
\* UART: no event handler is stuck in changeState.
CallsReturn == \A t \in Clients : pc[t] = "lock" ~> pc[t] = "idle"
=============================================================================
