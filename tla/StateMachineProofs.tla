-------------------------- MODULE StateMachineProofs --------------------------
(* Proofs about StateMachine: the strings are whole between critical          *)
(* sections, and the registry implements the regular register.  Nothing is    *)
(* assumed of the names of the states but that each has a length.             *)
EXTENDS StateMachine, TLAPS

\* Who is inside holds the mutex.
MutexHeld == \A t \in Clients : pc[t] \in Inside <=> owner = t

\* What a call is where, and how much of its state it has written.
CallInPlace(t) ==
  /\ pc[t] # "idle" <=> call[t] # None
  /\ pc[t] \in {"back", "length", "log"} => Op(t, "changeState") /\ call[t].mod \in present
  /\ pc[t] \in {"back", "length"} => text[call[t].mod]["front"] = call[t].new
  /\ pc[t] = "length" => text[call[t].mod]["back"] = call[t].new
  /\ pc[t] = "copy" => Reading(t)

\* Every part of a string was written for the state it had or for the one it is given.
EntryInv(m) ==
  /\ m \in present <=> value[m] # Absent
  /\ m \in present => \A part \in Parts : text[m][part] \in {value[m]} \cup Coming(m)
  /\ m \notin present => text[m] = Of(None)

\* A reader has seen all that its entry can show, and copied only what it has seen;
\* if no assignment overlapped its call, the entry as it is, or the empty string.
CopyInv(t) ==
  /\ ~Reading(t) => copy[t] = Of(None) /\ seen[t] = {}
  /\ Reading(t) => {value[call[t].mod]} \cup Coming(call[t].mod) \subseteq seen[t]
  /\ \A part \in Parts : copy[t][part] \in seen[t] \cup {None}
  /\ Reading(t) /\ ~torn[t] =>
       /\ Coming(call[t].mod) = {}
       /\ \/ copy[t] = Of(Absent)
          \/ \A part \in Parts : copy[t][part] \in {None, value[call[t].mod]} \ {Absent}

RegistryInv ==
  /\ TypeOK
  /\ MutexHeld
  /\ \A t \in Clients : CallInPlace(t)
  /\ \A m \in Modules : EntryInv(m)
  /\ \A t \in Clients : CopyInv(t)

-----------------------------------------------------------------------------
(* Strings and assignments *)

LEMMA OfPart == \A s : \A part \in Parts : Of(s)[part] = s
BY DEF Of

LEMMA OfTyped ==
  ASSUME NEW S, NEW s \in S
  PROVE  Of(s) \in [Parts -> S]
BY DEF Of

\* Writing one part of a string.
LEMMA PartWritten ==
  ASSUME NEW D, NEW S, NEW f \in [D -> [Parts -> S]], NEW d \in D, NEW part \in Parts,
         NEW s \in S, NEW g, g = [f EXCEPT ![d][part] = s]
  PROVE  /\ g \in [D -> [Parts -> S]]
         /\ g[d][part] = s
         /\ \A q \in Parts : q # part => g[d][q] = f[d][q]
         /\ \A e \in D : e # d => g[e] = f[e]
OBVIOUS

\* The parts in the text of a call.
LEMMA CallTyped ==
  ASSUME RegistryInv, NEW t \in Clients, call[t] # None
  PROVE  call[t].mod \in Modules /\ call[t].new \in States /\ call[t] \in CallRecord
BY DEF RegistryInv, TypeOK, CallRecord

\* Nobody enters or leaves an assignment.
LEMMA WritingStands ==
  ASSUME \A u \in Clients : /\ pc'[u] \in {"back", "length"} <=> pc[u] \in {"back", "length"}
                            /\ pc[u] \in {"back", "length"} => call'[u] = call[u]
  PROVE  writing' = writing /\ \A m : Coming(m)' = Coming(m)
<1>1. Assigners' = Assigners
  BY DEF Assigners
<1>2. writing' = writing
  BY <1>1 DEF writing, Assigners
<1> QED BY <1>2 DEF Coming

\* Who is inside is the only one who can be assigning.
LEMMA OnlyAssigner ==
  ASSUME RegistryInv, NEW t \in Clients, pc[t] \in Inside
  PROVE  /\ \A u \in Clients : pc[u] \in {"back", "length"} => u = t
         /\ writing = IF pc[t] \in {"back", "length"}
                        THEN {<<call[t].mod, call[t].new>>} ELSE {}
<1>1. \A u \in Clients : pc[u] \in {"back", "length"} => u = t
  BY DEF RegistryInv, MutexHeld, Inside
<1> QED BY <1>1 DEF writing, Assigners

\* The mutex after t has gone to a place inside, or to another inside.
LEMMA MutexStands ==
  ASSUME RegistryInv, NEW t \in Clients, owner' = owner, NEW l, pc' = [pc EXCEPT ![t] = l],
         pc[t] \in Inside <=> l \in Inside
  PROVE  MutexHeld'
BY DEF RegistryInv, TypeOK, MutexHeld

-----------------------------------------------------------------------------
(* What the steps of one client leave of the others *)

LEMMA EntriesStand ==
  ASSUME RegistryInv, UNCHANGED <<present, text, value>>, \A m : Coming(m)' = Coming(m)
  PROVE  \A m \in Modules : EntryInv(m)'
<1>1. ASSUME NEW m \in Modules PROVE EntryInv(m)'
  <2>1. EntryInv(m) /\ Coming(m)' = Coming(m)
    BY DEF RegistryInv
  <2> QED BY <2>1 DEF EntryInv
<1> QED BY <1>1

LEMMA PlacesStand ==
  ASSUME RegistryInv, NEW t \in Clients, present \subseteq present',
         \A u \in Clients \ {t} : pc'[u] = pc[u] /\ call'[u] = call[u],
         text' = text \/ pc[t] \in Inside
  PROVE  \A u \in Clients \ {t} : CallInPlace(u)'
<1>1. ASSUME NEW u \in Clients \ {t} PROVE CallInPlace(u)'
  <2>1. CallInPlace(u)
    BY DEF RegistryInv
  <2>2. pc[u] \in {"back", "length"} => text' = text
    BY OnlyAssigner
  <2> QED BY <2>1, <2>2 DEF CallInPlace, Reading, Op
<1> QED BY <1>1

\* A reader whose entry keeps its state, or is registered, and that sees what comes.
LEMMA ReaderStands ==
  ASSUME NEW u \in Clients, CopyInv(u), call'[u] = call[u], copy'[u] = copy[u],
         seen[u] \subseteq seen'[u], ~Reading(u) => seen'[u] = {},
         NEW m, m = call[u].mod,
         Reading(u) => {value'[m]} \cup Coming(m)' \subseteq seen'[u],
         Reading(u) /\ ~torn'[u] => /\ ~torn[u] /\ Coming(m)' = {}
                                    /\ value'[m] = value[m] \/ value[m] = Absent
  PROVE  CopyInv(u)'
<1>1. (Reading(u)' <=> Reading(u)) /\ call'[u].mod = m
  BY DEF Reading, Op
<1>2. Coming(call[u].mod)' = Coming(m)' /\ Coming(call[u].mod) = Coming(m)
  BY <1>1 DEF Coming
<1>3. \A part \in Parts : copy'[u][part] \in seen'[u] \cup {None}
  BY DEF CopyInv
<1>4. Reading(u) => {value'[m]} \cup Coming(m)' \subseteq seen'[u]
  OBVIOUS
<1>5. ASSUME Reading(u), ~torn'[u]
      PROVE  \/ copy[u] = Of(Absent)
             \/ \A part \in Parts : copy[u][part] \in {None, value'[m]} \ {Absent}
  BY <1>5 DEF CopyInv
<1> QED BY <1>1, <1>2, <1>3, <1>4, <1>5 DEF CopyInv

LEMMA ReadersStand ==
  ASSUME RegistryInv, NEW t \in Clients, value' = value, \A m : Coming(m)' = Coming(m),
         \A u \in Clients \ {t} : /\ call'[u] = call[u] /\ copy'[u] = copy[u]
                                  /\ seen'[u] = seen[u] /\ torn'[u] = torn[u]
  PROVE  \A u \in Clients \ {t} : CopyInv(u)'
<1>1. ASSUME NEW u \in Clients \ {t} PROVE CopyInv(u)'
  <2>1. CopyInv(u)
    BY DEF RegistryInv
  <2>2. PICK m : m = call[u].mod
    OBVIOUS
  <2>3. Coming(m)' = Coming(m) /\ Coming(call[u].mod) = Coming(m)
    BY <2>2
  <2> QED BY <2>1, <2>2, <2>3, ReaderStands DEF CopyInv
<1> QED BY <1>1

\* A client moves on, and nothing else happens.
LEMMA MoveKeeps ==
  ASSUME RegistryInv, NEW t \in Clients,
         NEW l \in {"body", "unlock", "copy"}, pc' = [pc EXCEPT ![t] = l],
         pc[t] \in {"lock", "body", "log", "unlock"},
         UNCHANGED <<running, call, entryVars, readVars>>,
         owner' \in Clients \cup {None}, MutexHeld', l = "copy" => Reading(t)
  PROVE  RegistryInv'
<1> USE DEF entryVars, readVars
<1>1. \A u \in Clients : pc'[u] = IF u = t THEN l ELSE pc[u]
  BY DEF RegistryInv, TypeOK
<1>2. writing' = writing /\ \A m : Coming(m)' = Coming(m)
  BY <1>1, WritingStands
<1>3. TypeOK'
  BY DEF RegistryInv, TypeOK
<1>4. \A u \in Clients : CallInPlace(u)'
  <2>1. \A u \in Clients \ {t} : CallInPlace(u)'
    BY <1>1, PlacesStand
  <2>2. CallInPlace(t)'
    BY <1>1 DEF RegistryInv, CallInPlace, Reading, Op
  <2> QED BY <2>1, <2>2
<1>5. \A m \in Modules : EntryInv(m)'
  BY <1>2, EntriesStand
<1>6. \A u \in Clients : CopyInv(u)'
  <2>1. \A u \in Clients \ {t} : CopyInv(u)'
    BY <1>2, ReadersStand
  <2>2. CopyInv(t)'
    <3>1. CopyInv(t)
      BY DEF RegistryInv
    <3>2. PICK m : m = call[t].mod
      OBVIOUS
    <3>3. Coming(m)' = Coming(m) /\ Coming(call[t].mod) = Coming(m)
      BY <1>2, <3>2
    <3> QED BY <3>1, <3>2, <3>3, ReaderStands DEF CopyInv
  <2> QED BY <2>1, <2>2
<1> QED BY <1>3, <1>4, <1>5, <1>6 DEF RegistryInv

-----------------------------------------------------------------------------
(* Every step preserves the invariant *)

LEMMA InitInv == Init => RegistryInv
<1> SUFFICES ASSUME Init PROVE RegistryInv
  OBVIOUS
<1> USE StateMachineAssumption DEF Init
<1>0. Of(None) \in [Parts -> States \cup {None}] /\ Of(None) \in [Parts -> States \cup {None, Absent}]
  BY OfTyped
<1>1. TypeOK
  BY <1>0 DEF TypeOK
<1>2. MutexHeld /\ \A t \in Clients : CallInPlace(t)
  BY DEF MutexHeld, CallInPlace, Inside
<1>3. \A m \in Modules : EntryInv(m)
  BY DEF EntryInv
<1>4. \A t \in Clients : CopyInv(t)
  BY OfPart DEF CopyInv, Reading, Op
<1> QED BY <1>1, <1>2, <1>3, <1>4 DEF RegistryInv

LEMMA StartKeeps == RegistryInv /\ StartDump => RegistryInv'
<1> SUFFICES ASSUME RegistryInv, StartDump PROVE RegistryInv'
  OBVIOUS
<1> USE DEF StartDump, entryVars, readVars
<1>1. TypeOK' /\ MutexHeld'
  BY DEF RegistryInv, TypeOK, MutexHeld
<1>2. writing' = writing /\ \A m : Coming(m)' = Coming(m)
  BY WritingStands
<1>3. \A m \in Modules : EntryInv(m)'
  BY <1>2, EntriesStand
<1>4. ASSUME NEW t \in Clients PROVE CallInPlace(t)' /\ CopyInv(t)'
  <2>1. CallInPlace(t) /\ CopyInv(t)
    BY DEF RegistryInv
  <2>2. CallInPlace(t)'
    BY <2>1 DEF CallInPlace, Reading, Op
  <2>3. PICK m : m = call[t].mod
    OBVIOUS
  <2>4. Coming(m)' = Coming(m) /\ Coming(call[t].mod) = Coming(m)
    BY <1>2, <2>3
  <2> QED BY <2>1, <2>2, <2>3, <2>4, ReaderStands DEF CopyInv
<1> QED BY <1>1, <1>3, <1>4 DEF RegistryInv

LEMMA CallKeeps ==
  ASSUME RegistryInv, NEW t \in Clients, Call(t)
  PROVE  RegistryInv'
<1> USE StateMachineAssumption
<1>1. PICK c \in Calls[t] :
        /\ call' = [call EXCEPT ![t] = c]
        /\ seen' = IF c.op = "getState"
                     THEN [seen EXCEPT ![t] = {value[c.mod]} \cup Coming(c.mod)] ELSE seen
        /\ torn' = IF c.op = "getState" THEN [torn EXCEPT ![t] = Coming(c.mod) # {}] ELSE torn
  BY DEF Call
<1>2. c \in CallRecord
  OBVIOUS
<1>3. c # None /\ c.mod \in Modules
  BY <1>2 DEF CallRecord
<1>4. /\ pc[t] = "idle" /\ pc' = [pc EXCEPT ![t] = "lock"]
      /\ UNCHANGED <<running, owner, present, text, value, copy, result>>
  BY DEF Call, Goto, entryVars
<1>5. call[t] = None
  BY <1>4 DEF RegistryInv, CallInPlace
<1>6. TypeOK'
  <2>1. call' \in [Clients -> CallRecord \cup {None}]
    BY <1>1, <1>2 DEF RegistryInv, TypeOK
  <2>2. {value[c.mod]} \cup Coming(c.mod) \subseteq States \cup {Absent}
    BY <1>3 DEF RegistryInv, TypeOK, Coming
  <2>3. seen' \in [Clients -> SUBSET (States \cup {Absent})]
    BY <1>1, <2>2 DEF RegistryInv, TypeOK
  <2>4. torn' \in [Clients -> BOOLEAN]
    BY <1>1 DEF RegistryInv, TypeOK
  <2> QED BY <1>4, <2>1, <2>3, <2>4 DEF RegistryInv, TypeOK
<1>7. MutexHeld'
  BY <1>4, MutexStands DEF Inside
<1>8. \A u \in Clients : pc'[u] = (IF u = t THEN "lock" ELSE pc[u])
                         /\ call'[u] = (IF u = t THEN c ELSE call[u])
  BY <1>1, <1>4 DEF RegistryInv, TypeOK
<1>9. writing' = writing /\ \A m : Coming(m)' = Coming(m)
  BY <1>4, <1>8, WritingStands
<1>10. \A u \in Clients : CallInPlace(u)'
  <2>1. \A u \in Clients \ {t} : CallInPlace(u)'
    BY <1>4, <1>8, PlacesStand
  <2>2. CallInPlace(t)'
    BY <1>3, <1>8 DEF CallInPlace
  <2> QED BY <2>1, <2>2
<1>11. \A m \in Modules : EntryInv(m)'
  BY <1>4, <1>9, EntriesStand
<1>12. \A u \in Clients : CopyInv(u)'
  <2>1. \A u \in Clients \ {t} : seen'[u] = seen[u] /\ torn'[u] = torn[u]
    BY <1>1 DEF RegistryInv, TypeOK
  <2>2. \A u \in Clients \ {t} : CopyInv(u)'
    BY <1>4, <1>8, <1>9, <2>1, ReadersStand
  <2>3. CopyInv(t)'
    <3>1. copy'[t] = Of(None) /\ seen[t] = {}
      BY <1>4, <1>5 DEF RegistryInv, CopyInv, Reading, Op
    <3>2. call'[t] = c /\ (Reading(t)' <=> c.op = "getState")
      BY <1>3, <1>8 DEF Reading, Op
    <3>3. Coming(call[t].mod)' = Coming(c.mod) /\ value'[c.mod] = value[c.mod]
      BY <1>4, <1>9, <3>2 DEF Coming
    <3>4. c.op = "getState" => /\ seen'[t] = {value[c.mod]} \cup Coming(c.mod)
                               /\ torn'[t] <=> Coming(c.mod) # {}
      BY <1>1 DEF RegistryInv, TypeOK
    <3>5. c.op # "getState" => seen'[t] = {}
      BY <1>1, <3>1
    <3>6. \A part \in Parts : copy'[t][part] = None
      BY <3>1, OfPart
    <3> QED BY <3>1, <3>2, <3>3, <3>4, <3>5, <3>6 DEF CopyInv
  <2> QED BY <2>2, <2>3
<1> QED BY <1>6, <1>7, <1>10, <1>11, <1>12 DEF RegistryInv

LEMMA LockKeeps ==
  ASSUME RegistryInv, NEW t \in Clients, Lock(t)
  PROVE  RegistryInv'
<1>1. /\ pc[t] = "lock" /\ owner = None /\ owner' = t /\ pc' = [pc EXCEPT ![t] = "body"]
      /\ UNCHANGED <<running, call, entryVars, readVars>>
  BY DEF Lock, Goto
<1>2. MutexHeld'
  <2>1. \A u \in Clients : pc'[u] = IF u = t THEN "body" ELSE pc[u]
    BY <1>1 DEF RegistryInv, TypeOK
  <2>2. \A u \in Clients : pc[u] \notin Inside
    BY <1>1, StateMachineAssumption DEF RegistryInv, MutexHeld
  <2> QED BY <1>1, <2>1, <2>2 DEF MutexHeld, Inside
<1> QED BY <1>1, <1>2, MoveKeeps

\* The early returns, the lookup of getState, the dump and the end of the log.
LEMMA FinishKeeps ==
  ASSUME RegistryInv, NEW t \in Clients, pc[t] \in {"body", "log"}, Finish(t)
  PROVE  RegistryInv'
<1>1. /\ pc' = [pc EXCEPT ![t] = "unlock"] /\ owner' = owner
      /\ UNCHANGED <<running, call, entryVars, readVars>>
  BY DEF Finish, Goto
<1>2. MutexHeld'
  BY <1>1, MutexStands DEF Inside
<1>3. owner' \in Clients \cup {None}
  BY <1>1 DEF RegistryInv, TypeOK
<1> QED BY <1>1, <1>2, <1>3, MoveKeeps

LEMMA UnlockKeeps ==
  ASSUME RegistryInv, NEW t \in Clients, Unlock(t)
  PROVE  RegistryInv'
<1> USE StateMachineAssumption
<1>1. /\ pc[t] = "unlock" /\ owner' = None /\ owner = t
      /\ UNCHANGED <<running, entryVars, readVars>>
  BY DEF Unlock, RegistryInv, MutexHeld, Inside
<1>2. \A u \in Clients \ {t} : pc[u] \notin Inside
  BY <1>1 DEF RegistryInv, MutexHeld
<1>3. CASE Reading(t)
  <2>1. pc' = [pc EXCEPT ![t] = "copy"] /\ call' = call
    BY <1>3 DEF Unlock, Goto, Reading
  <2>2. MutexHeld'
    BY <1>1, <1>2, <2>1 DEF RegistryInv, TypeOK, MutexHeld, Inside
  <2> QED BY <1>1, <1>3, <2>1, <2>2, MoveKeeps
<1>4. CASE ~Reading(t)
  <2>1. pc' = [pc EXCEPT ![t] = "idle"] /\ call' = [call EXCEPT ![t] = None]
    BY <1>4 DEF Unlock, Hangup, Goto, Reading
  <2>2. \A u \in Clients : pc'[u] = (IF u = t THEN "idle" ELSE pc[u])
                           /\ call'[u] = (IF u = t THEN None ELSE call[u])
    BY <2>1 DEF RegistryInv, TypeOK
  <2>3. writing' = writing /\ \A m : Coming(m)' = Coming(m)
    BY <1>1, <2>2, WritingStands
  <2>4. TypeOK' /\ MutexHeld'
    BY <1>1, <1>2, <2>1, <2>2 DEF RegistryInv, TypeOK, MutexHeld, Inside, entryVars, readVars
  <2>5. \A u \in Clients : CallInPlace(u)'
    <3>1. \A u \in Clients \ {t} : CallInPlace(u)'
      BY <1>1, <2>2, PlacesStand DEF entryVars
    <3>2. CallInPlace(t)'
      BY <2>2 DEF CallInPlace
    <3> QED BY <3>1, <3>2
  <2>6. \A m \in Modules : EntryInv(m)'
    BY <1>1, <2>3, EntriesStand DEF entryVars
  <2>7. \A u \in Clients : CopyInv(u)'
    <3>1. \A u \in Clients \ {t} : CopyInv(u)'
      BY <1>1, <2>2, <2>3, ReadersStand DEF entryVars, readVars
    <3>2. copy'[t] = Of(None) /\ seen'[t] = {} /\ ~Reading(t)'
      BY <1>1, <1>4, <2>2 DEF RegistryInv, CopyInv, Reading, Op, readVars
    <3>3. CopyInv(t)'
      BY <3>2, OfPart DEF CopyInv
    <3> QED BY <3>1, <3>3
  <2> QED BY <2>4, <2>5, <2>6, <2>7 DEF RegistryInv
<1> QED BY <1>3, <1>4

\* A writer's step on entry m: nobody else is inside, the other entries stand, and the
\* readers of m see what m shows.
LEMMA WriterKeeps ==
  ASSUME RegistryInv, NEW t \in Clients, pc[t] \in Inside, ~Reading(t),
         NEW l \in Inside, pc' = [pc EXCEPT ![t] = l],
         UNCHANGED <<running, owner, call, copy, result>>, present \subseteq present',
         NEW m \in Modules, m = call[t].mod,
         \A k \in Modules \ {m} : /\ value'[k] = value[k] /\ text'[k] = text[k]
                                  /\ k \in present' <=> k \in present
                                  /\ Coming(k)' = Coming(k),
         TypeOK', CallInPlace(t)', EntryInv(m)',
         \A u \in Clients : seen[u] \subseteq seen'[u] /\ (~Reading(u) => seen'[u] = {}),
         \A u \in Clients : Reading(u) /\ call[u].mod = m =>
           /\ {value'[m]} \cup Coming(m)' \subseteq seen'[u]
           /\ ~torn'[u] => /\ ~torn[u] /\ Coming(m)' = {}
                           /\ value'[m] = value[m] \/ value[m] = Absent,
         \A u \in Clients : Reading(u) /\ call[u].mod # m => torn'[u] = torn[u]
  PROVE  RegistryInv'
<1>1. MutexHeld'
  BY MutexStands
<1>2. \A u \in Clients \ {t} : pc'[u] = pc[u]
  BY DEF RegistryInv, TypeOK
<1>3. \A u \in Clients : CallInPlace(u)'
  <2>1. \A u \in Clients \ {t} : CallInPlace(u)'
    BY <1>2, PlacesStand
  <2> QED BY <2>1
<1>4. \A k \in Modules : EntryInv(k)'
  <2>1. ASSUME NEW k \in Modules \ {m} PROVE EntryInv(k)'
    <3>1. EntryInv(k) /\ Coming(k)' = Coming(k)
      BY DEF RegistryInv
    <3> QED BY <3>1 DEF EntryInv
  <2> QED BY <2>1
<1>5. ASSUME NEW u \in Clients PROVE CopyInv(u)'
  <2>1. CopyInv(u)
    BY DEF RegistryInv
  <2>2. Reading(u) => call[u].mod \in Modules
    BY CallTyped DEF Reading, Op
  <2>3. PICK k : k = call[u].mod
    OBVIOUS
  <2>4. Coming(call[u].mod) = Coming(k)
    BY <2>3
  <2>5. CASE k = m
    BY <2>1, <2>3, <2>5, ReaderStands
  <2>6. CASE k # m
    <3>1. Reading(u) => /\ value'[k] = value[k] /\ Coming(k)' = Coming(k)
                        /\ torn'[u] = torn[u]
      BY <2>2, <2>3, <2>6
    <3>2. Reading(u) => {value'[k]} \cup Coming(k)' \subseteq seen'[u]
      BY <2>1, <2>3, <2>4, <3>1 DEF CopyInv
    <3>3. Reading(u) /\ ~torn'[u] => /\ ~torn[u] /\ Coming(k)' = {}
                                     /\ value'[k] = value[k] \/ value[k] = Absent
      BY <2>1, <2>3, <2>4, <3>1 DEF CopyInv
    <3> QED BY <2>1, <2>3, <3>2, <3>3, ReaderStands
  <2> QED BY <2>5, <2>6
<1> QED BY <1>1, <1>3, <1>4, <1>5 DEF RegistryInv

\* What Show does to the readers.
LEMMA Shown ==
  ASSUME RegistryInv, NEW m, NEW s \in States, Show(m, s)
  PROVE  /\ seen' \in [Clients -> SUBSET (States \cup {Absent})]
         /\ \A u \in Clients : seen[u] \subseteq seen'[u] /\ (~Reading(u) => seen'[u] = {})
         /\ \A u \in Clients : Reading(u) /\ call[u].mod = m => s \in seen'[u]
BY DEF Show, RegistryInv, TypeOK, CopyInv

LEMMA SetInitialKeeps ==
  ASSUME RegistryInv, NEW t \in Clients, SetInitial(t)
  PROVE  RegistryInv'
<1> USE StateMachineAssumption
<1>1. pc[t] = "body" /\ call[t] # None /\ ~Reading(t)
  BY DEF SetInitial, Op, Reading
<1>2. PICK m, s : m = call[t].mod /\ s = call[t].new
  OBVIOUS
<1>3. m \in Modules /\ s \in States
  BY <1>1, <1>2, CallTyped
<1>4. /\ m \notin present /\ present' = present \cup {m}
      /\ text' = [text EXCEPT ![m] = Of(s)] /\ value' = [value EXCEPT ![m] = s]
      /\ Show(m, s) /\ pc' = [pc EXCEPT ![t] = "unlock"]
      /\ UNCHANGED <<running, owner, call, copy, torn, result>>
  BY <1>2 DEF SetInitial, Goto
<1>5. /\ text' \in [Modules -> [Parts -> States \cup {None}]] /\ text'[m] = Of(s)
      /\ value' \in [Modules -> States \cup {Absent}] /\ value'[m] = s
      /\ \A k \in Modules \ {m} : value'[k] = value[k] /\ text'[k] = text[k]
  <2>1. Of(s) \in [Parts -> States \cup {None}]
    BY <1>3, OfTyped
  <2> QED BY <1>3, <1>4, <2>1 DEF RegistryInv, TypeOK
<1>6. \A k \in Modules : Coming(k)' = Coming(k)
  <2>1. \A u \in Clients : pc'[u] = IF u = t THEN "unlock" ELSE pc[u]
    BY <1>4 DEF RegistryInv, TypeOK
  <2> QED BY <1>1, <1>4, <2>1, WritingStands
<1>7. Coming(m) = {} /\ value[m] = Absent
  <2>1. writing = {}
    BY <1>1, OnlyAssigner DEF Inside
  <2> QED BY <1>3, <1>4, <2>1 DEF Coming, RegistryInv, EntryInv
<1>8. TypeOK'
  BY <1>3, <1>4, <1>5, Shown DEF RegistryInv, TypeOK
<1>9. CallInPlace(t)'
  BY <1>1, <1>4 DEF RegistryInv, TypeOK, CallInPlace
<1>10. EntryInv(m)'
  BY <1>3, <1>4, <1>5, OfPart DEF EntryInv
<1>11. \A u \in Clients : Reading(u) /\ call[u].mod = m =>
         /\ {value'[m]} \cup Coming(m)' \subseteq seen'[u]
         /\ ~torn'[u] => /\ ~torn[u] /\ Coming(m)' = {}
                         /\ value'[m] = value[m] \/ value[m] = Absent
  BY <1>3, <1>4, <1>5, <1>6, <1>7, Shown
<1>12. \A u \in Clients : seen[u] \subseteq seen'[u] /\ (~Reading(u) => seen'[u] = {})
  BY <1>3, <1>4, Shown
<1>13. \A k \in Modules \ {m} : /\ value'[k] = value[k] /\ text'[k] = text[k]
                                /\ k \in present' <=> k \in present
                                /\ Coming(k)' = Coming(k)
  BY <1>4, <1>5, <1>6
<1> QED BY <1>1, <1>2, <1>3, <1>4, <1>8, <1>9, <1>10, <1>11, <1>12, <1>13, WriterKeeps
        DEF Inside

\* Where t assigns, and what.
LEMMA Assigning ==
  ASSUME RegistryInv, NEW t \in Clients, ChangeFront(t) \/ ChangeBack(t) \/ ChangeLength(t)
  PROVE  /\ call[t].mod \in Modules /\ call[t].new \in States /\ call[t].mod \in present
         /\ ~Reading(t) /\ pc[t] \in Inside /\ Op(t, "changeState")
<1>1. Op(t, "changeState") /\ call[t].mod \in present /\ pc[t] \in Inside
  BY DEF ChangeFront, ChangeBack, ChangeLength, RegistryInv, CallInPlace, Inside
<1> QED BY <1>1, CallTyped DEF Op, Reading

LEMMA ChangeFrontKeeps ==
  ASSUME RegistryInv, NEW t \in Clients, ChangeFront(t)
  PROVE  RegistryInv'
<1> USE StateMachineAssumption
<1>1. PICK m, s : m = call[t].mod /\ s = call[t].new
  OBVIOUS
<1>2. /\ m \in Modules /\ s \in States /\ m \in present /\ ~Reading(t) /\ pc[t] = "body"
      /\ Op(t, "changeState")
  BY <1>1, Assigning DEF ChangeFront
<1>3. /\ text' = [text EXCEPT ![m]["front"] = s] /\ Show(m, s)
      /\ torn' = [u \in Clients |-> torn[u] \/ (Reading(u) /\ call[u].mod = m)]
      /\ pc' = [pc EXCEPT ![t] = "back"]
      /\ UNCHANGED <<running, owner, call, present, value, copy, result>>
  BY <1>1 DEF ChangeFront, Write, Goto
<1>4. /\ text' \in [Modules -> [Parts -> States \cup {None}]]
      /\ text'[m]["front"] = s /\ \A q \in Parts : q # "front" => text'[m][q] = text[m][q]
      /\ \A k \in Modules : k # m => text'[k] = text[k]
  <2>1. text \in [Modules -> [Parts -> States \cup {None}]] /\ "front" \in Parts
    BY DEF RegistryInv, TypeOK, Parts
  <2> QED BY <1>2, <1>3, <2>1, PartWritten
<1>5. writing = {} /\ writing' = {<<m, s>>}
  <2>1. \A u \in Clients : pc[u] \notin {"back", "length"}
    BY <1>2, OnlyAssigner DEF Inside
  <2>2. \A u \in Clients : pc'[u] \in {"back", "length"} <=> u = t
    BY <1>3, <2>1 DEF RegistryInv, TypeOK
  <2> QED BY <1>1, <1>3, <2>1, <2>2 DEF writing, Assigners
<1>6. Coming(m)' = {s} /\ \A k \in Modules \ {m} : Coming(k)' = Coming(k)
  BY <1>2, <1>5 DEF Coming
<1>7. TypeOK'
  BY <1>2, <1>3, <1>4, Shown DEF RegistryInv, TypeOK
<1>8. CallInPlace(t)'
  <2>1. pc'[t] = "back" /\ call[t] # None /\ Op(t, "changeState")'
    BY <1>2, <1>3 DEF RegistryInv, TypeOK, Op
  <2> QED BY <1>1, <1>2, <1>3, <1>4, <2>1 DEF CallInPlace
<1>9. EntryInv(m)'
  <2>1. EntryInv(m) /\ Coming(m) = {}
    BY <1>2, <1>5 DEF RegistryInv, Coming
  <2>2. \A part \in Parts : text'[m][part] \in {value'[m]} \cup Coming(m)'
    BY <1>2, <1>3, <1>4, <1>6, <2>1 DEF EntryInv
  <2> QED BY <1>2, <1>3, <2>1, <2>2 DEF EntryInv
<1>10. \A u \in Clients : Reading(u) /\ call[u].mod = m =>
         /\ {value'[m]} \cup Coming(m)' \subseteq seen'[u]
         /\ ~torn'[u] => /\ ~torn[u] /\ Coming(m)' = {}
                         /\ value'[m] = value[m] \/ value[m] = Absent
  <2>1. ASSUME NEW u \in Clients, Reading(u), call[u].mod = m
        PROVE  {value'[m]} \cup Coming(m)' \subseteq seen'[u] /\ torn'[u]
    <3>1. s \in seen'[u] /\ seen[u] \subseteq seen'[u]
      BY <1>2, <1>3, <2>1, Shown
    <3>2. value[m] \in seen[u]
      BY <2>1 DEF RegistryInv, CopyInv
    <3> QED BY <1>3, <1>6, <2>1, <3>1, <3>2
  <2> QED BY <2>1
<1>11. \A u \in Clients : seen[u] \subseteq seen'[u] /\ (~Reading(u) => seen'[u] = {})
  BY <1>2, <1>3, Shown
<1>12. \A k \in Modules \ {m} : /\ value'[k] = value[k] /\ text'[k] = text[k]
                                /\ k \in present' <=> k \in present
                                /\ Coming(k)' = Coming(k)
  BY <1>3, <1>4, <1>6
<1>13. \A u \in Clients : Reading(u) /\ call[u].mod # m => torn'[u] = torn[u]
  BY <1>3 DEF RegistryInv, TypeOK
<1> QED BY <1>1, <1>2, <1>3, <1>7, <1>8, <1>9, <1>10, <1>11, <1>12, <1>13, WriterKeeps
        DEF Inside

LEMMA ChangeBackKeeps ==
  ASSUME RegistryInv, NEW t \in Clients, ChangeBack(t)
  PROVE  RegistryInv'
<1> USE StateMachineAssumption
<1>1. PICK m, s : m = call[t].mod /\ s = call[t].new
  OBVIOUS
<1>2. /\ m \in Modules /\ s \in States /\ m \in present /\ ~Reading(t) /\ pc[t] = "back"
      /\ Op(t, "changeState")
  BY <1>1, Assigning DEF ChangeBack
<1>3. /\ text' = [text EXCEPT ![m]["back"] = s] /\ pc' = [pc EXCEPT ![t] = "length"]
      /\ UNCHANGED <<running, owner, call, present, value, copy, seen, torn, result>>
  BY <1>1 DEF ChangeBack, Write, Goto, readVars
<1>4. /\ text' \in [Modules -> [Parts -> States \cup {None}]]
      /\ text'[m]["back"] = s /\ \A q \in Parts : q # "back" => text'[m][q] = text[m][q]
      /\ \A k \in Modules : k # m => text'[k] = text[k]
  <2>1. text \in [Modules -> [Parts -> States \cup {None}]] /\ "back" \in Parts
    BY DEF RegistryInv, TypeOK, Parts
  <2> QED BY <1>2, <1>3, <2>1, PartWritten
<1>5. writing = {<<m, s>>} /\ \A k : Coming(k)' = Coming(k)
  <2>1. \A u \in Clients : pc'[u] = IF u = t THEN "length" ELSE pc[u]
    BY <1>3 DEF RegistryInv, TypeOK
  <2>2. writing = {<<m, s>>}
    BY <1>1, <1>2, OnlyAssigner DEF Inside
  <2> QED BY <1>2, <1>3, <2>1, <2>2, WritingStands
<1>6. Coming(m) = {s}
  BY <1>2, <1>5 DEF Coming
<1>7. TypeOK'
  BY <1>2, <1>3, <1>4 DEF RegistryInv, TypeOK
<1>8. CallInPlace(t)'
  <2>1. pc'[t] = "length" /\ call[t] # None /\ Op(t, "changeState")'
    BY <1>2, <1>3 DEF RegistryInv, TypeOK, Op
  <2>2. text'[m]["front"] = s
    BY <1>1, <1>2, <1>4 DEF RegistryInv, CallInPlace, Parts
  <2> QED BY <1>1, <1>2, <1>3, <1>4, <2>1, <2>2 DEF CallInPlace
<1>9. EntryInv(m)'
  <2>1. EntryInv(m)
    BY <1>2 DEF RegistryInv
  <2>2. \A part \in Parts : text'[m][part] \in {value'[m]} \cup Coming(m)'
    BY <1>2, <1>3, <1>4, <1>5, <1>6, <2>1 DEF EntryInv
  <2> QED BY <1>2, <1>3, <2>1, <2>2 DEF EntryInv
<1>10. \A u \in Clients : Reading(u) /\ call[u].mod = m =>
         /\ {value'[m]} \cup Coming(m)' \subseteq seen'[u]
         /\ ~torn'[u] => /\ ~torn[u] /\ Coming(m)' = {}
                         /\ value'[m] = value[m] \/ value[m] = Absent
  <2>1. ASSUME NEW u \in Clients, Reading(u), call[u].mod = m
        PROVE  {value[m]} \cup Coming(m) \subseteq seen[u] /\ (~torn[u] => Coming(m) = {})
    BY <2>1 DEF RegistryInv, CopyInv
  <2> QED BY <1>3, <1>5, <2>1
<1>11. \A u \in Clients : seen[u] \subseteq seen'[u] /\ (~Reading(u) => seen'[u] = {})
  BY <1>3 DEF RegistryInv, CopyInv
<1>12. \A k \in Modules \ {m} : /\ value'[k] = value[k] /\ text'[k] = text[k]
                                /\ k \in present' <=> k \in present
                                /\ Coming(k)' = Coming(k)
  BY <1>3, <1>4, <1>5
<1> QED BY <1>1, <1>2, <1>3, <1>7, <1>8, <1>9, <1>10, <1>11, <1>12, WriterKeeps
        DEF Inside

LEMMA ChangeLengthKeeps ==
  ASSUME RegistryInv, NEW t \in Clients, ChangeLength(t)
  PROVE  RegistryInv'
<1> USE StateMachineAssumption
<1>1. PICK m, s : m = call[t].mod /\ s = call[t].new
  OBVIOUS
<1>2. /\ m \in Modules /\ s \in States /\ m \in present /\ ~Reading(t) /\ pc[t] = "length"
      /\ Op(t, "changeState")
  BY <1>1, Assigning DEF ChangeLength
<1>3. /\ text' = [text EXCEPT ![m]["length"] = s] /\ value' = [value EXCEPT ![m] = s]
      /\ pc' = [pc EXCEPT ![t] = "log"]
      /\ UNCHANGED <<running, owner, call, present, copy, seen, torn, result>>
  BY <1>1 DEF ChangeLength, Write, Goto, readVars
<1>4. /\ text' \in [Modules -> [Parts -> States \cup {None}]]
      /\ text'[m]["length"] = s /\ \A q \in Parts : q # "length" => text'[m][q] = text[m][q]
      /\ \A k \in Modules : k # m => text'[k] = text[k]
  <2>1. text \in [Modules -> [Parts -> States \cup {None}]] /\ "length" \in Parts
    BY DEF RegistryInv, TypeOK, Parts
  <2> QED BY <1>2, <1>3, <2>1, PartWritten
<1>5. /\ value' \in [Modules -> States \cup {Absent}] /\ value'[m] = s
      /\ \A k \in Modules \ {m} : value'[k] = value[k]
  BY <1>2, <1>3 DEF RegistryInv, TypeOK
<1>6. writing = {<<m, s>>} /\ writing' = {}
  <2>1. \A u \in Clients : pc[u] \in {"back", "length"} => u = t
    BY <1>2, OnlyAssigner DEF Inside
  <2>2. \A u \in Clients : pc'[u] \notin {"back", "length"}
    BY <1>3, <2>1 DEF RegistryInv, TypeOK
  <2>3. writing = {<<m, s>>}
    BY <1>1, <1>2, OnlyAssigner DEF Inside
  <2> QED BY <2>2, <2>3 DEF writing, Assigners
<1>7. Coming(m) = {s} /\ \A k \in Modules : Coming(k)' = {} /\ (k # m => Coming(k) = {})
  BY <1>2, <1>6 DEF Coming
<1>8. TypeOK'
  BY <1>3, <1>4, <1>5 DEF RegistryInv, TypeOK
<1>9. CallInPlace(t)'
  BY <1>2, <1>3 DEF RegistryInv, TypeOK, CallInPlace, Op
<1>10. EntryInv(m)'
  <2>1. text[m]["front"] = s /\ text[m]["back"] = s
    BY <1>1, <1>2 DEF RegistryInv, CallInPlace
  <2>2. \A part \in Parts : text'[m][part] = s
    BY <1>4, <2>1 DEF Parts
  <2> QED BY <1>2, <1>3, <1>5, <2>2 DEF EntryInv
<1>11. \A u \in Clients : Reading(u) /\ call[u].mod = m =>
         /\ {value'[m]} \cup Coming(m)' \subseteq seen'[u]
         /\ ~torn'[u] => /\ ~torn[u] /\ Coming(m)' = {}
                         /\ value'[m] = value[m] \/ value[m] = Absent
  <2>1. ASSUME NEW u \in Clients, Reading(u), call[u].mod = m
        PROVE  s \in seen[u] /\ torn[u]
    BY <1>7, <2>1 DEF RegistryInv, TypeOK, CopyInv
  <2> QED BY <1>2, <1>3, <1>5, <1>7, <2>1
<1>12. \A u \in Clients : seen[u] \subseteq seen'[u] /\ (~Reading(u) => seen'[u] = {})
  BY <1>3 DEF RegistryInv, CopyInv
<1>13. \A k \in Modules \ {m} : /\ value'[k] = value[k] /\ text'[k] = text[k]
                                /\ k \in present' <=> k \in present
                                /\ Coming(k)' = Coming(k)
  BY <1>3, <1>4, <1>5, <1>7
<1> QED BY <1>1, <1>2, <1>3, <1>8, <1>9, <1>10, <1>11, <1>12, <1>13, WriterKeeps
        DEF Inside

LEMMA GetNotFoundKeeps ==
  ASSUME RegistryInv, NEW t \in Clients, GetNotFound(t)
  PROVE  RegistryInv'
<1> USE StateMachineAssumption
<1>1. PICK m : m = call[t].mod
  OBVIOUS
<1>2. /\ pc[t] = "body" /\ Reading(t) /\ m \notin present
      /\ copy' = [copy EXCEPT ![t] = Of(Absent)] /\ pc' = [pc EXCEPT ![t] = "unlock"]
      /\ UNCHANGED <<running, owner, call, present, text, value, seen, torn, result>>
  BY <1>1 DEF GetNotFound, Goto, Reading, entryVars
<1>3. m \in Modules /\ value[m] = Absent
  <2>1. m \in Modules
    BY <1>1, <1>2, CallTyped DEF Reading, Op
  <2> QED BY <1>2, <2>1 DEF RegistryInv, EntryInv
<1>4. copy' \in [Clients -> [Parts -> States \cup {None, Absent}]] /\ copy'[t] = Of(Absent)
  <2>1. Of(Absent) \in [Parts -> States \cup {None, Absent}]
    BY OfTyped
  <2> QED BY <1>2, <2>1 DEF RegistryInv, TypeOK
<1>5. \A u \in Clients : pc'[u] = IF u = t THEN "unlock" ELSE pc[u]
  BY <1>2 DEF RegistryInv, TypeOK
<1>6. writing' = writing /\ \A k : Coming(k)' = Coming(k)
  BY <1>2, <1>5, WritingStands
<1>7. TypeOK' /\ MutexHeld'
  <2>1. MutexHeld'
    BY <1>2, MutexStands DEF Inside
  <2> QED BY <1>2, <1>4, <2>1 DEF RegistryInv, TypeOK
<1>8. \A u \in Clients : CallInPlace(u)'
  <2>1. \A u \in Clients \ {t} : CallInPlace(u)'
    BY <1>2, <1>5, PlacesStand
  <2>2. CallInPlace(t)'
    BY <1>2, <1>5 DEF RegistryInv, CallInPlace, Reading, Op
  <2> QED BY <2>1, <2>2
<1>9. \A k \in Modules : EntryInv(k)'
  BY <1>2, <1>6, EntriesStand
<1>10. \A u \in Clients : CopyInv(u)'
  <2>1. \A u \in Clients \ {t} : copy'[u] = copy[u]
    BY <1>2 DEF RegistryInv, TypeOK
  <2>2. \A u \in Clients \ {t} : CopyInv(u)'
    BY <1>2, <1>6, <2>1, ReadersStand
  <2>3. CopyInv(t)'
    <3>1. /\ {value[m]} \cup Coming(call[t].mod) \subseteq seen[t]
          /\ ~torn[t] => Coming(call[t].mod) = {}
      BY <1>1, <1>2 DEF RegistryInv, CopyInv
    <3>2. Reading(t)' /\ Coming(call[t].mod)' = Coming(call[t].mod)
      BY <1>2, <1>6 DEF Reading, Op, Coming
    <3>3. \A part \in Parts : copy'[t][part] \in seen[t]
      BY <1>3, <1>4, <3>1, OfPart
    <3> QED BY <1>1, <1>2, <1>4, <3>1, <3>2, <3>3 DEF CopyInv
  <2> QED BY <2>2, <2>3
<1> QED BY <1>7, <1>8, <1>9, <1>10 DEF RegistryInv

LEMMA CopyPartKeeps ==
  ASSUME RegistryInv, NEW t \in Clients, CopyPart(t)
  PROVE  RegistryInv'
<1> USE StateMachineAssumption
<1>1. PICK m, part : /\ m = call[t].mod /\ part \in Parts /\ copy[t][part] = None
                     /\ copy' = [copy EXCEPT ![t][part] = text[m][part]]
  BY DEF CopyPart
<1>2. /\ pc[t] = "copy" /\ Reading(t)
      /\ UNCHANGED <<running, owner, pc, call, present, text, value, seen, torn, result>>
  BY DEF CopyPart, RegistryInv, CallInPlace, entryVars
<1>3. m \in Modules
  BY <1>1, <1>2, CallTyped DEF Reading, Op
<1>4. PICK s : s = text[m][part]
  OBVIOUS
<1>5. s \in States \cup {None} /\ copy' = [copy EXCEPT ![t][part] = s]
  BY <1>1, <1>3, <1>4 DEF RegistryInv, TypeOK
<1>6. /\ copy' \in [Clients -> [Parts -> States \cup {None, Absent}]]
      /\ copy'[t][part] = s /\ \A q \in Parts : q # part => copy'[t][q] = copy[t][q]
      /\ \A u \in Clients : u # t => copy'[u] = copy[u]
  <2>1. copy \in [Clients -> [Parts -> States \cup {None, Absent}]]
        /\ s \in States \cup {None, Absent}
    BY <1>5 DEF RegistryInv, TypeOK
  <2> QED BY <1>1, <1>5, <2>1, PartWritten
<1>7. writing' = writing /\ \A k : Coming(k)' = Coming(k)
  BY <1>2, WritingStands
<1>8. TypeOK' /\ MutexHeld'
  BY <1>2, <1>6 DEF RegistryInv, TypeOK, MutexHeld
<1>9. \A u \in Clients : CallInPlace(u)'
  BY <1>2 DEF RegistryInv, CallInPlace, Reading, Op
<1>10. \A k \in Modules : EntryInv(k)'
  BY <1>2, <1>7, EntriesStand
<1>11. \A u \in Clients \ {t} : CopyInv(u)'
  BY <1>2, <1>6, <1>7, ReadersStand
<1>12. CopyInv(t)'
  <2>1. Coming(call[t].mod) = Coming(m) /\ Coming(call[t].mod)' = Coming(m) /\ Reading(t)'
    BY <1>1, <1>2, <1>7 DEF Reading, Op, Coming
  <2>2. CopyInv(t) /\ EntryInv(m)
    BY <1>3 DEF RegistryInv
  <2>3. {value[m]} \cup Coming(m) \subseteq seen[t]
    BY <1>1, <1>2, <2>1, <2>2 DEF CopyInv
  <2>4. s \in {value[m]} \cup Coming(m) \/ s = None
    BY <1>1, <1>4, <2>2, OfPart DEF EntryInv
  <2>5. \A q \in Parts : copy'[t][q] \in seen[t] \cup {None}
    BY <1>6, <2>2, <2>3, <2>4 DEF CopyInv
  <2>6. ASSUME ~torn[t]
        PROVE  /\ Coming(m) = {}
               /\ \A q \in Parts : copy'[t][q] \in {None, value[m]} \ {Absent}
    <3>1. Coming(m) = {} /\ copy[t] # Of(Absent)
      BY <1>1, <1>2, <2>1, <2>2, <2>6, OfPart DEF CopyInv
    <3>2. \A q \in Parts : copy[t][q] \in {None, value[m]} \ {Absent}
      BY <1>1, <1>2, <2>2, <2>6, <3>1 DEF CopyInv
    <3>3. s \in {None, value[m]} \ {Absent}
      BY <1>5, <2>4, <3>1
    <3> QED BY <1>6, <3>1, <3>2, <3>3
  <2> QED BY <1>1, <1>2, <2>1, <2>3, <2>5, <2>6 DEF CopyInv
<1> QED BY <1>8, <1>9, <1>10, <1>11, <1>12 DEF RegistryInv

\* An answer that is no state comes only of a read that an assignment overlapped.
LEMMA WholeAnswers ==
  ASSUME RegistryInv, NEW t \in Clients, Return(t), NEW answer \in TextsOf(copy[t])
  PROVE  answer \in seen[t] \cup IF torn[t] THEN {Torn} ELSE {}
<1> USE StateMachineAssumption
<1>1. /\ Reading(t) /\ CopyInv(t) /\ call[t].mod \in Modules
      /\ \A part \in Parts : copy[t][part] # None
  BY CallTyped DEF Return, Answer, RegistryInv, CallInPlace, Reading, Op
<1>2. \A part \in Parts : copy[t][part] \in seen[t]
  BY <1>1 DEF CopyInv
<1>3. copy[t]["front"] \in seen[t]
  BY <1>2 DEF Parts
<1>4. CASE torn[t] \/ copy[t]["front"] = Absent
  <2>1. answer \in {Torn, copy[t]["front"]} \cup {copy[t][part] : part \in Parts}
    BY DEF TextsOf
  <2>2. answer # Torn => answer \in seen[t]
    BY <1>2, <1>3, <2>1
  <2>3. copy[t]["front"] = Absent => answer \in seen[t]
    BY <1>3 DEF TextsOf
  <2> QED BY <1>4, <2>2, <2>3
<1>5. CASE ~torn[t] /\ copy[t]["front"] # Absent
  <2>1. PICK s : s = value[call[t].mod]
    OBVIOUS
  <2>2. copy[t] # Of(Absent)
    BY <1>5, OfPart DEF Parts
  <2>3. \A part \in Parts : copy[t][part] = s /\ s # Absent
    BY <1>1, <1>5, <2>1, <2>2 DEF CopyInv
  <2>4. copy[t]["front"] = s /\ copy[t]["back"] = s /\ copy[t]["length"] = s /\ s \in States
    BY <1>1, <2>1, <2>3 DEF Parts, RegistryInv, TypeOK
  <2>5. TextsOf(copy[t]) = {s}
    BY <2>4 DEF TextsOf
  <2> QED BY <1>3, <2>4, <2>5
<1> QED BY <1>4, <1>5

\* What a return changes.
LEMMA Returned ==
  ASSUME RegistryInv, NEW t \in Clients, Return(t)
  PROVE  \E answer \in TextsOf(copy[t]) :
           /\ pc[t] = "copy" /\ pc' = [pc EXCEPT ![t] = "idle"]
           /\ call' = [call EXCEPT ![t] = None] /\ copy' = [copy EXCEPT ![t] = Of(None)]
           /\ seen' = [seen EXCEPT ![t] = {}] /\ torn' = [torn EXCEPT ![t] = FALSE]
           /\ result' = [result EXCEPT ![t] = answer]
           /\ UNCHANGED <<running, owner, present, text, value>>
BY DEF Return, Answer, Hangup, Goto, entryVars

LEMMA ReturnKeeps ==
  ASSUME RegistryInv, NEW t \in Clients, Return(t)
  PROVE  RegistryInv'
<1> USE StateMachineAssumption
<1>1. PICK answer \in TextsOf(copy[t]) :
        /\ pc[t] = "copy" /\ pc' = [pc EXCEPT ![t] = "idle"]
        /\ call' = [call EXCEPT ![t] = None] /\ copy' = [copy EXCEPT ![t] = Of(None)]
        /\ seen' = [seen EXCEPT ![t] = {}] /\ torn' = [torn EXCEPT ![t] = FALSE]
        /\ result' = [result EXCEPT ![t] = answer]
        /\ UNCHANGED <<running, owner, present, text, value>>
  BY Returned
<1>2. answer \in States \cup {Absent, Torn}
  <2>1. answer \in seen[t] \cup IF torn[t] THEN {Torn} ELSE {}
    BY WholeAnswers
  <2> QED BY <2>1 DEF RegistryInv, TypeOK
<1>3. TypeOK'
  <2>1. copy' \in [Clients -> [Parts -> States \cup {None, Absent}]]
    <3>1. Of(None) \in [Parts -> States \cup {None, Absent}]
      BY OfTyped
    <3> QED BY <1>1, <3>1 DEF RegistryInv, TypeOK
  <2>2. result' \in [Clients -> States \cup {Absent, Torn}]
    BY <1>1, <1>2 DEF RegistryInv, TypeOK
  <2> QED BY <1>1, <2>1, <2>2 DEF RegistryInv, TypeOK
<1>4. MutexHeld'
  BY <1>1, MutexStands DEF Inside
<1>5. \A u \in Clients : pc'[u] = (IF u = t THEN "idle" ELSE pc[u])
                         /\ call'[u] = (IF u = t THEN None ELSE call[u])
  BY <1>1 DEF RegistryInv, TypeOK
<1>6. writing' = writing /\ \A m : Coming(m)' = Coming(m)
  BY <1>1, <1>5, WritingStands
<1>7. \A u \in Clients : CallInPlace(u)'
  <2>1. \A u \in Clients \ {t} : CallInPlace(u)'
    BY <1>1, <1>5, PlacesStand
  <2>2. CallInPlace(t)'
    BY <1>5 DEF CallInPlace
  <2> QED BY <2>1, <2>2
<1>8. \A m \in Modules : EntryInv(m)'
  BY <1>1, <1>6, EntriesStand
<1>9. \A u \in Clients : CopyInv(u)'
  <2>1. \A u \in Clients \ {t} : copy'[u] = copy[u] /\ seen'[u] = seen[u] /\ torn'[u] = torn[u]
    BY <1>1 DEF RegistryInv, TypeOK
  <2>2. \A u \in Clients \ {t} : CopyInv(u)'
    BY <1>1, <1>5, <1>6, <2>1, ReadersStand
  <2>3. copy'[t] = Of(None) /\ seen'[t] = {} /\ ~Reading(t)'
    BY <1>1, <1>5 DEF RegistryInv, TypeOK, Reading, Op
  <2>4. CopyInv(t)'
    BY <2>3, OfPart DEF CopyInv
  <2> QED BY <2>2, <2>4
<1> QED BY <1>3, <1>4, <1>7, <1>8, <1>9 DEF RegistryInv

LEMMA StepKeeps == RegistryInv /\ [Next]_vars => RegistryInv'
<1> SUFFICES ASSUME RegistryInv, [Next]_vars PROVE RegistryInv'
  OBVIOUS
<1>1. CASE UNCHANGED vars
  <2>1. UNCHANGED <<running, owner, pc, call, present, text, value, copy, seen, torn, result>>
    BY <1>1 DEF vars, entryVars, readVars
  <2>2. writing' = writing /\ \A m : Coming(m)' = Coming(m)
    BY <2>1, WritingStands
  <2>3. TypeOK' /\ MutexHeld' /\ \A t \in Clients : CallInPlace(t)'
    BY <2>1 DEF RegistryInv, TypeOK, MutexHeld, CallInPlace, Reading, Op
  <2>4. \A m \in Modules : EntryInv(m)'
    BY <2>1, <2>2, EntriesStand
  <2>5. ASSUME NEW t \in Clients PROVE CopyInv(t)'
    <3>1. CopyInv(t)
      BY DEF RegistryInv
    <3>2. PICK m : m = call[t].mod
      OBVIOUS
    <3>3. Coming(m)' = Coming(m) /\ Coming(call[t].mod) = Coming(m)
      BY <2>2, <3>2
    <3> QED BY <2>1, <3>1, <3>2, <3>3, ReaderStands DEF CopyInv
  <2> QED BY <2>3, <2>4, <2>5 DEF RegistryInv
<1>2. CASE StartDump
  BY <1>2, StartKeeps
<1>3. ASSUME NEW t \in Clients, Call(t) \/ Lock(t) \/ Step(t) PROVE RegistryInv'
  <2>1. CASE Call(t)
    BY <2>1, CallKeeps
  <2>2. CASE Lock(t)
    BY <2>2, LockKeeps
  <2>3. CASE SetInitialExists(t) \/ ChangeNothing(t) \/ GetFound(t) \/ Dump(t) \/ ChangeLog(t)
    <3>1. pc[t] \in {"body", "log"} /\ Finish(t)
      BY <2>3 DEF SetInitialExists, ChangeNothing, GetFound, Dump, ChangeLog, Finish
    <3> QED BY <3>1, FinishKeeps
  <2>4. CASE SetInitial(t)
    BY <2>4, SetInitialKeeps
  <2>5. CASE ChangeFront(t) \/ ChangeBack(t) \/ ChangeLength(t)
    BY <2>5, ChangeFrontKeeps, ChangeBackKeeps, ChangeLengthKeeps
  <2>6. CASE GetNotFound(t) \/ CopyPart(t) \/ Return(t)
    BY <2>6, GetNotFoundKeeps, CopyPartKeeps, ReturnKeeps
  <2>7. CASE Unlock(t)
    BY <2>7, UnlockKeeps
  <2> QED BY <1>3, <2>1, <2>2, <2>3, <2>4, <2>5, <2>6, <2>7 DEF Step
<1> QED BY <1>1, <1>2, <1>3 DEF Next

-----------------------------------------------------------------------------
(* The registry's own theorems *)

\* The invariant behind the theorems below.
THEOREM RegistryInvariant == Spec => []RegistryInv
BY InitInv, StepKeeps, PTL DEF Spec

\* Calls, strings, copies and answers keep their kinds: no string ends up without a
\* part, and no answer is anything but a state, the empty string or a torn one.
THEOREM RegistryTypes == Spec => []TypeOK
<1>1. RegistryInv => TypeOK
  BY DEF RegistryInv
<1> QED BY <1>1, RegistryInvariant, PTL

\* Every function of state_machine.cpp works under the one mutex, and whatever two
\* writers of an entry do, its string is whole whenever none of them is assigning it.
THEOREM StringsWhole == Spec => []EntriesWhole
<1>1. RegistryInv => EntriesWhole
  <2> SUFFICES ASSUME RegistryInv PROVE EntriesWhole
    OBVIOUS
  <2>1. ASSUME NEW m \in present, Coming(m) = {} PROVE text[m] = Of(value[m])
    <3>1. m \in Modules
      BY DEF RegistryInv, TypeOK
    <3>2. text[m] \in [Parts -> States \cup {None}]
      BY <3>1 DEF RegistryInv, TypeOK
    <3>3. \A part \in Parts : text[m][part] = value[m]
      BY <2>1, <3>1 DEF RegistryInv, EntryInv
    <3> QED BY <3>2, <3>3 DEF Of
  <2> QED BY <2>1 DEF EntriesWhole, RegistryInv, MutexHeld
<1> QED BY <1>1, RegistryInvariant, PTL

-----------------------------------------------------------------------------
(* The registry implements the regular register *)

LEMMA RegisterInits == Init => Register!Init
<1> SUFFICES ASSUME Init PROVE Register!Init
  OBVIOUS
<1>1. writing = {}
  BY DEF Init, writing, Assigners
<1> QED BY <1>1 DEF Init, Register!Init, reading, Reading, Op

\* A step that changes no reader, and no entry but the back of a string, is invisible.
LEMMA Invisible ==
  ASSUME UNCHANGED <<value, seen, torn, result>>, writing' = writing,
         \A u \in Clients : (Reading(u)' <=> Reading(u)) /\ (Reading(u) => call'[u] = call[u])
  PROVE  UNCHANGED Register!vars
<1>1. reading' = reading
  BY DEF reading
<1> QED BY <1>1 DEF Register!vars

\* What a reader reads, in the register's terms.
LEMMA ReadsModule ==
  ASSUME NEW m \in Modules, NEW t \in Clients
  PROVE  reading[t] = m <=> Reading(t) /\ call[t].mod = m
BY StateMachineAssumption DEF reading

LEMMA ShowStep ==
  ASSUME NEW m \in Modules, NEW s \in States, Show(m, s)
  PROVE  Register!Shows(m, s)
BY ReadsModule DEF Show, Register!Shows

LEMMA RegisterStep ==
  ASSUME RegistryInv, NEW t \in Clients, SetInitial(t)
  PROVE  Register!Next
<1>1. PICK m, s : m = call[t].mod /\ s = call[t].new
  OBVIOUS
<1>2. /\ m \in Modules /\ s \in States /\ m \notin present /\ pc[t] = "body"
      /\ value' = [value EXCEPT ![m] = s] /\ Show(m, s) /\ pc' = [pc EXCEPT ![t] = "unlock"]
      /\ UNCHANGED <<call, torn, result>>
  BY <1>1, CallTyped DEF SetInitial, Goto, Op
<1>3. writing' = writing
  <2>1. \A u \in Clients : pc'[u] = IF u = t THEN "unlock" ELSE pc[u]
    BY <1>2 DEF RegistryInv, TypeOK
  <2> QED BY <1>2, <2>1, WritingStands
<1>4. value[m] = Absent /\ reading' = reading
  BY <1>2 DEF RegistryInv, EntryInv, reading, Reading, Op
<1>5. Register!Register(m, s)
  BY <1>2, <1>3, <1>4, ShowStep DEF Register!Register
<1> QED BY <1>2, <1>5 DEF Register!Next

LEMMA BeginStep ==
  ASSUME RegistryInv, NEW t \in Clients, ChangeFront(t)
  PROVE  Register!Next
<1>1. PICK m, s : m = call[t].mod /\ s = call[t].new
  OBVIOUS
<1>2. /\ m \in Modules /\ s \in States /\ m \in present /\ pc[t] = "body"
      /\ Show(m, s) /\ pc' = [pc EXCEPT ![t] = "back"]
      /\ torn' = [u \in Clients |-> torn[u] \/ (Reading(u) /\ call[u].mod = m)]
      /\ UNCHANGED <<call, value, result>>
  BY <1>1, Assigning DEF ChangeFront, Goto
<1>3. writing = {} /\ writing' = {<<m, s>>}
  <2>1. \A u \in Clients : pc[u] \notin {"back", "length"}
    BY <1>2, OnlyAssigner DEF Inside
  <2>2. \A u \in Clients : pc'[u] \in {"back", "length"} <=> u = t
    BY <1>2, <2>1 DEF RegistryInv, TypeOK
  <2> QED BY <1>1, <1>2, <2>1, <2>2 DEF writing, Assigners
<1>4. value[m] # Absent /\ reading' = reading
  BY <1>2 DEF RegistryInv, EntryInv, reading, Reading, Op
<1>5. torn' = [u \in Clients |-> torn[u] \/ reading[u] = m]
  BY <1>2, ReadsModule
<1>6. Register!BeginChange(m, s)
  BY <1>2, <1>3, <1>4, <1>5, ShowStep DEF Register!BeginChange, Register!Coming
<1> QED BY <1>2, <1>6 DEF Register!Next

LEMMA EndStep ==
  ASSUME RegistryInv, NEW t \in Clients, ChangeLength(t)
  PROVE  Register!Next
<1>1. PICK m, s : m = call[t].mod /\ s = call[t].new
  OBVIOUS
<1>2. /\ m \in Modules /\ s \in States /\ pc[t] = "length" /\ pc' = [pc EXCEPT ![t] = "log"]
      /\ value' = [value EXCEPT ![m] = s] /\ UNCHANGED <<call, seen, torn, result>>
  BY <1>1, Assigning DEF ChangeLength, Goto, readVars
<1>3. writing = {<<m, s>>} /\ writing' = {}
  <2>1. \A u \in Clients : pc[u] \in {"back", "length"} => u = t
    BY <1>2, OnlyAssigner DEF Inside
  <2>2. \A u \in Clients : pc'[u] \notin {"back", "length"}
    BY <1>2, <2>1 DEF RegistryInv, TypeOK
  <2>3. writing = {<<m, s>>}
    BY <1>1, <1>2, OnlyAssigner DEF Inside
  <2> QED BY <2>2, <2>3 DEF writing, Assigners
<1>4. reading' = reading
  BY <1>2 DEF reading, Reading, Op
<1>5. Register!EndChange(m, s)
  BY <1>2, <1>3, <1>4 DEF Register!EndChange
<1> QED BY <1>2, <1>5 DEF Register!Next

LEMMA CallStep ==
  ASSUME RegistryInv, NEW t \in Clients, Call(t)
  PROVE  Register!Next \/ UNCHANGED Register!vars
<1> USE StateMachineAssumption
<1>1. PICK c \in Calls[t] :
        /\ call' = [call EXCEPT ![t] = c]
        /\ seen' = IF c.op = "getState"
                     THEN [seen EXCEPT ![t] = {value[c.mod]} \cup Coming(c.mod)] ELSE seen
        /\ torn' = IF c.op = "getState" THEN [torn EXCEPT ![t] = Coming(c.mod) # {}] ELSE torn
  BY DEF Call
<1>2. c \in CallRecord
  OBVIOUS
<1>3. c # None /\ c.mod \in Modules
  BY <1>2 DEF CallRecord
<1>4. /\ pc[t] = "idle" /\ pc' = [pc EXCEPT ![t] = "lock"] /\ UNCHANGED <<value, result>>
      /\ call[t] = None
  BY DEF Call, Goto, entryVars, RegistryInv, CallInPlace
<1>5. \A u \in Clients : pc'[u] = (IF u = t THEN "lock" ELSE pc[u])
                         /\ call'[u] = (IF u = t THEN c ELSE call[u])
  BY <1>1, <1>4 DEF RegistryInv, TypeOK
<1>6. writing' = writing
  BY <1>4, <1>5, WritingStands
<1>7. ~Reading(t) /\ (Reading(t)' <=> c.op = "getState")
  BY <1>3, <1>4, <1>5 DEF Reading, Op
<1>8. \A u \in Clients \ {t} : (Reading(u)' <=> Reading(u)) /\ call'[u] = call[u]
  BY <1>5 DEF Reading, Op
<1>9. CASE c.op = "getState"
  <2>1. reading' = [reading EXCEPT ![t] = c.mod] /\ reading[t] = Absent
    BY <1>5, <1>7, <1>8, <1>9 DEF reading
  <2>2. Register!Coming(c.mod) = Coming(c.mod)
    BY DEF Register!Coming, Coming
  <2>3. Register!BeginRead(t, c.mod)
    BY <1>1, <1>4, <1>6, <1>9, <2>1, <2>2 DEF Register!BeginRead
  <2> QED BY <1>3, <2>3 DEF Register!Next
<1>10. CASE c.op # "getState"
  BY <1>1, <1>4, <1>6, <1>7, <1>8, <1>10, Invisible
<1> QED BY <1>9, <1>10

LEMMA ReturnStep ==
  ASSUME RegistryInv, NEW t \in Clients, Return(t)
  PROVE  Register!Next
<1> USE StateMachineAssumption
<1>1. PICK answer \in TextsOf(copy[t]) :
        /\ pc[t] = "copy" /\ pc' = [pc EXCEPT ![t] = "idle"]
        /\ call' = [call EXCEPT ![t] = None]
        /\ seen' = [seen EXCEPT ![t] = {}] /\ torn' = [torn EXCEPT ![t] = FALSE]
        /\ result' = [result EXCEPT ![t] = answer] /\ UNCHANGED value
  BY Returned
<1>2. answer \in Register!Answers(t)
  BY WholeAnswers DEF Register!Answers
<1>3. Reading(t) /\ call[t].mod \in Modules
  BY <1>1, CallTyped DEF RegistryInv, CallInPlace, Reading, Op
<1>4. \A u \in Clients : pc'[u] = (IF u = t THEN "idle" ELSE pc[u])
                         /\ call'[u] = (IF u = t THEN None ELSE call[u])
  BY <1>1 DEF RegistryInv, TypeOK
<1>5. writing' = writing
  BY <1>1, <1>4, WritingStands
<1>6. reading' = [reading EXCEPT ![t] = Absent] /\ reading[t] # Absent
  BY <1>3, <1>4 DEF reading, Reading, Op
<1>7. Register!EndRead(t)
  BY <1>1, <1>2, <1>5, <1>6 DEF Register!EndRead
<1> QED BY <1>7 DEF Register!Next

LEMMA RegisterSteps == RegistryInv /\ [Next]_vars => [Register!Next]_(Register!vars)
<1> SUFFICES ASSUME RegistryInv, [Next]_vars
             PROVE  Register!Next \/ UNCHANGED Register!vars
  OBVIOUS
<1>1. CASE UNCHANGED vars \/ StartDump
  <2>1. UNCHANGED <<pc, call, value, seen, torn, result>>
    BY <1>1 DEF vars, StartDump, entryVars, readVars
  <2>2. writing' = writing
    BY <2>1, WritingStands
  <2> QED BY <2>1, <2>2, Invisible DEF Reading, Op
<1>2. ASSUME NEW t \in Clients, Call(t) \/ Lock(t) \/ Step(t)
      PROVE  Register!Next \/ UNCHANGED Register!vars
  <2>1. CASE Call(t) \/ SetInitial(t) \/ ChangeFront(t) \/ ChangeLength(t) \/ Return(t)
    BY <2>1, CallStep, RegisterStep, BeginStep, EndStep, ReturnStep
  <2>2. CASE SetInitialExists(t) \/ ChangeNothing(t) \/ GetFound(t) \/ Dump(t) \/ ChangeLog(t)
             \/ Lock(t) \/ GetNotFound(t) \/ CopyPart(t) \/ ChangeBack(t)
    <3>1. UNCHANGED <<value, seen, torn, result, call>>
      BY <2>2 DEF SetInitialExists, ChangeNothing, GetFound, Dump, Finish, ChangeLog, Lock,
                  GetNotFound, CopyPart, ChangeBack, entryVars, readVars
    <3>2. \/ pc' = pc
          \/ /\ pc[t] \in {"lock", "body", "log"}
             /\ pc' = [pc EXCEPT ![t] = "body"] \/ pc' = [pc EXCEPT ![t] = "unlock"]
          \/ pc[t] = "back" /\ pc' = [pc EXCEPT ![t] = "length"]
      BY <2>2 DEF SetInitialExists, ChangeNothing, GetFound, Dump, Finish, ChangeLog, Lock,
                  GetNotFound, CopyPart, ChangeBack, Goto
    <3>3. \A u \in Clients : pc'[u] \in {"back", "length"} <=> pc[u] \in {"back", "length"}
      BY <3>2 DEF RegistryInv, TypeOK
    <3>4. writing' = writing
      BY <3>1, <3>3, WritingStands
    <3> QED BY <3>1, <3>4, Invisible DEF Reading, Op
  <2>3. CASE Unlock(t)
    <3>1. pc[t] = "unlock" /\ UNCHANGED <<value, seen, torn, result>>
      BY <2>3 DEF Unlock, entryVars, readVars
    <3>2. \A u \in Clients : /\ u # t => pc'[u] = pc[u] /\ call'[u] = call[u]
                             /\ u = t => pc'[u] \in {"idle", "copy"}
      BY <2>3 DEF Unlock, Hangup, Goto, RegistryInv, TypeOK
    <3>3. call' = call \/ (~Reading(t) /\ call' = [call EXCEPT ![t] = None])
      BY <2>3 DEF Unlock, Hangup, Reading
    <3>4. writing' = writing
      BY <3>1, <3>2, WritingStands
    <3>5. \A u \in Clients : (Reading(u)' <=> Reading(u)) /\ (Reading(u) => call'[u] = call[u])
      BY <3>3 DEF Reading, Op, RegistryInv, TypeOK
    <3> QED BY <3>1, <3>4, <3>5, Invisible
  <2> QED BY <1>2, <2>1, <2>2, <2>3 DEF Step
<1> QED BY <1>1, <1>2 DEF Next

\* What getState's caller copies after the unlock is a state that the component had, or
\* was being given, during the call; only if an assignment overlapped the call may it be
\* a string that is no state, and if none did it is the state.  NetworkManager::init
\* relies on it.  It holds of every component: nothing is assumed of the names of the
\* states, "capturing" and "streaming" have one length.
THEOREM ImplementsRegister == Spec => RegisterSpec
<1>1. Init => Register!Init
  BY RegisterInits
<1>2. RegistryInv /\ [Next]_vars => [Register!Next]_(Register!vars)
  BY RegisterSteps
<1> QED BY <1>1, <1>2, RegistryInvariant, PTL DEF Spec, RegisterSpec, Register!Spec
=============================================================================
