------------------------------ MODULE BootProofs ------------------------------
(* Proofs about Boot: whatever order failures, restarts and the Wi-Fi link    *)
(* bring, a task finds what it uses and the server comes after a connection.  *)
EXTENDS Boot, TLAPS

(* The labels before the step that makes something. *)
BeforeNetif == {"nvs", "erase", "net"}
BeforeLoop == BeforeNetif \cup {"loop"}
BeforeMdns == BeforeLoop \cup {"mdns"}
BeforeEntries == BeforeMdns \cup {"state machine", "shelfbot", "camera", "microros"}
BeforeQueue == BeforeEntries \cup {"queue"}
BeforeWifiEntry == BeforeQueue \cup {WIFI}
BeforeGroup == BeforeWifiEntry \cup {"group"}
BeforeDriver == BeforeGroup \cup {"driver"}
BeforeHandlers == BeforeDriver \cup {"handlers"}
BeforeManager == BeforeHandlers \cup {"wifi task"}
BeforeMicroros == BeforeManager \cup {"microros mutex", "microros task"}
BeforeCamera == BeforeMicroros \cup {"camera init"}
BeforeOnline == BeforeCamera \cup {"poll", "copy"}
BeforeController == BeforeOnline \cup {"controller"}
BeforeServer == BeforeController \cup {"server"}
BeforeCapture == BeforeServer \cup {"routes", "capture"}

\* What has been made, by where app_main is.
MadeInv ==
  /\ pc \notin BeforeNetif => "netif" \in made
  /\ pc \notin BeforeLoop => "event loop" \in made
  /\ pc \notin BeforeMdns => "mdns" \in made
  /\ pc \notin BeforeQueue => "frame queue" \in made
  /\ pc \notin BeforeGroup => "event group" \in made
  /\ pc \notin BeforeDriver => "wifi" \in made
  /\ pc \notin BeforeHandlers => "handlers" \in made
  /\ pc \notin BeforeCamera => "camera" \in made
  /\ pc \notin BeforeController => "controller" \in made

\* Which tasks can be there.
TaskInv ==
  /\ "wifi_mgr" \in tasks => pc \notin BeforeManager
  /\ "microros_task" \in tasks => pc \notin BeforeMicroros
  /\ "httpd" \in tasks <=> pc \notin BeforeServer
  /\ "cam_capture" \in tasks => pc \notin BeforeCapture

\* Which entries the registry has.
EntryInv ==
  /\ pc \notin BeforeEntries => value["microros"] # Absent
  /\ pc \notin BeforeWifiEntry => value[WIFI] # Absent
  /\ value[WIFI] \in WifiStates \cup {Absent}
  /\ value["shelfbot"] = "running" => pc = "done"

\* What a poll has seen is what was.
OnlineInv ==
  /\ reading[Main] = IF pc = "copy" THEN WIFI ELSE Absent
  /\ value[WIFI] = "connected" => online
  /\ <<WIFI, "connected">> \in writing => online
  /\ "connected" \in seen[Main] => online
  /\ pc \notin BeforeOnline => online

BootInv == TypeOK /\ MadeInv /\ TaskInv /\ EntryInv /\ OnlineInv

LEMMA CheckedCalls ==
  ASSUME NEW l \in DOMAIN Checked
  PROVE  \/ l = "net" /\ Checked[l] = <<"netif", "loop">>
         \/ l = "loop" /\ Checked[l] = <<"event loop", "mdns">>
         \/ l = "mdns" /\ Checked[l] = <<"mdns", "state machine">>
         \/ l = "queue" /\ Checked[l] = <<"frame queue", WIFI>>
         \/ l = "group" /\ Checked[l] = <<"event group", "driver">>
         \/ l = "driver" /\ Checked[l] = <<"wifi", "handlers">>
         \/ l = "handlers" /\ Checked[l] = <<"handlers", "wifi task">>
         \/ l = "controller" /\ Checked[l] = <<"controller", "server">>
<1>0. l \in {"net", "loop", "mdns", "queue", "group", "driver", "handlers", "controller"}
  BY DEF Checked
<1>1. CASE l = "net"
  BY <1>1 DEF Checked
<1>2. CASE l = "loop"
  BY <1>2 DEF Checked
<1>3. CASE l = "mdns"
  BY <1>3 DEF Checked
<1>4. CASE l = "queue"
  BY <1>4 DEF Checked
<1>5. CASE l = "group"
  BY <1>5 DEF Checked
<1>6. CASE l = "driver"
  BY <1>6 DEF Checked
<1>7. CASE l = "handlers"
  BY <1>7 DEF Checked
<1>8. CASE l = "controller"
  BY <1>8 DEF Checked
<1> QED BY <1>0, <1>1, <1>2, <1>3, <1>4, <1>5, <1>6, <1>7, <1>8

LEMMA FirstEntries ==
  ASSUME NEW l \in Modules
  PROVE  \/ l = "shelfbot" /\ Entry[l] = <<"starting", "camera">>
         \/ l = "camera" /\ Entry[l] = <<"off", "microros">>
         \/ l = "microros" /\ Entry[l] = <<"off", "queue">>
         \/ l = WIFI /\ Entry[l] = <<"off", "group">>
<1>1. CASE l = "shelfbot"
  BY <1>1 DEF Entry
<1>2. CASE l = "camera"
  BY <1>2 DEF Entry
<1>3. CASE l = "microros"
  BY <1>3 DEF Entry
<1>4. CASE l = WIFI
  BY <1>4 DEF Entry, WIFI
<1> QED BY <1>1, <1>2, <1>3, <1>4 DEF Modules

\* The labels of app_main.
Labels ==
  {"nvs", "erase", "net", "loop", "mdns", "state machine", "shelfbot", "camera", "microros",
   "queue", WIFI, "group", "driver", "handlers", "wifi task", "microros mutex",
   "microros task", "camera init", "poll", "copy", "controller", "server", "routes",
   "capture", "announce", "done"}

LEMMA LabelTyped == TypeOK => pc \in Labels
BY CheckedCalls DEF TypeOK, Labels, Modules, WIFI

LEMMA LabelTypes == ASSUME NEW l \in Labels, pc' = l
                    PROVE  pc' \in DOMAIN Checked \cup Modules \cup
       {"nvs", "erase", "state machine", "wifi task", "microros mutex",
        "microros task", "camera init", "poll", "copy", "server", "routes", "capture",
        "announce", "done"}
BY DEF Labels, Checked, Modules, WIFI

LEMMA InitBoot == Init => BootInv
<1> SUFFICES ASSUME Init PROVE BootInv
  OBVIOUS
<1> USE BootAssumption DEF Init, Registry!Init
<1>1. TypeOK
  BY DEF TypeOK
<1>2. MadeInv /\ TaskInv
  BY DEF MadeInv, TaskInv, BeforeNetif, BeforeLoop, BeforeMdns, BeforeEntries, BeforeQueue,
         BeforeWifiEntry, BeforeGroup, BeforeDriver, BeforeHandlers, BeforeManager,
         BeforeMicroros, BeforeCamera, BeforeOnline, BeforeController, BeforeServer, BeforeCapture
<1>3. EntryInv /\ OnlineInv
  BY DEF EntryInv, OnlineInv, Modules, WIFI, States, WifiStates, BeforeEntries, BeforeWifiEntry,
         BeforeNetif, BeforeLoop, BeforeMdns, BeforeQueue, BeforeOnline, BeforeCamera, BeforeMicroros,
         BeforeManager, BeforeHandlers, BeforeDriver, BeforeGroup
<1> QED BY <1>1, <1>2, <1>3 DEF BootInv

\* A restart is a new beginning.
LEMMA RestartKeeps == BootInv /\ Restart => BootInv'
<1> SUFFICES ASSUME BootInv, Restart PROVE BootInv'
  OBVIOUS
<1> USE BootAssumption DEF Restart
<1>1. TypeOK'
  BY DEF BootInv, TypeOK
<1>2. MadeInv' /\ TaskInv'
  BY DEF MadeInv, TaskInv, BeforeNetif, BeforeLoop, BeforeMdns, BeforeEntries, BeforeQueue,
         BeforeWifiEntry, BeforeGroup, BeforeDriver, BeforeHandlers, BeforeManager,
         BeforeMicroros, BeforeCamera, BeforeOnline, BeforeController, BeforeServer, BeforeCapture
<1>3. EntryInv' /\ OnlineInv'
  BY DEF EntryInv, OnlineInv, Modules, WIFI, States, WifiStates, BeforeEntries, BeforeWifiEntry,
         BeforeNetif, BeforeLoop, BeforeMdns, BeforeQueue, BeforeOnline, BeforeCamera, BeforeMicroros,
         BeforeManager, BeforeHandlers, BeforeDriver, BeforeGroup
<1> QED BY <1>1, <1>2, <1>3 DEF BootInv

\* A step of app_main that leaves the registry alone and adds what it adds.
LEMMA MoveKeeps ==
  ASSUME BootInv, NEW l \in Labels, pc' = l, pc # "copy", l # "copy",
         made \subseteq made', made' \subseteq Made, tasks' \subseteq Tasks,
         routes' \subseteq Routes, nvs' \in {"ok", "full"}, UNCHANGED <<regVars, online, calm>>,
         MadeInv', TaskInv',
         l \notin BeforeEntries => pc \notin BeforeEntries,
         l \notin BeforeWifiEntry => pc \notin BeforeWifiEntry,
         pc # "done",
         l \notin BeforeOnline => pc \notin BeforeOnline
  PROVE  BootInv'
<1> USE BootAssumption
<1>1. UNCHANGED <<value, writing, reading, seen, torn, result>>
  BY DEF regVars
<1>2. TypeOK'
  BY <1>1, LabelTypes DEF BootInv, TypeOK
<1>3. EntryInv'
  BY <1>1 DEF BootInv, EntryInv
<1>4. OnlineInv'
  BY <1>1 DEF BootInv, OnlineInv
<1> QED BY <1>2, <1>3, <1>4 DEF BootInv

LEMMA NvsKeeps == BootInv /\ (NvsInit \/ NvsErase) => BootInv'
<1> SUFFICES ASSUME BootInv, NvsInit \/ NvsErase, ~Restart PROVE BootInv'
  BY RestartKeeps
<1>1. PICK l \in {"net", "erase", "nvs"} : pc' = l
  BY DEF NvsInit, NvsErase, Abort, Goto
<1>2. /\ pc \in {"nvs", "erase"} /\ nvs' \in {"ok", "full"}
      /\ UNCHANGED <<made, tasks, routes, regVars, online, calm>>
  BY DEF NvsInit, NvsErase, Abort, BootInv, TypeOK
<1>3. MadeInv' /\ TaskInv'
  BY <1>1, <1>2 DEF BootInv, MadeInv, TaskInv,
            BeforeNetif, BeforeLoop, BeforeMdns, BeforeEntries, BeforeQueue, BeforeWifiEntry,
            BeforeGroup, BeforeDriver, BeforeHandlers, BeforeManager, BeforeMicroros,
            BeforeCamera, BeforeOnline, BeforeController, BeforeServer, BeforeCapture
<1> QED BY <1>1, <1>2, <1>3, MoveKeeps
     DEF Labels, BootInv, TypeOK,
            BeforeNetif, BeforeLoop, BeforeMdns, BeforeEntries, BeforeQueue, BeforeWifiEntry,
            BeforeGroup, BeforeDriver, BeforeHandlers, BeforeManager, BeforeMicroros,
            BeforeCamera, BeforeOnline, BeforeController, BeforeServer, BeforeCapture

LEMMA CheckedKeeps == BootInv /\ CheckedCall => BootInv'
<1> SUFFICES ASSUME BootInv, CheckedCall, ~Restart PROVE BootInv'
  BY RestartKeeps
<1>1. /\ pc \in DOMAIN Checked /\ made' = made \cup {Checked[pc][1]} /\ pc' = Checked[pc][2]
      /\ UNCHANGED <<tasks, routes, regVars, online, nvs, calm>>
  BY DEF CheckedCall, Abort, Goto
<1>2. \/ pc = "net" /\ made' = made \cup {"netif"} /\ pc' = "loop"
      \/ pc = "loop" /\ made' = made \cup {"event loop"} /\ pc' = "mdns"
      \/ pc = "mdns" /\ made' = made \cup {"mdns"} /\ pc' = "state machine"
      \/ pc = "queue" /\ made' = made \cup {"frame queue"} /\ pc' = WIFI
      \/ pc = "group" /\ made' = made \cup {"event group"} /\ pc' = "driver"
      \/ pc = "driver" /\ made' = made \cup {"wifi"} /\ pc' = "handlers"
      \/ pc = "handlers" /\ made' = made \cup {"handlers"} /\ pc' = "wifi task"
      \/ pc = "controller" /\ made' = made \cup {"controller"} /\ pc' = "server"
  <2>0. pc \in {"net", "loop", "mdns", "queue", "group", "driver", "handlers", "controller"}
    BY <1>1 DEF Checked
  <2>1. CASE pc = "net"
    BY <1>1, <2>1 DEF Checked
  <2>2. CASE pc = "loop"
    BY <1>1, <2>2 DEF Checked
  <2>3. CASE pc = "mdns"
    BY <1>1, <2>3 DEF Checked
  <2>4. CASE pc = "queue"
    BY <1>1, <2>4 DEF Checked
  <2>5. CASE pc = "group"
    BY <1>1, <2>5 DEF Checked
  <2>6. CASE pc = "driver"
    BY <1>1, <2>6 DEF Checked
  <2>7. CASE pc = "handlers"
    BY <1>1, <2>7 DEF Checked
  <2>8. CASE pc = "controller"
    BY <1>1, <2>8 DEF Checked
  <2> QED BY <2>0, <2>1, <2>2, <2>3, <2>4, <2>5, <2>6, <2>7, <2>8
<1>3. made' \subseteq Made
  BY <1>1 DEF BootInv, TypeOK, Made
<1>4. MadeInv'
  BY <1>2 DEF BootInv, MadeInv, WIFI,
            BeforeNetif, BeforeLoop, BeforeMdns, BeforeEntries, BeforeQueue, BeforeWifiEntry,
            BeforeGroup, BeforeDriver, BeforeHandlers, BeforeManager, BeforeMicroros,
            BeforeCamera, BeforeOnline, BeforeController
<1>5. TaskInv'
  BY <1>1, <1>2 DEF BootInv, TaskInv, WIFI,
            BeforeNetif, BeforeLoop, BeforeMdns, BeforeEntries, BeforeQueue, BeforeWifiEntry,
            BeforeGroup, BeforeDriver, BeforeHandlers, BeforeManager, BeforeMicroros,
            BeforeCamera, BeforeOnline, BeforeController, BeforeServer, BeforeCapture
<1>6. /\ pc' \in Labels /\ pc \notin {"copy", "done"} /\ pc' # "copy"
      /\ pc' \notin BeforeEntries => pc \notin BeforeEntries
      /\ pc' \notin BeforeWifiEntry => pc \notin BeforeWifiEntry
      /\ pc' \notin BeforeOnline => pc \notin BeforeOnline
  BY <1>2 DEF Labels, WIFI,
            BeforeNetif, BeforeLoop, BeforeMdns, BeforeEntries, BeforeQueue, BeforeWifiEntry,
            BeforeGroup, BeforeDriver, BeforeHandlers, BeforeManager, BeforeMicroros,
            BeforeCamera, BeforeOnline
<1> QED BY <1>1, <1>3, <1>4, <1>5, <1>6, MoveKeeps DEF BootInv, TypeOK

LEMMA TasksKeep == BootInv /\ (StateMachineInit \/ WifiTask \/ MicrorosStart \/ StartServer) => BootInv'
<1> SUFFICES ASSUME BootInv, StateMachineInit \/ WifiTask \/ MicrorosStart \/ StartServer, ~Restart PROVE BootInv'
  BY RestartKeeps
<1>1. /\ \/ pc = "state machine" /\ pc' = "shelfbot" /\ tasks' \in {tasks, tasks \cup {"state_dump"}}
         \/ pc = "wifi task" /\ pc' = "microros mutex" /\ tasks' = tasks \cup {"wifi_mgr"}
         \/ pc = "microros task" /\ pc' = "camera init" /\ tasks' \in {tasks, tasks \cup {"microros_task"}}
         \/ pc = "server" /\ pc' = "routes" /\ tasks' = tasks \cup {"httpd"}
      /\ UNCHANGED <<made, routes>>
      /\ UNCHANGED <<regVars, online, nvs, calm>>
  BY DEF StateMachineInit, WifiTask, MicrorosStart, StartServer, Uncheckedly, Abort, Goto
<1>2. made \subseteq made' /\ made' \subseteq Made /\ tasks' \subseteq Tasks /\ routes' \subseteq Routes
  <2>1. tasks' \subseteq tasks \cup {"state_dump", "wifi_mgr", "microros_task", "httpd"}
    BY <1>1
  <2>2. tasks' \subseteq Tasks
    BY <2>1 DEF BootInv, TypeOK, Tasks
  <2>3. made \subseteq Made /\ routes \subseteq Routes
    BY DEF BootInv, TypeOK
  <2>4. made' = made /\ routes' = routes
    BY <1>1
  <2> QED BY <2>2, <2>3, <2>4
<1>3. MadeInv' /\ TaskInv'
  BY <1>1 DEF BootInv, MadeInv, TaskInv, BeforeNetif, BeforeLoop, BeforeMdns, BeforeEntries, BeforeQueue, BeforeWifiEntry,
            BeforeGroup, BeforeDriver, BeforeHandlers, BeforeManager, BeforeMicroros,
            BeforeCamera, BeforeOnline, BeforeController, BeforeServer, BeforeCapture, WIFI
<1>4. /\ pc' \in Labels /\ pc \notin {"copy", "done"} /\ pc' # "copy"
      /\ pc' \notin BeforeEntries => pc \notin BeforeEntries
      /\ pc' \notin BeforeWifiEntry => pc \notin BeforeWifiEntry
      /\ pc' \notin BeforeOnline => pc \notin BeforeOnline
  BY <1>1 DEF Labels, BeforeNetif, BeforeLoop, BeforeMdns, BeforeEntries, BeforeQueue, BeforeWifiEntry,
            BeforeGroup, BeforeDriver, BeforeHandlers, BeforeManager, BeforeMicroros,
            BeforeCamera, BeforeOnline, BeforeController, BeforeServer, BeforeCapture, WIFI
<1> QED BY <1>1, <1>2, <1>3, <1>4, MoveKeeps DEF BootInv, TypeOK

LEMMA RestKeeps == BootInv /\ (MicrorosInit \/ RegisterRoutes) => BootInv'
<1> SUFFICES ASSUME BootInv, MicrorosInit \/ RegisterRoutes, ~Restart PROVE BootInv'
  BY RestartKeeps
<1>1. /\ \/ pc = "microros mutex" /\ pc' = "microros task" /\ made' \in {made, made \cup {"microros mutex"}} /\ routes' = routes
         \/ pc = "routes" /\ pc' = "capture" /\ routes' \in SUBSET Routes /\ made' = made
      /\ UNCHANGED tasks
      /\ UNCHANGED <<regVars, online, nvs, calm>>
  BY DEF MicrorosInit, RegisterRoutes, Goto
<1>2. made \subseteq made' /\ made' \subseteq Made /\ tasks' \subseteq Tasks /\ routes' \subseteq Routes
  BY <1>1 DEF BootInv, TypeOK, Made, Tasks
<1>3. MadeInv' /\ TaskInv'
  BY <1>1 DEF BootInv, MadeInv, TaskInv, BeforeNetif, BeforeLoop, BeforeMdns, BeforeEntries, BeforeQueue, BeforeWifiEntry,
            BeforeGroup, BeforeDriver, BeforeHandlers, BeforeManager, BeforeMicroros,
            BeforeCamera, BeforeOnline, BeforeController, BeforeServer, BeforeCapture, WIFI
<1>4. /\ pc' \in Labels /\ pc \notin {"copy", "done"} /\ pc' # "copy"
      /\ pc' \notin BeforeEntries => pc \notin BeforeEntries
      /\ pc' \notin BeforeWifiEntry => pc \notin BeforeWifiEntry
      /\ pc' \notin BeforeOnline => pc \notin BeforeOnline
  BY <1>1 DEF Labels, BeforeNetif, BeforeLoop, BeforeMdns, BeforeEntries, BeforeQueue, BeforeWifiEntry,
            BeforeGroup, BeforeDriver, BeforeHandlers, BeforeManager, BeforeMicroros,
            BeforeCamera, BeforeOnline, BeforeController, BeforeServer, BeforeCapture, WIFI
<1> QED BY <1>1, <1>2, <1>3, <1>4, MoveKeeps DEF BootInv, TypeOK

LEMMA EntryTyped ==
  ASSUME value \in [Modules -> States \cup {Absent}], NEW m, NEW s \in States,
         value' = [value EXCEPT ![m] = s]
  PROVE  value' \in [Modules -> States \cup {Absent}]
OBVIOUS

\* Nobody reads while app_main registers the components.
LEMMA SetInitialKeeps == BootInv /\ SetInitial => BootInv'
<1> SUFFICES ASSUME BootInv, SetInitial PROVE BootInv'
  OBVIOUS
<1> USE BootAssumption
<1>1. /\ pc \in Modules /\ pc' = Entry[pc][2] /\ value' = [value EXCEPT ![pc] = Entry[pc][1]]
      /\ seen' = [t \in {Main} |-> IF reading[t] = pc THEN seen[t] \cup {Entry[pc][1]} ELSE seen[t]]
      /\ UNCHANGED <<made, tasks, routes, writing, reading, torn, result, online, nvs, calm>>
  BY DEF SetInitial, Goto, Registry!Register, Registry!Shows
<1>2. \/ pc = "shelfbot" /\ pc' = "camera" /\ value' = [value EXCEPT !["shelfbot"] = "starting"]
      \/ pc = "camera" /\ pc' = "microros" /\ value' = [value EXCEPT !["camera"] = "off"]
      \/ pc = "microros" /\ pc' = "queue" /\ value' = [value EXCEPT !["microros"] = "off"]
      \/ pc = WIFI /\ pc' = "group" /\ value' = [value EXCEPT ![WIFI] = "off"]
  <2>1. CASE pc = "shelfbot"
    BY <1>1, <2>1 DEF Entry
  <2>2. CASE pc = "camera"
    BY <1>1, <2>2 DEF Entry
  <2>3. CASE pc = "microros"
    BY <1>1, <2>3 DEF Entry
  <2>4. CASE pc = WIFI
    BY <1>1, <2>4 DEF Entry, WIFI
  <2> QED BY <1>1, <2>1, <2>2, <2>3, <2>4 DEF Modules
<1>3. /\ pc \in {"shelfbot", "camera", "microros", WIFI}
      /\ reading[Main] = Absent /\ reading \in [{Main} -> {WIFI, Absent}]
  BY <1>2 DEF BootInv, OnlineInv, TypeOK, WIFI
<1>4. seen' = seen
  BY <1>1, <1>3 DEF BootInv, TypeOK, Modules
<1>5. value' \in [Modules -> States \cup {Absent}]
  <2>1. \E m, s : s \in States /\ value' = [value EXCEPT ![m] = s]
    BY <1>2 DEF States, WifiStates
  <2> QED BY <2>1, EntryTyped DEF BootInv, TypeOK
<1>6. pc' \in {"camera", "microros", "queue", "group"}
  BY <1>2
<1>7. TypeOK'
  BY <1>1, <1>4, <1>5, <1>6 DEF BootInv, TypeOK, Modules, Checked
<1>8. MadeInv' /\ TaskInv'
  BY <1>1, <1>2 DEF BootInv, MadeInv, TaskInv, BeforeNetif, BeforeLoop, BeforeMdns, BeforeEntries, BeforeQueue, BeforeWifiEntry,
            BeforeGroup, BeforeDriver, BeforeHandlers, BeforeManager, BeforeMicroros,
            BeforeCamera, BeforeOnline, BeforeController, BeforeServer, BeforeCapture, WIFI
<1>9. EntryInv'
  BY <1>2 DEF BootInv, TypeOK, EntryInv, Modules, States, WifiStates, BeforeNetif, BeforeLoop, BeforeMdns, BeforeEntries, BeforeQueue, BeforeWifiEntry,
            BeforeGroup, BeforeDriver, BeforeHandlers, BeforeManager, BeforeMicroros,
            BeforeCamera, BeforeOnline, BeforeController, BeforeServer, BeforeCapture, WIFI
<1>10. OnlineInv'
  BY <1>1, <1>2, <1>4 DEF BootInv, TypeOK, OnlineInv, Modules, BeforeNetif, BeforeLoop, BeforeMdns, BeforeEntries, BeforeQueue, BeforeWifiEntry,
            BeforeGroup, BeforeDriver, BeforeHandlers, BeforeManager, BeforeMicroros,
            BeforeCamera, BeforeOnline, BeforeController, BeforeServer, BeforeCapture, WIFI
<1> QED BY <1>7, <1>8, <1>9, <1>10 DEF BootInv

LEMMA SetKeeps == BootInv /\ (CameraInit \/ StartCapture \/ Announce) => BootInv'
<1> SUFFICES ASSUME BootInv, CameraInit \/ StartCapture \/ Announce, ~Restart PROVE BootInv'
  BY RestartKeeps
<1> USE BootAssumption
<1>1. /\ \/ /\ pc = "camera init" /\ pc' = "poll" /\ value' = [value EXCEPT !["camera"] = "running"]
            /\ made' = made \cup {"camera"} /\ tasks' = tasks
         \/ /\ pc = "capture" /\ pc' = "announce" /\ value' = [value EXCEPT !["camera"] = "capturing"]
            /\ tasks' = tasks \cup {"cam_capture"} /\ made' = made
         \/ /\ pc = "capture" /\ pc' = "announce" /\ value' = [value EXCEPT !["camera"] = "error"]
            /\ tasks' = tasks /\ made' = made
         \/ /\ pc = "announce" /\ pc' = "done" /\ value' = [value EXCEPT !["shelfbot"] = "running"]
            /\ tasks' = tasks /\ made' = made
      /\ UNCHANGED <<routes, writing, reading, seen, torn, result, online, nvs, calm>>
  BY DEF CameraInit, StartCapture, Announce, Set, Goto, Abort
<1>2. value' \in [Modules -> States \cup {Absent}]
  <2>1. \E m, s : s \in States /\ value' = [value EXCEPT ![m] = s]
    BY <1>1 DEF States, WifiStates
  <2> QED BY <2>1, EntryTyped DEF BootInv, TypeOK
<1>3. pc' \in {"poll", "announce", "done"}
  BY <1>1
<1>4. made' \subseteq Made /\ tasks' \subseteq Tasks
  BY <1>1 DEF BootInv, TypeOK, Made, Tasks
<1>5. TypeOK'
  BY <1>1, <1>2, <1>3, <1>4 DEF BootInv, TypeOK
<1>6. MadeInv' /\ TaskInv'
  BY <1>1 DEF BootInv, MadeInv, TaskInv, BeforeNetif, BeforeLoop, BeforeMdns, BeforeEntries, BeforeQueue, BeforeWifiEntry,
            BeforeGroup, BeforeDriver, BeforeHandlers, BeforeManager, BeforeMicroros,
            BeforeCamera, BeforeOnline, BeforeController, BeforeServer, BeforeCapture, WIFI
<1>7. EntryInv'
  BY <1>1 DEF BootInv, TypeOK, EntryInv, Modules, States, WifiStates, BeforeNetif, BeforeLoop, BeforeMdns, BeforeEntries, BeforeQueue, BeforeWifiEntry,
            BeforeGroup, BeforeDriver, BeforeHandlers, BeforeManager, BeforeMicroros,
            BeforeCamera, BeforeOnline, BeforeController, BeforeServer, BeforeCapture, WIFI
<1>8. OnlineInv'
  BY <1>1 DEF BootInv, TypeOK, OnlineInv, Modules, BeforeNetif, BeforeLoop, BeforeMdns, BeforeEntries, BeforeQueue, BeforeWifiEntry,
            BeforeGroup, BeforeDriver, BeforeHandlers, BeforeManager, BeforeMicroros,
            BeforeCamera, BeforeOnline, BeforeController, BeforeServer, BeforeCapture, WIFI
<1> QED BY <1>5, <1>6, <1>7, <1>8 DEF BootInv

\* A poll may end with a state of Wi-Fi that is gone, but it was there.
LEMMA PollKeeps == BootInv /\ (PollBegin \/ PollEnd) => BootInv'
<1> SUFFICES ASSUME BootInv, PollBegin \/ PollEnd PROVE BootInv'
  OBVIOUS
<1> USE BootAssumption
<1>0. UNCHANGED <<made, tasks, routes, value, writing, online, nvs, calm>>
  BY DEF PollBegin, PollEnd, Registry!BeginRead, Registry!EndRead
<1>1. CASE PollBegin
  <2>1. /\ pc = "poll" /\ pc' = "copy"
        /\ reading' = [reading EXCEPT ![Main] = WIFI]
        /\ seen' = [seen EXCEPT ![Main] = {value[WIFI]} \cup Registry!Coming(WIFI)]
        /\ torn' = [torn EXCEPT ![Main] = Registry!Coming(WIFI) # {}] /\ result' = result
    BY <1>1 DEF PollBegin, Goto, Registry!BeginRead
  <2>2. /\ value[WIFI] \in WifiStates \cup {Absent}
        /\ Registry!Coming(WIFI) \subseteq WifiStates
        /\ "connected" \in Registry!Coming(WIFI) => online
    BY DEF BootInv, TypeOK, EntryInv, OnlineInv, Registry!Coming
  <2>3. TypeOK'
    BY <1>0, <2>1, <2>2 DEF BootInv, TypeOK
  <2>4. MadeInv' /\ TaskInv'
    BY <1>0, <2>1 DEF BootInv, MadeInv, TaskInv, BeforeNetif, BeforeLoop, BeforeMdns, BeforeEntries, BeforeQueue, BeforeWifiEntry,
            BeforeGroup, BeforeDriver, BeforeHandlers, BeforeManager, BeforeMicroros,
            BeforeCamera, BeforeOnline, BeforeController, BeforeServer, BeforeCapture, WIFI
  <2>5. EntryInv' /\ OnlineInv'
    BY <1>0, <2>1, <2>2 DEF BootInv, TypeOK, EntryInv, OnlineInv, BeforeNetif, BeforeLoop, BeforeMdns, BeforeEntries, BeforeQueue, BeforeWifiEntry,
            BeforeGroup, BeforeDriver, BeforeHandlers, BeforeManager, BeforeMicroros,
            BeforeCamera, BeforeOnline, BeforeController, BeforeServer, BeforeCapture, WIFI
  <2> QED BY <2>3, <2>4, <2>5 DEF BootInv
<1>2. CASE PollEnd
  <2>1. PICK answer \in Registry!Answers(Main) : result' = [result EXCEPT ![Main] = answer]
    BY <1>2 DEF PollEnd, Registry!EndRead
  <2>2. answer \in seen[Main] \cup {Torn}
    BY <2>1 DEF Registry!Answers
  <2>3. /\ pc = "copy" /\ reading' = [reading EXCEPT ![Main] = Absent]
        /\ seen' = [seen EXCEPT ![Main] = {}] /\ torn' = [torn EXCEPT ![Main] = FALSE]
        /\ pc' = IF answer = "connected" THEN "controller" ELSE "poll"
    BY <1>2, <2>1 DEF PollEnd, Goto, GoesOn, Registry!EndRead, BootInv, TypeOK
  <2>4. answer \in WifiStates \cup {Absent, Torn}
    BY <2>2 DEF BootInv, TypeOK
  <2>5. TypeOK'
    <3>1. pc' \in Labels
      BY <2>3 DEF Labels
    <3>2. result' \in [{Main} -> WifiStates \cup {Absent, Torn}]
      BY <2>1, <2>4 DEF BootInv, TypeOK
    <3> QED BY <1>0, <2>3, <3>1, <3>2, LabelTypes DEF BootInv, TypeOK
  <2>6. answer = "connected" => online
    BY <2>2 DEF BootInv, OnlineInv, States, WifiStates
  <2>7. MadeInv' /\ TaskInv'
    BY <1>0, <2>3 DEF BootInv, MadeInv, TaskInv, BeforeNetif, BeforeLoop, BeforeMdns, BeforeEntries, BeforeQueue, BeforeWifiEntry,
            BeforeGroup, BeforeDriver, BeforeHandlers, BeforeManager, BeforeMicroros,
            BeforeCamera, BeforeOnline, BeforeController, BeforeServer, BeforeCapture, WIFI
  <2>8. EntryInv' /\ OnlineInv'
    BY <1>0, <2>3, <2>6 DEF BootInv, TypeOK, EntryInv, OnlineInv, BeforeNetif, BeforeLoop, BeforeMdns, BeforeEntries, BeforeQueue, BeforeWifiEntry,
            BeforeGroup, BeforeDriver, BeforeHandlers, BeforeManager, BeforeMicroros,
            BeforeCamera, BeforeOnline, BeforeController, BeforeServer, BeforeCapture, WIFI
  <2> QED BY <2>5, <2>7, <2>8 DEF BootInv
<1> QED BY <1>1, <1>2

LEMMA WifiKeeps == BootInv /\ (WifiBegin \/ WifiEnd) => BootInv'
<1> SUFFICES ASSUME BootInv, WifiBegin \/ WifiEnd PROVE BootInv'
  OBVIOUS
<1> USE BootAssumption
<1>0. UNCHANGED <<pc, made, tasks, routes, reading, result, nvs, calm>>
  BY DEF WifiBegin, WifiEnd, Registry!BeginChange, Registry!EndChange, Registry!Shows
<1>1. MadeInv' /\ TaskInv'
  <2>1. MadeInv'
    BY <1>0 DEF BootInv, MadeInv
  <2>2. TaskInv'
    BY <1>0 DEF BootInv, TaskInv
  <2> QED BY <2>1, <2>2
<1>2. CASE WifiBegin
  <2>1. PICK s \in WifiStates :
          Registry!BeginChange(WIFI, s) /\ online' = (online \/ s = "connected")
    BY <1>2 DEF WifiBegin
  <2>2. /\ writing' = writing \cup {<<WIFI, s>>} /\ value' = value
        /\ torn' = [t \in {Main} |-> torn[t] \/ reading[t] = WIFI]
        /\ seen' = [t \in {Main} |-> IF reading[t] = WIFI THEN seen[t] \cup {s} ELSE seen[t]]
    BY <2>1 DEF Registry!BeginChange, Registry!Shows
  <2>3. TypeOK'
    <3>0. <<WIFI, s>> \in {WIFI} \X WifiStates /\ writing \subseteq {WIFI} \X WifiStates
      BY DEF BootInv, TypeOK
    <3>1. writing' \subseteq {WIFI} \X WifiStates
      BY <2>2, <3>0
    <3> QED BY <1>0, <2>1, <2>2, <3>1 DEF BootInv, TypeOK
  <2>4. EntryInv'
    BY <1>0, <2>2 DEF BootInv, EntryInv
  <2>5. seen'[Main] \subseteq seen[Main] \cup {s}
    BY <2>2
  <2>6. <<WIFI, "connected">> \in writing' => <<WIFI, "connected">> \in writing \/ s = "connected"
    BY <2>2
  <2>7. OnlineInv'
    BY <1>0, <2>1, <2>2, <2>5, <2>6 DEF BootInv, TypeOK, OnlineInv
  <2> QED BY <1>1, <2>3, <2>4, <2>7 DEF BootInv
<1>3. CASE WifiEnd
  <2>1. PICK s \in WifiStates : Registry!EndChange(WIFI, s) /\ online' = online
    BY <1>3 DEF WifiEnd
  <2>2. /\ <<WIFI, s>> \in writing /\ writing' = writing \ {<<WIFI, s>>}
        /\ value' = [value EXCEPT ![WIFI] = s] /\ torn' = torn /\ seen' = seen
    BY <2>1 DEF Registry!EndChange
  <2>3. s # Absent /\ s \in States
    BY DEF States, WifiStates
  <2>4. TypeOK'
    BY <1>0, <2>1, <2>2, <2>3 DEF BootInv, TypeOK
  <2>5. EntryInv'
    BY <1>0, <2>2, <2>3 DEF BootInv, TypeOK, EntryInv, Modules, WIFI
  <2>6. OnlineInv'
    BY <1>0, <2>1, <2>2 DEF BootInv, TypeOK, OnlineInv, Modules
  <2> QED BY <1>1, <2>4, <2>5, <2>6 DEF BootInv
<1> QED BY <1>2, <1>3

LEMMA BootStep == BootInv /\ [Next]_vars => BootInv'
<1> SUFFICES ASSUME BootInv, [Next]_vars PROVE BootInv'
  OBVIOUS
<1>1. CASE CalmDown \/ UNCHANGED vars
  <2>1. UNCHANGED <<pc, nvs, made, tasks, routes, value, writing, reading, seen, torn, result, online>>
        /\ calm' \in BOOLEAN
    BY <1>1 DEF CalmDown, vars, ramVars, regVars, BootInv, TypeOK
  <2>2. TypeOK'
    BY <2>1 DEF BootInv, TypeOK
  <2>3. MadeInv'
    BY <2>1 DEF BootInv, MadeInv
  <2>4. TaskInv'
    BY <2>1 DEF BootInv, TaskInv
  <2>5. EntryInv' /\ OnlineInv'
    BY <2>1 DEF BootInv, EntryInv, OnlineInv
  <2> QED BY <2>2, <2>3, <2>4, <2>5 DEF BootInv
<1>2. CASE PowerLoss
  BY <1>2, RestartKeeps DEF PowerLoss
<1>3. CASE NvsInit \/ NvsErase
  BY <1>3, NvsKeeps
<1>4. CASE CheckedCall
  BY <1>4, CheckedKeeps
<1>5. CASE StateMachineInit \/ WifiTask \/ MicrorosStart \/ StartServer
  BY <1>5, TasksKeep
<1>6. CASE MicrorosInit \/ RegisterRoutes
  BY <1>6, RestKeeps
<1>7. CASE SetInitial
  BY <1>7, SetInitialKeeps
<1>8. CASE CameraInit \/ StartCapture \/ Announce
  BY <1>8, SetKeeps
<1>9. CASE PollBegin \/ PollEnd
  BY <1>9, PollKeeps
<1>10. CASE WifiBegin \/ WifiEnd
  BY <1>10, WifiKeeps
<1> QED BY <1>1, <1>2, <1>3, <1>4, <1>5, <1>6, <1>7, <1>8, <1>9, <1>10 DEF Next, AppMain

\* What app_main has made, created, registered and seen agrees with where it is.
THEOREM BootInvariant == Spec => []BootInv
BY InitBoot, BootStep, PTL DEF Spec

\* The state of the boot is always of its type.
THEOREM BootTypes == Spec => []TypeOK
<1>1. BootInv => TypeOK
  BY DEF BootInv
<1> QED BY <1>1, BootInvariant, PTL

\* Every task finds what its body uses, after any number of restarts.
THEOREM TasksFindNeeds == Spec => []NeedsMet
<1>1. BootInv => NeedsMet
  <2> SUFFICES ASSUME BootInv, NEW t \in tasks
               PROVE  Needs(t) \subseteq made /\ \A m \in Entries(t) : value[m] # Absent
    BY DEF NeedsMet
  <2>0. pc \in Labels
    BY LabelTyped DEF BootInv
  <2>1. CASE t = "wifi_mgr"
    BY <2>0, <2>1 DEF BootInv, MadeInv, TaskInv, EntryInv, Needs, Entries, Labels, BeforeNetif, BeforeLoop, BeforeMdns, BeforeEntries, BeforeQueue, BeforeWifiEntry,
            BeforeGroup, BeforeDriver, BeforeHandlers, BeforeManager, BeforeMicroros,
            BeforeCamera, BeforeOnline, BeforeController, BeforeServer, BeforeCapture, WIFI
  <2>2. CASE t = "microros_task"
    BY <2>0, <2>2 DEF BootInv, MadeInv, TaskInv, EntryInv, Needs, Entries, Labels, BeforeNetif, BeforeLoop, BeforeMdns, BeforeEntries, BeforeQueue, BeforeWifiEntry,
            BeforeGroup, BeforeDriver, BeforeHandlers, BeforeManager, BeforeMicroros,
            BeforeCamera, BeforeOnline, BeforeController, BeforeServer, BeforeCapture, WIFI
  <2>3. CASE t = "httpd"
    BY <2>0, <2>3 DEF BootInv, MadeInv, TaskInv, EntryInv, Needs, Entries, Labels, BeforeNetif, BeforeLoop, BeforeMdns, BeforeEntries, BeforeQueue, BeforeWifiEntry,
            BeforeGroup, BeforeDriver, BeforeHandlers, BeforeManager, BeforeMicroros,
            BeforeCamera, BeforeOnline, BeforeController, BeforeServer, BeforeCapture, WIFI
  <2>4. CASE t = "cam_capture"
    BY <2>0, <2>4 DEF BootInv, MadeInv, TaskInv, EntryInv, Needs, Entries, Labels, BeforeNetif, BeforeLoop, BeforeMdns, BeforeEntries, BeforeQueue, BeforeWifiEntry,
            BeforeGroup, BeforeDriver, BeforeHandlers, BeforeManager, BeforeMicroros,
            BeforeCamera, BeforeOnline, BeforeController, BeforeServer, BeforeCapture, WIFI
  <2>5. CASE t \notin {"wifi_mgr", "microros_task", "httpd", "cam_capture"}
    BY <2>5 DEF Needs, Entries
  <2> QED BY <2>1, <2>2, <2>3, <2>4, <2>5
<1> QED BY <1>1, BootInvariant, PTL

\* The server comes after a connection, and RUNNING after the server.
THEOREM ServesOnline == Spec => []ServedOnline
<1>1. BootInv => ServedOnline
  BY DEF BootInv, ServedOnline, MadeInv, TaskInv, EntryInv, OnlineInv, BeforeNetif, BeforeLoop, BeforeMdns, BeforeEntries, BeforeQueue, BeforeWifiEntry,
            BeforeGroup, BeforeDriver, BeforeHandlers, BeforeManager, BeforeMicroros,
            BeforeCamera, BeforeOnline, BeforeController, BeforeServer, BeforeCapture, WIFI
<1> QED BY <1>1, BootInvariant, PTL
=============================================================================
