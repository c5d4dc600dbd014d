--------------------------------- MODULE Boot ---------------------------------
(***************************************************************************)
(* app_main and what it calls until it returns: main.cpp, NetworkManager,  *)
(* wifi_manager_init, MicrorosSync::init and start, CameraManager's        *)
(* initialize.  It runs while the tasks it has created already run.        *)
(*                                                                         *)
(* A failure under ESP_ERROR_CHECK or configASSERT restarts the chip, as   *)
(* does a loss of power: the flash is kept, everything else is lost.       *)
(* Other failures are ignored by the code and the boot goes on.            *)
(*                                                                         *)
(* The registry is StateRegister, which StateMachine implements; the Wi-Fi *)
(* manager, verified in WifiManager, is here what it does to its entry.    *)
(***************************************************************************)
CONSTANTS
  Routes,        \* the URIs of start_http_server
  Main,          \* the task of app_main
  Absent, Torn   \* answers of the registry

WIFI == "wifi_manager"
Modules == {"shelfbot", "camera", "microros", WIFI}
WifiStates == {"off", "connecting", "connected", "disconnected", "error"}
States == WifiStates \cup {"starting", "running", "capturing"}

ASSUME BootAssumption == Absent \notin States \cup Modules /\ Torn \notin States \cup {Absent}

VARIABLES
  pc,      \* where app_main is
  nvs,     \* the NVS partition: "ok", or "full" for no free pages or a new version
  made,    \* what has been initialised or created since the reset
  tasks,   \* the tasks created
  routes,  \* the URIs registered with the server
  value, writing, reading, seen, torn, result,  \* the registry
  online,  \* history: Wi-Fi has reported "connected" since the reset
  calm     \* no failure, no loss of power and no loss of the network any more

regVars == <<value, writing, reading, seen, torn, result>>
ramVars == <<pc, made, tasks, routes, regVars, online>>
vars == <<ramVars, nvs, calm>>

Registry == INSTANCE StateRegister WITH Clients <- {Main}

(* The calls of app_main in their order: the label of each, what it makes and *)
(* what comes next.  All of these are checked: failure is a restart.          *)

\* Mutant of Checked: the event handlers are not registered.
CheckedNoHandlers ==
  [net |-> <<"netif", "loop">>, loop |-> <<"event loop", "mdns">>,
   mdns |-> <<"mdns", "state machine">>, queue |-> <<"frame queue", WIFI>>,
   group |-> <<"event group", "driver">>, driver |-> <<"wifi", "wifi task">>,
   handlers |-> <<"handlers", "wifi task">>,
   controller |-> <<"controller", "server">>]

Checked ==
  [net |-> <<"netif", "loop">>, loop |-> <<"event loop", "mdns">>,
   mdns |-> <<"mdns", "state machine">>, queue |-> <<"frame queue", WIFI>>,
   group |-> <<"event group", "driver">>, driver |-> <<"wifi", "handlers">>,
   handlers |-> <<"handlers", "wifi task">>,
   controller |-> <<"controller", "server">>]

Made == {Checked[l][1] : l \in DOMAIN Checked} \cup {"microros mutex", "camera"}
Tasks == {"state_dump", "wifi_mgr", "microros_task", "httpd", "cam_capture"}

TypeOK ==
  /\ pc \in DOMAIN Checked \cup Modules \cup
       {"nvs", "erase", "state machine", "wifi task", "microros mutex",
        "microros task", "camera init", "poll", "copy", "server", "routes", "capture",
        "announce", "done"}
  /\ nvs \in {"ok", "full"}
  /\ made \subseteq Made /\ tasks \subseteq Tasks /\ routes \subseteq Routes
  /\ value \in [Modules -> States \cup {Absent}] /\ writing \subseteq {WIFI} \X WifiStates
  /\ reading \in [{Main} -> {WIFI, Absent}]
  /\ seen \in [{Main} -> SUBSET (WifiStates \cup {Absent})]
  /\ torn \in [{Main} -> BOOLEAN]
  /\ result \in [{Main} -> WifiStates \cup {Absent, Torn}]
  /\ online \in BOOLEAN /\ calm \in BOOLEAN

Init ==
  /\ pc = "nvs" /\ nvs \in {"ok", "full"}
  /\ made = {} /\ tasks = {} /\ routes = {}
  /\ Registry!Init
  /\ online = FALSE /\ calm = FALSE

\* abort() and loss of power.
Restart ==
  /\ pc' = "nvs"
  /\ made' = {} /\ tasks' = {} /\ routes' = {}
  /\ value' = [m \in Modules |-> Absent] /\ writing' = {}
  /\ reading' = [t \in {Main} |-> Absent] /\ seen' = [t \in {Main} |-> {}]
  /\ torn' = [t \in {Main} |-> FALSE] /\ result' = [t \in {Main} |-> Absent]
  /\ online' = FALSE
  /\ UNCHANGED <<nvs, calm>>

Abort == ~calm /\ Restart

Goto(l) == pc' = l
\* The entry of a component that nobody reads meanwhile.
Set(m, s) == value' = [value EXCEPT ![m] = s] /\ UNCHANGED <<writing, reading, seen, torn, result>>

-----------------------------------------------------------------------------
(* app_main *)

NvsInit ==
  /\ pc = "nvs"
  /\ \/ nvs = "ok" /\ Goto("net") /\ UNCHANGED <<made, tasks, routes, regVars, online, nvs, calm>>
     \/ nvs = "full" /\ Goto("erase") /\ UNCHANGED <<made, tasks, routes, regVars, online, nvs, calm>>
     \/ Abort

\* Mutant of NvsErase: the initialisation is tried again without erasing.
NvsRetry ==
  /\ pc = "erase"
  /\ \/ Goto("nvs") /\ UNCHANGED <<made, tasks, routes, regVars, online, nvs, calm>>
     \/ Abort

\* Erasing makes the partition good, and the second initialisation is checked.
NvsErase ==
  /\ pc = "erase"
  /\ \/ nvs' = "ok" /\ Goto("nvs") /\ UNCHANGED <<made, tasks, routes, regVars, online, calm>>
     \/ Abort

\* A call whose failure is a restart.
CheckedCall ==
  /\ pc \in DOMAIN Checked
  /\ \/ /\ made' = made \cup {Checked[pc][1]}
        /\ Goto(Checked[pc][2])
        /\ UNCHANGED <<tasks, routes, regVars, online, nvs, calm>>
     \/ Abort

\* A task that may silently not be created.
Uncheckedly(t) ==
  \/ tasks' = tasks \cup {t}
  \/ ~calm /\ UNCHANGED tasks

StateMachineInit ==
  /\ pc = "state machine"
  /\ Uncheckedly("state_dump")
  /\ Goto("shelfbot")
  /\ UNCHANGED <<made, routes, regVars, online, nvs, calm>>

Entry ==
  [shelfbot |-> <<"starting", "camera">>, camera |-> <<"off", "microros">>,
   microros |-> <<"off", "queue">>, wifi_manager |-> <<"off", "group">>]

\* setInitial, of wifi_manager_init too.
SetInitial ==
  /\ pc \in Modules
  /\ Registry!Register(pc, Entry[pc][1])
  /\ Goto(Entry[pc][2])
  /\ UNCHANGED <<made, tasks, routes, online, nvs, calm>>

\* The result of xTaskCreate reaches ESP_ERROR_CHECK in app_main.
WifiTask ==
  /\ pc = "wifi task"
  /\ \/ /\ tasks' = tasks \cup {"wifi_mgr"}
        /\ Goto("microros mutex")
        /\ UNCHANGED <<made, routes, regVars, online, nvs, calm>>
     \/ Abort

\* MicrorosSync::init: the entry exists already, so setInitial does nothing.
MicrorosInit ==
  /\ pc = "microros mutex"
  /\ made' = made \cup {"microros mutex"} \/ (~calm /\ UNCHANGED made)
  /\ Goto("microros task")
  /\ UNCHANGED <<tasks, routes, regVars, online, nvs, calm>>

MicrorosStart ==
  /\ pc = "microros task"
  /\ Uncheckedly("microros_task")
  /\ Goto("camera init")
  /\ UNCHANGED <<made, routes, regVars, online, nvs, calm>>

\* The driver answers that it is ready, so waitUntilReady returns at once.
CameraInit ==
  /\ pc = "camera init"
  /\ \/ /\ made' = made \cup {"camera"} /\ Set("camera", "running")
        /\ Goto("poll")
        /\ UNCHANGED <<tasks, routes, online, nvs, calm>>
     \/ Abort

-----------------------------------------------------------------------------
(* NetworkManager::init *)

PollBegin ==
  /\ pc = "poll"
  /\ Registry!BeginRead(Main, WIFI)
  /\ Goto("copy")
  /\ UNCHANGED <<made, tasks, routes, online, nvs, calm>>

\* Mutant of GoesOn: the loop ends as soon as Wi-Fi is not off or in error.
GoesOnWhenUp(answer) == answer \notin {"off", "error"}

GoesOn(answer) == answer = "connected"

PollEnd ==
  /\ pc = "copy"
  /\ Registry!EndRead(Main)
  /\ Goto(IF GoesOn(result'[Main]) THEN "controller" ELSE "poll")
  /\ UNCHANGED <<made, tasks, routes, online, nvs, calm>>

StartServer ==
  /\ pc = "server"
  /\ \/ /\ tasks' = tasks \cup {"httpd"}
        /\ Goto("routes")
        /\ UNCHANGED <<made, routes, regVars, online, nvs, calm>>
     \/ Abort

\* Nobody looks at what httpd_register_uri_handler returns.
RegisterRoutes ==
  /\ pc = "routes"
  /\ \E R \in SUBSET Routes : (calm => R = Routes) /\ routes' = R
  /\ Goto("capture")
  /\ UNCHANGED <<made, tasks, regVars, online, nvs, calm>>

\* startCapture's result is ignored.
StartCapture ==
  /\ pc = "capture"
  /\ \/ tasks' = tasks \cup {"cam_capture"} /\ Set("camera", "capturing")
     \/ ~calm /\ Set("camera", "error") /\ UNCHANGED tasks
  /\ Goto("announce")
  /\ UNCHANGED <<made, routes, online, nvs, calm>>

Announce ==
  /\ pc = "announce"
  /\ Set("shelfbot", "running")
  /\ Goto("done")
  /\ UNCHANGED <<made, tasks, routes, online, nvs, calm>>

-----------------------------------------------------------------------------
(* The others *)

\* The manager task and the event task change the Wi-Fi entry; a change to the
\* state it has is none.  In calm the link comes up and stays up.
WifiBegin ==
  /\ "wifi_mgr" \in tasks
  /\ \E s \in WifiStates \ {"off", value[WIFI]} :
       /\ calm => value[WIFI] # "connected" /\ s \notin {"disconnected", "error"}
       /\ Registry!BeginChange(WIFI, s)
       /\ online' = (online \/ s = "connected")
  /\ UNCHANGED <<pc, made, tasks, routes, nvs, calm>>

WifiEnd ==
  /\ \E s \in WifiStates : Registry!EndChange(WIFI, s)
  /\ UNCHANGED <<pc, made, tasks, routes, online, nvs, calm>>

PowerLoss == ~calm /\ Restart

CalmDown ==
  /\ ~calm /\ calm' = TRUE
  /\ UNCHANGED <<ramVars, nvs>>

AppMain ==
  \/ NvsInit \/ NvsErase \/ CheckedCall
  \/ StateMachineInit \/ SetInitial
  \/ WifiTask \/ MicrorosInit \/ MicrorosStart \/ CameraInit
  \/ PollBegin \/ PollEnd \/ StartServer \/ RegisterRoutes
  \/ StartCapture \/ Announce

Next == AppMain \/ WifiBegin \/ WifiEnd \/ PowerLoss \/ CalmDown

Spec == Init /\ [][Next]_vars

\* The scheduler runs every task, and a network that stays is joined in the end
\* (WifiManager!Reconnects).
FairSpec == Spec /\ WF_vars(AppMain) /\ WF_vars(WifiBegin \/ WifiEnd)

-----------------------------------------------------------------------------
(* Properties *)

\* What the body of each task uses without a check.
Needs(t) ==
  CASE t = "wifi_mgr" -> {"netif", "event loop", "event group", "wifi", "handlers"}
    [] t = "microros_task" -> {"netif", "mdns"}
    [] t = "httpd" -> {"netif", "wifi", "frame queue", "controller"}
    [] t = "cam_capture" -> {"camera", "frame queue"}
    [] OTHER -> {}

\* changeState on a component that is not registered does nothing and is
\* rarely noticed.
Entries(t) ==
  CASE t = "wifi_mgr" -> {WIFI} [] t = "microros_task" -> {"microros"} [] OTHER -> {}

\* The tasks run before app_main is through: whatever order the boot takes,
\* restarts included, a task finds what it uses (network_manager.hpp:17 names a
\* part of it for the server).
NeedsMet ==
  \A t \in tasks : Needs(t) \subseteq made /\ \A m \in Entries(t) : value[m] # Absent

\* NetworkManager::init reads the Wi-Fi entry without the registry's mutex and
\* while it is being changed: the server never starts before there has been a
\* connection (line 60), and RUNNING means it was started.
ServedOnline ==
  /\ "httpd" \in tasks => online
  /\ value["shelfbot"] = "running" => "httpd" \in tasks /\ "camera" \in made

\* Whatever happened before, a boot that nothing disturbs any more gets to
\* RUNNING: a full NVS partition is erased once, and the poll notices the link.
BootEnds == calm ~> [](value["shelfbot"] = "running")
=============================================================================
