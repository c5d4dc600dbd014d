------------------------------ MODULE WifiManager ------------------------------
(***************************************************************************)
(* The Wi-Fi manager (components/wifi_manager/wifi_manager.cpp): the       *)
(* manager task that scans, connects, monitors and roams, and the system   *)
(* event task that runs on_wifi_event and on_ip_event.  The two tasks run  *)
(* on different cores and share the event group s_evt, s_current_state,    *)
(* s_info and the "wifi_manager" entry of the state machine registry.      *)
(*                                                                         *)
(* The Wi-Fi driver and the air are external: the link goes idle ->        *)
(* joining -> up, and every change the firmware is told about is posted to *)
(* the event loop's FIFO, to be handled any time later.                    *)
(*                                                                         *)
(* Left out, because nothing tests them: the log, the ip, uptime and       *)
(* degraded fields of s_info (degraded is rssi < RSSI_WARN) and the two    *)
(* report-only counters s_switches and s_reconnects.                       *)
(***************************************************************************)
EXTENDS Integers, Sequences, FiniteSets

CONSTANTS
  Creds,            \* slots of s_creds that menuconfig may fill
  NoCred,           \* the -1 of scan_pick_best, and an empty s_info.ssid
  RETRIES_PER_NET,  \* CONFIG_WIFI_RETRIES_PER_NETWORK
  DEGRADE_N,        \* CONFIG_WIFI_DEGRADED_CONFIRM_N
  RSSI_WARN,        \* CONFIG_WIFI_RSSI_WARN_THRESHOLD
  RSSI_CRITICAL,    \* CONFIG_WIFI_RSSI_CRITICAL_THRESHOLD
  Readings,         \* the RSSI values a reading may return
  EventLag,         \* bound: events posted and not yet dispatched
  SlowJoin          \* TRUE: no join is decided before the manager waits for it

ASSUME WifiAssumption ==
  /\ NoCred \notin Creds
  /\ RETRIES_PER_NET \in Nat \ {0}
  /\ DEGRADE_N \in Nat \ {0}
  /\ RSSI_WARN \in Int /\ RSSI_CRITICAL \in Int
  /\ Readings \subseteq Int
  /\ EventLag \in Nat \ {0}
  /\ SlowJoin \in BOOLEAN

VARIABLES
  creds,    \* the configured slots: non-empty ssid in s_creds
  mgr,      \* where the manager task is
  ci,       \* manager: the credential being used
  attempt,  \* manager: attempt number of this round
  streak,   \* s_degrade_streak
  got,      \* the awaited bits that the manager's last wait returned
  waiting,  \* the bits the manager is blocked on ({} when it is not)
  bits,     \* the event group s_evt
  evq,      \* the event loop's queue
  hnd,      \* where the event task is
  ev,       \* the event it is handling
  cur,      \* s_current_state
  pub,      \* per task: the state set_wifi_state has yet to copy to s_info
  info,     \* s_info
  reg,      \* the "wifi_manager" entry of the state machine registry
  link,     \* driver: the station's link
  net,      \* driver: the network esp_wifi_set_config chose
  calm      \* environment: from now on the network is there and answers

mgrVars == <<mgr, ci, attempt, streak, got>>
evtVars == <<evq, hnd, ev>>
drvVars == <<link, net>>
vars == <<creds, mgrVars, waiting, bits, evtVars, cur, pub, info, reg, drvVars, calm>>

-----------------------------------------------------------------------------
(* Vocabulary *)

Tasks     == {"mgr", "evt"}
PublicBits  == {"CONNECTED", "DISCONNECTED"}          \* WM_..._BIT
PrivateBits == {"GOT_IP", "EVT_DISC"}                 \* EVT_...
WmStates  == {"IDLE", "SCANNING", "CONNECTING", "CONNECTED", "DEGRADED"}
RegStates == {"off", "connecting", "connected", "error", "disconnected"}
Events    == {"STA_DISCONNECTED", "STA_GOT_IP"}
Links     == {"idle", "joining", "up"}
Silent    == "-"                                      \* nothing to publish

MgrSteps == {"loop", "scan", "round", "regConnecting", "attempt", "disc",
             "discCall", "discWait", "start", "connCall", "connWait",
             "connected", "regConnected", "monitor", "monWait", "roamScan",
             "clearForSwitch", "setForSwitch"}
HndSteps == {"idle", "clear", "set", "state", "reg"}

\* Mutant of ClearsBits: on_wifi_event forgets to clear WM_CONNECTED_BIT.
KeepsConnected(e) == IF e = "STA_GOT_IP" THEN {"DISCONNECTED", "EVT_DISC"} ELSE {}

\* The table of what the two handlers do with each event.
ClearsBits(e) == IF e = "STA_GOT_IP" THEN {"DISCONNECTED", "EVT_DISC"} ELSE {"CONNECTED"}
SetsBits(e)   == IF e = "STA_GOT_IP" THEN {"CONNECTED", "GOT_IP"}
                                     ELSE {"DISCONNECTED", "EVT_DISC"}
SetsState(e)  == IF e = "STA_GOT_IP" THEN "CONNECTED" ELSE "SCANNING"
SetsReg(e)    == IF e = "STA_GOT_IP" THEN "connected" ELSE "disconnected"

TypeOK ==
  /\ creds \subseteq Creds
  /\ mgr \in MgrSteps
  /\ ci \in creds \cup {NoCred}
  /\ attempt \in 1..(RETRIES_PER_NET + 1)
  /\ streak \in 0..(DEGRADE_N - 1)
  /\ got \subseteq PrivateBits
  /\ waiting \subseteq PrivateBits
  /\ bits \subseteq (PublicBits \cup PrivateBits)
  /\ evq \in Seq(Events) /\ Len(evq) <= EventLag
  /\ hnd \in HndSteps
  /\ ev \in Events
  /\ cur \in WmStates
  /\ pub \in [Tasks -> WmStates \cup {Silent}]
  /\ info \in [state : WmStates, ssid : Creds \cup {NoCred}, rssi : Int]
  /\ reg \in RegStates
  /\ link \in Links
  /\ net \in Creds \cup {NoCred}
  /\ calm \in BOOLEAN

\* The state wifi_manager_init leaves behind when it starts the manager task.
Init ==
  /\ creds \in SUBSET Creds
  /\ mgr = "loop" /\ ci = NoCred /\ attempt = 1 /\ streak = 0 /\ got = {}
  /\ waiting = {} /\ bits = {"DISCONNECTED"}
  /\ evq = <<>> /\ hnd = "idle" /\ ev = "STA_DISCONNECTED"
  /\ cur = "IDLE" /\ pub = [t \in Tasks |-> Silent]
  /\ info = [state |-> "IDLE", ssid |-> NoCred, rssi |-> 0]
  /\ reg = "off"
  /\ link = "idle" /\ net = NoCred
  /\ calm = FALSE

-----------------------------------------------------------------------------
(* Shared helpers *)

\* set_wifi_state: nothing if unchanged, else s_current_state now and
\* s_info.state in the critical section of PublishState.
SetWifiState(t, s) ==
  IF cur = s THEN UNCHANGED <<cur, pub>>
             ELSE cur' = s /\ pub' = [pub EXCEPT ![t] = s]

PublishState(t) ==
  /\ pub[t] # Silent
  /\ info' = [info EXCEPT !.state = pub[t]]
  /\ pub' = [pub EXCEPT ![t] = Silent]
  /\ UNCHANGED <<creds, mgrVars, waiting, bits, evtVars, cur, reg, drvVars, calm>>

\* xEventGroupSetBits: a waiter whose condition is now met is woken with the
\* bits as they are at this moment, and its clear-on-exit happens here.
SetBits(b) ==
  LET now == bits \cup b IN
  IF now \cap waiting # {}
    THEN bits' = now \ waiting /\ got' = now \cap waiting /\ waiting' = {}
    ELSE bits' = now /\ UNCHANGED <<got, waiting>>

\* xEventGroupWaitBits(.., W, clearOnExit, any) called at the step before
\* blocked: take the bits at once, or block until SetBits or Timeout ends it.
WaitBits(W, blocked) ==
  /\ mgr' = blocked
  /\ IF bits \cap W # {}
       THEN got' = bits \cap W /\ bits' = bits \ W /\ UNCHANGED waiting
       ELSE waiting' = W /\ UNCHANGED <<got, bits>>

\* The manager stands at step s and is not inside set_wifi_state.
At(s) == mgr = s /\ pub["mgr"] = Silent

\* The wait begun before step s is over.
Waited(s) == At(s) /\ waiting = {}

\* The driver posts an event; the guard is the EventLag bound.
Post(e) == Len(evq) < EventLag /\ evq' = Append(evq, e)

\* An event is queued or has yet to reach its xEventGroupSetBits.
Coming(e) == (\E i \in 1..Len(evq) : evq[i] = e) \/ (hnd \in {"clear", "set"} /\ ev = e)

\* What scan_pick_best may answer: any configured network that is visible,
\* or none.  In calm air some configured network is found.
ScanAnswers == IF calm THEN creds ELSE creds \cup {NoCred}

-----------------------------------------------------------------------------
(* The manager task: manager_task and the helpers it calls *)

\* Top of the outer loop, with no skip_scan.
TopOfLoop ==
  /\ At("loop")
  /\ IF creds = {}
       THEN SetWifiState("mgr", "IDLE") /\ UNCHANGED mgr
       ELSE SetWifiState("mgr", "SCANNING") /\ mgr' = "scan"
  /\ UNCHANGED <<creds, ci, attempt, streak, got, waiting, bits, evtVars, info, reg, drvVars, calm>>

\* publish_info(nullptr, 0, false); ci = scan_pick_best().
ScanForNetwork ==
  /\ At("scan")
  /\ info' = [info EXCEPT !.rssi = 0]
  /\ \E found \in ScanAnswers :
       /\ ci' = found
       /\ mgr' = IF found = NoCred THEN "loop" ELSE "round"
  /\ UNCHANGED <<creds, attempt, streak, got, waiting, bits, evtVars, cur, pub, reg, drvVars, calm>>

BeginRound ==
  /\ At("round")
  /\ SetWifiState("mgr", "CONNECTING")
  /\ attempt' = 1
  /\ mgr' = "regConnecting"
  /\ UNCHANGED <<creds, ci, streak, got, waiting, bits, evtVars, info, reg, drvVars, calm>>

RegisterConnecting ==
  /\ At("regConnecting")
  /\ reg' = "connecting"
  /\ mgr' = "attempt"
  /\ UNCHANGED <<creds, ci, attempt, streak, got, waiting, bits, evtVars, cur, pub, info, drvVars, calm>>

\* disconnect_blocking, first line.
ForgetOldEvents ==
  /\ At("attempt")
  /\ attempt <= RETRIES_PER_NET
  /\ bits' = bits \ PrivateBits
  /\ mgr' = "disc"
  /\ UNCHANGED <<creds, ci, attempt, streak, got, waiting, evtVars, cur, pub, info, reg, drvVars, calm>>

\* Mutant of Disconnect: the call to esp_wifi_disconnect is missing.
DisconnectMissing ==
  /\ At("disc")
  /\ mgr' = "discCall"
  /\ UNCHANGED <<creds, ci, attempt, streak, got, waiting, bits, evtVars, cur, pub, info, reg, drvVars, calm>>

\* esp_wifi_disconnect: tears down a link or a join, and says so in an event.
Disconnect ==
  /\ At("disc")
  /\ IF link = "idle"
       THEN UNCHANGED <<link, evq>>
       ELSE link' = "idle" /\ Post("STA_DISCONNECTED")
  /\ mgr' = "discCall"
  /\ UNCHANGED <<creds, ci, attempt, streak, got, waiting, bits, hnd, ev, cur, pub, info, reg, net, calm>>

\* Mutant of AwaitDisconnect: nobody waits for the event of the teardown.
AwaitDisconnectNot ==
  /\ At("discCall")
  /\ mgr' = "discWait"
  /\ UNCHANGED <<creds, ci, attempt, streak, got, waiting, bits, evtVars, cur, pub, info, reg, drvVars, calm>>

AwaitDisconnect ==
  /\ At("discCall")
  /\ WaitBits({"EVT_DISC"}, "discWait")
  /\ UNCHANGED <<creds, ci, attempt, streak, evtVars, cur, pub, info, reg, drvVars, calm>>

\* disconnect_blocking, last line.
ForgetEventsAgain ==
  /\ Waited("discWait")
  /\ bits' = bits \ PrivateBits
  /\ mgr' = "start"
  /\ UNCHANGED <<creds, ci, attempt, streak, got, waiting, evtVars, cur, pub, info, reg, drvVars, calm>>

\* start_connect; when set_config or connect fails the attempt is spent.
StartConnect ==
  /\ At("start")
  /\ \/ link' = "joining" /\ net' = ci /\ mgr' = "connCall" /\ UNCHANGED attempt
     \/ ~calm /\ attempt' = attempt + 1 /\ mgr' = "attempt" /\ UNCHANGED drvVars
  /\ UNCHANGED <<creds, ci, streak, got, waiting, bits, evtVars, cur, pub, info, reg, calm>>

AwaitConnect ==
  /\ At("connCall")
  /\ WaitBits({"GOT_IP", "EVT_DISC"}, "connWait")
  /\ UNCHANGED <<creds, ci, attempt, streak, evtVars, cur, pub, info, reg, drvVars, calm>>

AttemptOutcome ==
  /\ Waited("connWait")
  /\ IF "GOT_IP" \in got
       THEN mgr' = "connected" /\ UNCHANGED attempt
       ELSE mgr' = "attempt" /\ attempt' = attempt + 1
  /\ UNCHANGED <<creds, ci, streak, got, waiting, bits, evtVars, cur, pub, info, reg, drvVars, calm>>

GiveUpRound ==
  /\ At("attempt")
  /\ attempt > RETRIES_PER_NET
  /\ reg' = "error"
  /\ attempt' = 1
  /\ mgr' = "loop"
  /\ UNCHANGED <<creds, ci, streak, got, waiting, bits, evtVars, cur, pub, info, drvVars, calm>>

\* Mutant of EnterConnected: publish_info(nullptr, ..) leaves the old name.
EnterConnectedUnnamed ==
  /\ At("connected")
  /\ streak' = 0
  /\ info' = [info EXCEPT !.rssi = 0]
  /\ mgr' = "regConnected"
  /\ UNCHANGED <<creds, ci, attempt, got, waiting, bits, evtVars, cur, pub, reg, drvVars, calm>>

\* publish_info(s_creds[ci].ssid, 0, false).
EnterConnected ==
  /\ At("connected")
  /\ streak' = 0
  /\ info' = [info EXCEPT !.ssid = ci, !.rssi = 0]
  /\ mgr' = "regConnected"
  /\ UNCHANGED <<creds, ci, attempt, got, waiting, bits, evtVars, cur, pub, reg, drvVars, calm>>

\* Mutant of RegisterConnected: the monitor starts from cleared event bits.
RegisterConnectedForgetful ==
  /\ At("regConnected")
  /\ reg' = "connected"
  /\ bits' = bits \ PrivateBits
  /\ mgr' = "monitor"
  /\ UNCHANGED <<creds, ci, attempt, streak, got, waiting, evtVars, cur, pub, info, drvVars, calm>>

RegisterConnected ==
  /\ At("regConnected")
  /\ reg' = "connected"
  /\ mgr' = "monitor"
  /\ UNCHANGED <<creds, ci, attempt, streak, got, waiting, bits, evtVars, cur, pub, info, drvVars, calm>>

AwaitLoss ==
  /\ At("monitor")
  /\ WaitBits({"EVT_DISC"}, "monWait")
  /\ UNCHANGED <<creds, ci, attempt, streak, evtVars, cur, pub, info, reg, drvVars, calm>>

\* Mutant of NoticeLoss: the break out of the monitor loop is missing.
NoticeLossStays ==
  /\ Waited("monWait")
  /\ "EVT_DISC" \in got
  /\ SetWifiState("mgr", "SCANNING")
  /\ mgr' = "monitor"
  /\ UNCHANGED <<creds, ci, attempt, streak, got, waiting, bits, evtVars, info, reg, drvVars, calm>>

NoticeLoss ==
  /\ Waited("monWait")
  /\ "EVT_DISC" \in got
  /\ SetWifiState("mgr", "SCANNING")
  /\ mgr' = "loop"
  /\ UNCHANGED <<creds, ci, attempt, streak, got, waiting, bits, evtVars, info, reg, drvVars, calm>>

\* Mutant of MonitorRssi: a good reading counts as a weak one.
MonitorRssiCountsAll ==
  /\ Waited("monWait")
  /\ "EVT_DISC" \notin got
  /\ IF link # "up"
       THEN mgr' = "monitor" /\ UNCHANGED <<streak, info>>
       ELSE \E rssi \in Readings :
              LET act == rssi < RSSI_CRITICAL \/ streak + 1 >= DEGRADE_N IN
              /\ calm => rssi >= RSSI_WARN
              /\ info' = [info EXCEPT !.rssi = rssi]
              /\ streak' = IF act THEN 0 ELSE streak + 1
              /\ mgr' = IF act THEN "roamScan" ELSE "monitor"
  /\ UNCHANGED <<creds, ci, attempt, got, waiting, bits, evtVars, cur, pub, reg, drvVars, calm>>

\* monitor_rssi, after a timed-out wait.  Without a link there is no reading.
MonitorRssi ==
  /\ Waited("monWait")
  /\ "EVT_DISC" \notin got
  /\ IF link # "up"
       THEN mgr' = "monitor" /\ UNCHANGED <<streak, info>>
       ELSE \E rssi \in Readings :
              LET weak == streak + 1
                  act  == rssi < RSSI_WARN /\ (rssi < RSSI_CRITICAL \/ weak >= DEGRADE_N)
              IN
              /\ calm => rssi >= RSSI_WARN
              /\ info' = [info EXCEPT !.rssi = rssi]
              /\ streak' = IF rssi >= RSSI_WARN \/ act THEN 0 ELSE weak
              /\ mgr' = IF act THEN "roamScan" ELSE "monitor"
  /\ UNCHANGED <<creds, ci, attempt, got, waiting, bits, evtVars, cur, pub, reg, drvVars, calm>>

\* Mutant of RoamScan: the answer of the scan is taken over before it is looked at.
RoamScanTakesOver ==
  /\ At("roamScan")
  /\ ci' \in ScanAnswers
  /\ mgr' = IF ci' \in {NoCred, ci} THEN "monitor" ELSE "clearForSwitch"
  /\ UNCHANGED <<creds, attempt, streak, got, waiting, bits, evtVars, cur, pub, info, reg, drvVars, calm>>

RoamScan ==
  /\ At("roamScan")
  /\ \E better \in ScanAnswers :
       IF better \in {NoCred, ci}
         THEN mgr' = "monitor" /\ UNCHANGED ci
         ELSE mgr' = "clearForSwitch" /\ ci' = better
  /\ UNCHANGED <<creds, attempt, streak, got, waiting, bits, evtVars, cur, pub, info, reg, drvVars, calm>>

ClearForSwitch ==
  /\ At("clearForSwitch")
  /\ bits' = bits \ {"CONNECTED"}
  /\ mgr' = "setForSwitch"
  /\ UNCHANGED <<creds, ci, attempt, streak, got, waiting, evtVars, cur, pub, info, reg, drvVars, calm>>

\* The loop top that follows finds skip_scan set and goes straight on.
SetForSwitch ==
  /\ At("setForSwitch")
  /\ SetBits({"DISCONNECTED"})
  /\ mgr' = "round"
  /\ UNCHANGED <<creds, ci, attempt, streak, evtVars, cur, pub, info, reg, drvVars, calm>>

\* The wait of disconnect_blocking, of the connection attempt or of the
\* monitor times out.  The first two time out in calm air only when what they
\* wait for is not coming.
Timeout ==
  /\ waiting # {}
  /\ calm => \/ mgr = "monWait"
             \/ mgr = "discWait" /\ ~Coming("STA_DISCONNECTED")
  /\ waiting' = {} /\ got' = {}
  /\ UNCHANGED <<creds, mgr, ci, attempt, streak, bits, evtVars, cur, pub, info, reg, drvVars, calm>>

-----------------------------------------------------------------------------
(* The event task: on_wifi_event and on_ip_event, one step per shared write *)

Dispatch ==
  /\ hnd = "idle" /\ evq # <<>>
  /\ ev' = Head(evq) /\ evq' = Tail(evq)
  /\ hnd' = "clear"
  /\ UNCHANGED <<creds, mgrVars, waiting, bits, cur, pub, info, reg, drvVars, calm>>

HandlerClears ==
  /\ hnd = "clear"
  /\ bits' = bits \ ClearsBits(ev)
  /\ hnd' = "set"
  /\ UNCHANGED <<creds, mgrVars, waiting, evq, ev, cur, pub, info, reg, drvVars, calm>>

HandlerSets ==
  /\ hnd = "set"
  /\ SetBits(SetsBits(ev))
  /\ hnd' = "state"
  /\ UNCHANGED <<creds, mgr, ci, attempt, streak, evq, ev, cur, pub, info, reg, drvVars, calm>>

HandlerSetsState ==
  /\ hnd = "state"
  /\ SetWifiState("evt", SetsState(ev))
  /\ hnd' = "reg"
  /\ UNCHANGED <<creds, mgrVars, waiting, bits, evq, ev, info, reg, drvVars, calm>>

HandlerRegisters ==
  /\ hnd = "reg" /\ pub["evt"] = Silent
  /\ reg' = SetsReg(ev)
  /\ hnd' = "idle"
  /\ UNCHANGED <<creds, mgrVars, waiting, bits, evq, ev, cur, pub, info, drvVars, calm>>

-----------------------------------------------------------------------------
(* The driver and the air (external) *)

Undecided == SlowJoin => mgr # "connCall"

JoinSucceeds ==
  /\ link = "joining" /\ Undecided
  /\ link' = "up" /\ Post("STA_GOT_IP")
  /\ UNCHANGED <<creds, mgrVars, waiting, bits, hnd, ev, cur, pub, info, reg, net, calm>>

JoinFails ==
  /\ ~calm /\ link = "joining" /\ Undecided
  /\ link' = "idle" /\ Post("STA_DISCONNECTED")
  /\ UNCHANGED <<creds, mgrVars, waiting, bits, hnd, ev, cur, pub, info, reg, net, calm>>

LinkLost ==
  /\ ~calm /\ link = "up" /\ Undecided
  /\ link' = "idle" /\ Post("STA_DISCONNECTED")
  /\ UNCHANGED <<creds, mgrVars, waiting, bits, hnd, ev, cur, pub, info, reg, net, calm>>

\* From here on the configured networks are in range and answer.
SettleDown ==
  /\ ~calm
  /\ calm' = TRUE
  /\ UNCHANGED <<creds, mgrVars, waiting, bits, evtVars, cur, pub, info, reg, drvVars>>

-----------------------------------------------------------------------------
(* The specification *)

Connecting ==
  \/ BeginRound \/ RegisterConnecting \/ ForgetOldEvents \/ Disconnect
  \/ AwaitDisconnect \/ ForgetEventsAgain \/ StartConnect \/ AwaitConnect
  \/ AttemptOutcome \/ GiveUpRound

Monitoring ==
  \/ EnterConnected \/ RegisterConnected \/ AwaitLoss \/ NoticeLoss
  \/ MonitorRssi \/ RoamScan \/ ClearForSwitch \/ SetForSwitch

Manager == TopOfLoop \/ ScanForNetwork \/ Connecting \/ Monitoring

Handler == Dispatch \/ HandlerClears \/ HandlerSets \/ HandlerSetsState \/ HandlerRegisters

Environment == JoinSucceeds \/ JoinFails \/ LinkLost \/ SettleDown

Next == \/ Manager \/ Timeout \/ Handler \/ Environment
        \/ \E t \in Tasks : PublishState(t)

Spec == Init /\ [][Next]_vars

\* Both tasks are scheduled, waits time out, and in calm air joins succeed.
Fairness ==
  /\ WF_vars(Manager) /\ WF_vars(Timeout) /\ WF_vars(Handler)
  /\ WF_vars(JoinSucceeds) /\ WF_vars(\E t \in Tasks : PublishState(t))

FairSpec == Spec /\ Fairness

-----------------------------------------------------------------------------
(* Properties *)

\* No event is queued or half handled.
Drained == evq = <<>> /\ hnd = "idle"

BitsSay(public) == bits \cap PublicBits = {public}

\* From its decision to roam until it has torn the old link down, the manager
\* announces "disconnected" while the link is still up.
Switching == \/ mgr \in {"setForSwitch", "round"}
             \/ mgr \in {"regConnecting", "attempt", "disc"} /\ attempt = 1

\* The event group that other components wait on tells the truth: once the
\* events are dispatched past their xEventGroupSetBits, the public bits agree
\* with the link, save while the manager is switching networks.
BitsFollowLink ==
  evq = <<>> /\ hnd \notin {"clear", "set"} =>
    IF link = "up" THEN BitsSay("CONNECTED") \/ Switching
                   ELSE BitsSay("DISCONNECTED")

\* A link that is up and monitored with nothing left to handle is reported
\* everywhere alike: by the registry, by s_current_state, by s_info, and with
\* the name of the network that the driver really joined.
MonitorSettled ==
  mgr \in {"monitor", "monWait"} /\ link = "up" /\ Drained
    /\ (\A t \in Tasks : pub[t] = Silent) =>
      /\ reg = "connected"
      /\ cur = "CONNECTED" /\ info.state = "CONNECTED"
      /\ net = ci /\ info.ssid = ci

\* A manager that monitors a link that is gone has been told, or will be: the
\* notice is in its hands, in the event group or in the event queue.
NoMissedDisconnect ==
  mgr \in {"connected", "regConnected", "monitor", "monWait"} /\ link = "idle" =>
    Coming("STA_DISCONNECTED") \/ "EVT_DISC" \in bits \cup got

\* What "online" means to the user of the device.
Online ==
  /\ link = "up" /\ mgr \in {"monitor", "monWait"}
  /\ BitsSay("CONNECTED") /\ reg = "connected" /\ info.state = "CONNECTED"

\* Wherever the manager, the handlers and the driver were when the air calmed
\* down, the firmware gets online and stays online.
Reconnects == (creds # {} /\ <>calm) => <>[]Online

\* Online with nothing under way that could say otherwise.
Established ==
  /\ calm /\ Online /\ Drained
  /\ \A t \in Tasks : pub[t] = Silent
  /\ "EVT_DISC" \notin bits
  /\ mgr = "monWait" /\ waiting = {} => "EVT_DISC" \notin got

\* The firmware does not break its own connection: in calm air no step of either
\* task leads out of an established connection (the <>[] half of Reconnects).
StaysOnline == [][Established => Established']_vars

-----------------------------------------------------------------------------
(* The variant behind Reconnects *)

One(b) == IF b THEN 1 ELSE 0

LossesIn(queue) == Cardinality({i \in 1..Len(queue) : queue[i] = "STA_DISCONNECTED"})

\* What can still cost the manager its attempt or its connection: the losses that
\* are not handled, the one in the event group, and the one it has just been told.
Losses ==
  LossesIn(evq)
    + One(hnd \in {"clear", "set"} /\ ev = "STA_DISCONNECTED")
    + One("EVT_DISC" \in bits)
    + One(mgr = "connWait" /\ waiting = {} /\ "GOT_IP" \notin got)
    + One(mgr = "monWait" /\ waiting = {} /\ "EVT_DISC" \in got)

\* On its way to the next teardown, which posts a loss if there is a link.
ToTeardown == mgr \in {"clearForSwitch", "setForSwitch", "loop", "scan", "round",
                       "regConnecting", "attempt", "disc"}

\* With the loss that the next teardown will post.
Pending == Losses + One(ToTeardown /\ link # "idle")

\* The wait of the next teardown takes one of them, its own or an older one.
TakesOne == ToTeardown \/ mgr = "discCall" \/ (mgr = "discWait" /\ waiting # {})

\* How often the manager can still be thrown back.
Setbacks == IF TakesOne /\ Pending > 0 THEN Pending - 1 ELSE Pending

Place ==
  [roamScan |-> 15, clearForSwitch |-> 14, setForSwitch |-> 13,
   loop |-> 14, scan |-> 13, round |-> 12, regConnecting |-> 11, attempt |-> 10,
   disc |-> 9, discCall |-> 8, discWait |-> 6, start |-> 5, connCall |-> 4,
   connWait |-> 3, connected |-> 2, regConnected |-> 1, monitor |-> 0, monWait |-> 0]

\* The manager's steps to the monitor, if nothing throws it back.
StepsLeft ==
  Place[mgr] + One(mgr = "discWait" /\ waiting # {})
             + IF mgr = "attempt" /\ attempt > RETRIES_PER_NET THEN 5 ELSE 0

HandlerLeft == [idle |-> 0, reg |-> 1, state |-> 3, set |-> 4, clear |-> 5]

\* The steps of the event task and of set_wifi_state for what has happened, with
\* the event that a join under way will post.
EventsLeft ==
  6 * Len(evq) + HandlerLeft[hnd]
    + One(pub["mgr"] # Silent) + One(pub["evt"] # Silent)
    + IF link = "joining" THEN 7 ELSE 0

\* First the setbacks there can be count, then the steps to the monitor, then
\* those of the events; the monitor's polling changes none of them.
Lower ==
  \/ Setbacks' < Setbacks
  \/ Setbacks' = Setbacks /\ StepsLeft' < StepsLeft
  \/ Setbacks' = Setbacks /\ StepsLeft' = StepsLeft /\ EventsLeft' < EventsLeft
  \/ /\ Setbacks' = Setbacks /\ StepsLeft' = StepsLeft /\ EventsLeft' = EventsLeft
     /\ {mgr, mgr'} \subseteq {"monitor", "monWait"}

\* No order of late events keeps the manager busy with disconnects of its own
\* making: in calm air every step of the manager, the event task and the driver
\* counts down, but the monitor's polling.
CountsDown == [][calm /\ creds # {} => Lower]_vars

-----------------------------------------------------------------------------
(* The inductive invariant behind TypeOK and BitsFollowLink *)

\* A round begins, and an attempt is under way, within the RETRIES_PER_NET.
AttemptCounted ==
  mgr \in {"regConnecting", "disc", "discCall", "discWait", "start", "connCall", "connWait"}
    => attempt <= RETRIES_PER_NET

\* esp_wifi_connect is only called on a link that was torn down first.
TornDownFirst == mgr \in {"discCall", "discWait", "start"} => link = "idle"

\* The last event whose bits are still to be set.
LastEvent == IF evq # <<>> THEN evq[Len(evq)]
             ELSE IF hnd \in {"clear", "set"} THEN ev ELSE "none"

\* The youngest unhandled event always describes the link as it is now.
LastEventTrue == /\ LastEvent = "STA_GOT_IP" => link = "up"
                 /\ LastEvent = "STA_DISCONNECTED" => link # "up"

\* Between its two writes a handler finds the bit it cleared still clear, unless
\* a switch set it.
HalfHandled ==
  hnd = "set" =>
    /\ ev = "STA_DISCONNECTED" => "CONNECTED" \notin bits
    /\ ev = "STA_GOT_IP" /\ evq = <<>> => "DISCONNECTED" \notin bits \/ Switching

\* The inductive invariant of the proofs: every reachable state of the manager
\* and the event task satisfies its five parts.
WifiInv == /\ TypeOK /\ AttemptCounted /\ TornDownFirst
           /\ LastEventTrue /\ HalfHandled /\ BitsFollowLink

-----------------------------------------------------------------------------
(* The inductive invariants behind NoMissedDisconnect and MonitorSettled *)

\* A blocked manager awaits the bits of its step, and none of them is set: who
\* sets one wakes it.
WaitsInPlace ==
  /\ waiting # {} =>
       \/ mgr \in {"discWait", "monWait"} /\ waiting = {"EVT_DISC"}
       \/ mgr = "connWait" /\ waiting = {"GOT_IP", "EVT_DISC"}
  /\ bits \cap waiting = {}

\* With SlowJoin a join is undecided until the manager waits for it.
JoinAwaited == mgr = "connCall" => link = "joining"

\* The manager takes the link for connected, or is about to.
TakenForUp ==
  \/ mgr = "connWait" /\ waiting = {} /\ "GOT_IP" \in got
  \/ mgr \in {"connected", "regConnected", "monitor", "monWait", "roamScan"}

\* The notice of a loss is on its way to the monitor's next wait, or in the
\* hands of the one that is over.  What an earlier wait returned does not count.
LossAnnounced ==
  TakenForUp /\ link = "idle" =>
    \/ Coming("STA_DISCONNECTED") \/ "EVT_DISC" \in bits
    \/ mgr = "monWait" /\ waiting = {} /\ "EVT_DISC" \in got

\* What makes NoMissedDisconnect inductive (with SlowJoin): a notice of loss is
\* neither overwritten by a late event nor consumed by a wait it is not for.
NoticeInv == WaitsInPlace /\ JoinAwaited /\ LossAnnounced

\* The one step that can lose the notice of a loss is a connection wait that
\* finds the link gone already (line 275 takes both bits, line 276 looks at
\* EVT_GOT_IP only); with SlowJoin there is no such step.
NoticeLostOnlyAtJoin ==
  [][LossAnnounced /\ ~LossAnnounced' => AwaitConnect /\ link = "idle"]_vars

\* The youngest event that was posted, handled or not, describes the link.
Youngest == IF evq # <<>> THEN evq[Len(evq)] ELSE ev
YoungestTells == link = "up" <=> Youngest = "STA_GOT_IP"

\* From esp_wifi_connect until the manager gives the link up: nobody has chosen
\* another network since, and the manager is out of set_wifi_state.
InUse == mgr \in {"connCall", "connWait", "connected", "regConnected",
                  "monitor", "monWait", "roamScan"}
NetworkInUse ==
  /\ InUse => net = ci /\ pub["mgr"] = Silent
  /\ mgr \in {"regConnected", "monitor", "monWait", "roamScan"} => info.ssid = ci

\* The event task's own publications, and that a handled loss has left its mark.
HandlerStates ==
  /\ pub["evt"] # Silent => hnd = "reg" /\ pub["evt"] = SetsState(ev)
  /\ hnd \in {"reg", "idle"} /\ ev = "STA_DISCONNECTED" => cur # "CONNECTED"

\* A used link that is up is reported as soon as the last event is.
UpReported ==
  InUse /\ link = "up" /\ evq = <<>> =>
    /\ hnd \in {"reg", "idle"} => cur = "CONNECTED"
    /\ hnd = "idle" => reg = "connected"

\* set_wifi_state writes nothing when s_current_state is right already, even if
\* s_info was overwritten by the other task; a loss that is still to be handled
\* will then correct both.
LossToReport == \/ \E i \in 1..Len(evq) : evq[i] = "STA_DISCONNECTED"
                \/ hnd \in {"clear", "set", "state"} /\ ev = "STA_DISCONNECTED"
InfoAgrees ==
  InUse /\ cur = "CONNECTED" /\ pub["evt"] = Silent =>
    info.state = "CONNECTED" \/ LossToReport

\* What makes MonitorSettled inductive: who wrote last, by the step of each task.
SettledInv == /\ YoungestTells /\ NetworkInUse /\ HandlerStates
              /\ UpReported /\ InfoAgrees
=============================================================================
