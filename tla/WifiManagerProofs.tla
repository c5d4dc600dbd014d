--------------------------- MODULE WifiManagerProofs ---------------------------
(***************************************************************************)
(* Proofs about the Wi-Fi manager, for every set of credentials, every     *)
(* retry budget, every threshold and every event-queue bound: the types;   *)
(* that the public bits of the event group follow the link; that no loss   *)
(* goes unnoticed; what is reported of a monitored link; that the firmware *)
(* keeps its connection; and the variant behind its way back online.       *)
(***************************************************************************)
EXTENDS WifiManager, FiniteSetTheorems, FunctionTheorems, TLAPS

\* The waiter of the event group only ever awaits private bits, so waking it
\* leaves the public ones alone: SetBits adds b to them and nothing else.
LEMMA SetBitsType ==
  ASSUME TypeOK, NEW b \in SUBSET (PublicBits \cup PrivateBits), SetBits(b)
  PROVE  /\ bits' \subseteq PublicBits \cup PrivateBits
         /\ got' \subseteq PrivateBits /\ waiting' \subseteq PrivateBits
         /\ \A p \in PublicBits : p \in bits' <=> p \in bits \cup b
BY DEF TypeOK, SetBits, PublicBits, PrivateBits

LEMMA WaitBitsType ==
  ASSUME TypeOK, NEW W \in SUBSET PrivateBits, NEW s \in MgrSteps, WaitBits(W, s)
  PROVE  /\ bits' \subseteq PublicBits \cup PrivateBits
         /\ got' \subseteq PrivateBits /\ waiting' \subseteq PrivateBits
         /\ \A p \in PublicBits : p \in bits' <=> p \in bits
         /\ mgr' = s
BY DEF TypeOK, WaitBits, PublicBits, PrivateBits

LEMMA SetWifiStateType ==
  ASSUME TypeOK, NEW t \in Tasks, NEW s \in WmStates, SetWifiState(t, s)
  PROVE  /\ cur' \in WmStates
         /\ pub' \in [Tasks -> WmStates \cup {Silent}]
BY DEF TypeOK, SetWifiState

\* What appending to the event queue does to its length and its last element.
LEMMA PostType ==
  ASSUME TypeOK, NEW e \in Events, Post(e)
  PROVE  /\ evq' \in Seq(Events) /\ Len(evq') <= EventLag
         /\ evq' # <<>> /\ evq'[Len(evq')] = e
BY WifiAssumption DEF TypeOK, Post, WifiAssumption

\* What dispatching does to them: the youngest event stays the youngest.
LEMMA DispatchType ==
  ASSUME TypeOK, Dispatch
  PROVE  /\ evq' \in Seq(Events) /\ Len(evq') <= EventLag /\ ev' \in Events
         /\ LastEvent' = LastEvent
<1> USE WifiAssumption DEF WifiAssumption, TypeOK, Dispatch
<1>1. /\ ev' = evq[1] /\ evq' = Tail(evq) /\ hnd' = "clear"
      /\ evq \in Seq(Events) /\ evq # <<>> /\ Len(evq) \in Nat \ {0}
  OBVIOUS
<1>2. evq' \in Seq(Events) /\ Len(evq') = Len(evq) - 1 /\ ev' \in Events
  BY <1>1
<1>3. Len(evq') <= EventLag
  BY <1>2, <1>1
<1>4. CASE Len(evq) = 1
  <2>1. evq' = <<>>
    BY <1>1, <1>2, <1>4
  <2>2. QED BY <2>1, <1>1, <1>2, <1>3, <1>4 DEF LastEvent
<1>5. CASE Len(evq) # 1
  <2>1. evq' # <<>> /\ evq'[Len(evq')] = evq[Len(evq)]
    <3>1. Len(evq') \in 1..(Len(evq) - 1)
      BY <1>1, <1>2, <1>5
    <3>2. \A i \in 1..(Len(evq) - 1) : Tail(evq)[i] = evq[i + 1]
      BY <1>1
    <3>3. evq'[Len(evq')] = evq[Len(evq') + 1] /\ Len(evq') + 1 = Len(evq)
      BY <1>1, <1>2, <3>1, <3>2
    <3>4. evq' # <<>>
      <4>1. evq' = <<>> => Len(evq') = 0
        OBVIOUS
      <4>2. Len(evq') # 0
        BY ONLY <3>1, <1>1
      <4>3. QED BY <4>1, <4>2
    <3>5. QED BY <3>3, <3>4
  <2>2. QED BY <2>1, <1>1, <1>2, <1>3 DEF LastEvent
<1>6. QED BY <1>4, <1>5

LEMMA InitInv == Init => WifiInv
<1> SUFFICES ASSUME Init PROVE WifiInv
  OBVIOUS
<1>1. TypeOK
  <2>1. evq \in Seq(Events) /\ Len(evq) <= EventLag
    <3>1. evq = <<>>
      BY DEF Init
    <3>2. Len(evq) = 0 /\ evq \in Seq(Events)
      BY <3>1
    <3>3. QED BY <3>2, WifiAssumption DEF WifiAssumption
  <2>2. pub \in [Tasks -> WmStates \cup {Silent}]
    BY DEF Init
  <2>3. info \in [state : WmStates, ssid : Creds \cup {NoCred}, rssi : Int]
    BY DEF Init, WmStates
  <2>4. attempt \in 1..(RETRIES_PER_NET + 1) /\ streak \in 0..(DEGRADE_N - 1)
    BY WifiAssumption DEF Init, WifiAssumption
  <2>5. QED
    BY <2>1, <2>2, <2>3, <2>4 DEF Init, TypeOK, MgrSteps, PublicBits, PrivateBits,
       Events, HndSteps, WmStates, RegStates, Links
<1>2. AttemptCounted /\ TornDownFirst /\ LastEventTrue /\ HalfHandled
  BY DEF Init, AttemptCounted, TornDownFirst, LastEventTrue, LastEvent, HalfHandled
<1>3. BitsFollowLink
  BY DEF Init, BitsFollowLink, BitsSay, PublicBits
<1>4. QED
  BY <1>1, <1>2, <1>3 DEF WifiInv

\* Every step keeps the types, given that an attempt under way is counted.
LEMMA TypeStep == TypeOK /\ AttemptCounted /\ [Next]_vars => TypeOK' /\ AttemptCounted'
<1> SUFFICES ASSUME TypeOK, AttemptCounted, [Next]_vars PROVE TypeOK' /\ AttemptCounted'
  OBVIOUS
<1> USE WifiAssumption DEF WifiAssumption, TypeOK, AttemptCounted, mgrVars, evtVars, drvVars
<1>1. CASE TopOfLoop
  <2>1. cur' \in WmStates /\ pub' \in [Tasks -> WmStates \cup {Silent}]
    BY <1>1, SetWifiStateType DEF TopOfLoop, WmStates, Tasks
  <2>2. QED BY <1>1, <2>1 DEF TopOfLoop, At, MgrSteps
<1>2. CASE ScanForNetwork
  BY <1>2 DEF ScanForNetwork, ScanAnswers, At, MgrSteps
<1>3. CASE BeginRound
  <2>1. cur' \in WmStates /\ pub' \in [Tasks -> WmStates \cup {Silent}]
    BY <1>3, SetWifiStateType DEF BeginRound, WmStates, Tasks
  <2>2. QED BY <1>3, <2>1 DEF BeginRound, At, MgrSteps
<1>4. CASE RegisterConnecting
  BY <1>4 DEF RegisterConnecting, At, MgrSteps, RegStates
<1>5. CASE ForgetOldEvents
  BY <1>5 DEF ForgetOldEvents, At, MgrSteps
<1>6. CASE Disconnect
  <2>1. evq' \in Seq(Events) /\ Len(evq') <= EventLag
    BY <1>6, PostType DEF Disconnect, Events
  <2>2. QED BY <1>6, <2>1 DEF Disconnect, At, MgrSteps, Links
<1>7. CASE AwaitDisconnect
  <2>1. /\ bits' \subseteq PublicBits \cup PrivateBits
        /\ got' \subseteq PrivateBits /\ waiting' \subseteq PrivateBits /\ mgr' = "discWait"
    BY <1>7, WaitBitsType DEF AwaitDisconnect, PrivateBits, MgrSteps
  <2>2. QED BY <1>7, <2>1 DEF AwaitDisconnect, At, MgrSteps
<1>8. CASE ForgetEventsAgain
  BY <1>8 DEF ForgetEventsAgain, Waited, At, MgrSteps
<1>9. CASE StartConnect
  BY <1>9 DEF StartConnect, At, MgrSteps, Links
<1>10. CASE AwaitConnect
  <2>1. /\ bits' \subseteq PublicBits \cup PrivateBits
        /\ got' \subseteq PrivateBits /\ waiting' \subseteq PrivateBits /\ mgr' = "connWait"
    BY <1>10, WaitBitsType DEF AwaitConnect, PrivateBits, MgrSteps
  <2>2. QED BY <1>10, <2>1 DEF AwaitConnect, At, MgrSteps
<1>11. CASE AttemptOutcome
  BY <1>11 DEF AttemptOutcome, Waited, At, MgrSteps
<1>12. CASE GiveUpRound
  BY <1>12 DEF GiveUpRound, At, MgrSteps, RegStates
<1>13. CASE EnterConnected
  <2>1. ci \in Creds \cup {NoCred} /\ 0 \in Int
    OBVIOUS
  <2>2. info' \in [state : WmStates, ssid : Creds \cup {NoCred}, rssi : Int]
    BY <1>13, <2>1 DEF EnterConnected
  <2>3. streak' \in 0..(DEGRADE_N - 1)
    BY <1>13 DEF EnterConnected
  <2>4. QED BY <1>13, <2>2, <2>3 DEF EnterConnected, At, MgrSteps
<1>14. CASE RegisterConnected
  BY <1>14 DEF RegisterConnected, At, MgrSteps, RegStates
<1>15. CASE AwaitLoss
  <2>1. /\ bits' \subseteq PublicBits \cup PrivateBits
        /\ got' \subseteq PrivateBits /\ waiting' \subseteq PrivateBits /\ mgr' = "monWait"
    BY <1>15, WaitBitsType DEF AwaitLoss, PrivateBits, MgrSteps
  <2>2. QED BY <1>15, <2>1 DEF AwaitLoss, At, MgrSteps
<1>16. CASE NoticeLoss
  <2>1. cur' \in WmStates /\ pub' \in [Tasks -> WmStates \cup {Silent}]
    BY <1>16, SetWifiStateType DEF NoticeLoss, WmStates, Tasks
  <2>2. QED BY <1>16, <2>1 DEF NoticeLoss, MgrSteps
<1>17. CASE MonitorRssi
  <2>1. CASE link # "up"
    BY <1>17, <2>1 DEF MonitorRssi, MgrSteps
  <2>2. CASE link = "up"
    <3>1. PICK rssi \in Readings :
            /\ info' = [info EXCEPT !.rssi = rssi]
            /\ streak' \in {0, streak + 1}
            /\ streak' = streak + 1 => streak + 1 < DEGRADE_N \/ streak' = 0
      BY <1>17, <2>2 DEF MonitorRssi
    <3>2. info' \in [state : WmStates, ssid : Creds \cup {NoCred}, rssi : Int]
      BY <3>1
    <3>3. streak' \in 0..(DEGRADE_N - 1)
      BY <3>1
    <3>4. mgr' \in {"roamScan", "monitor"}
      BY <1>17, <2>2 DEF MonitorRssi
    <3>5. QED BY <1>17, <3>2, <3>3, <3>4 DEF MonitorRssi, MgrSteps
  <2>3. QED BY <2>1, <2>2
<1>18. CASE RoamScan
  BY <1>18 DEF RoamScan, ScanAnswers, At, MgrSteps
<1>19. CASE ClearForSwitch
  BY <1>19 DEF ClearForSwitch, At, MgrSteps
<1>20. CASE SetForSwitch
  <2>1. /\ bits' \subseteq PublicBits \cup PrivateBits
        /\ got' \subseteq PrivateBits /\ waiting' \subseteq PrivateBits
    BY <1>20, SetBitsType DEF SetForSwitch, PublicBits
  <2>2. QED BY <1>20, <2>1 DEF SetForSwitch, At, MgrSteps
<1>21. CASE Timeout
  BY <1>21 DEF Timeout
<1>22. CASE Dispatch
  BY <1>22, DispatchType DEF Dispatch, HndSteps
<1>23. CASE HandlerClears
  BY <1>23 DEF HandlerClears, HndSteps
<1>24. CASE HandlerSets
  <2>1. /\ bits' \subseteq PublicBits \cup PrivateBits
        /\ got' \subseteq PrivateBits /\ waiting' \subseteq PrivateBits
    BY <1>24, SetBitsType DEF HandlerSets, SetsBits, PublicBits, PrivateBits
  <2>2. QED BY <1>24, <2>1 DEF HandlerSets, HndSteps
<1>25. CASE HandlerSetsState
  <2>1. cur' \in WmStates /\ pub' \in [Tasks -> WmStates \cup {Silent}]
    BY <1>25, SetWifiStateType DEF HandlerSetsState, SetsState, WmStates, Tasks
  <2>2. QED BY <1>25, <2>1 DEF HandlerSetsState, HndSteps
<1>26. CASE HandlerRegisters
  BY <1>26 DEF HandlerRegisters, SetsReg, HndSteps, RegStates
<1>27. CASE JoinSucceeds
  <2>1. evq' \in Seq(Events) /\ Len(evq') <= EventLag
    BY <1>27, PostType DEF JoinSucceeds, Events
  <2>2. QED BY <1>27, <2>1 DEF JoinSucceeds, Links
<1>28. CASE JoinFails \/ LinkLost
  <2>1. evq' \in Seq(Events) /\ Len(evq') <= EventLag
    BY <1>28, PostType DEF JoinFails, LinkLost, Events
  <2>2. QED BY <1>28, <2>1 DEF JoinFails, LinkLost, Links
<1>29. CASE SettleDown
  BY <1>29 DEF SettleDown
<1>30. ASSUME NEW t \in Tasks, PublishState(t) PROVE TypeOK' /\ AttemptCounted'
  BY <1>30 DEF PublishState, Silent, WmStates
<1>31. CASE UNCHANGED vars
  BY <1>31 DEF vars
<1>32. QED
  BY <1>1, <1>2, <1>3, <1>4, <1>5, <1>6, <1>7, <1>8, <1>9, <1>10, <1>11, <1>12, <1>13,
     <1>14, <1>15, <1>16, <1>17, <1>18, <1>19, <1>20, <1>21, <1>22, <1>23, <1>24, <1>25,
     <1>26, <1>27, <1>28, <1>29, <1>30, <1>31
  DEF Next, Manager, Connecting, Monitoring, Handler, Environment

\* The youngest event after a step that posts e, and after one that leaves the
\* event queue and the handler alone.
LEMMA PostedIsLast ==
  ASSUME TypeOK, NEW e \in Events, Post(e)
  PROVE  LastEvent' = e /\ evq' # <<>>
BY PostType DEF LastEvent

LEMMA LastEventKept ==
  ASSUME UNCHANGED <<evq, hnd, ev>>
  PROVE  LastEvent' = LastEvent
BY DEF LastEvent

\* A connection only starts from a link that was torn down, and the youngest
\* event keeps telling how the link is now.
LEMMA LinkStep ==
  TypeOK /\ TornDownFirst /\ LastEventTrue /\ [Next]_vars => TornDownFirst' /\ LastEventTrue'
<1> SUFFICES ASSUME TypeOK, TornDownFirst, LastEventTrue, [Next]_vars
             PROVE  TornDownFirst' /\ LastEventTrue'
  OBVIOUS
<1> USE DEF TornDownFirst, LastEventTrue, mgrVars, evtVars, drvVars
<1>1. CASE TopOfLoop \/ ScanForNetwork \/ BeginRound \/ RegisterConnecting \/ ForgetOldEvents
  BY <1>1, LastEventKept
  DEF TopOfLoop, ScanForNetwork, BeginRound, RegisterConnecting, ForgetOldEvents, At
<1>2. CASE Disconnect
  <2>1. CASE link = "idle"
    BY <1>2, <2>1, LastEventKept DEF Disconnect
  <2>2. CASE link # "idle"
    <3>1. LastEvent' = "STA_DISCONNECTED" /\ link' = "idle"
      BY <1>2, <2>2, PostedIsLast DEF Disconnect, Events
    <3>2. QED BY <3>1
  <2>3. QED BY <2>1, <2>2
<1>3. CASE AwaitDisconnect \/ ForgetEventsAgain
  BY <1>3, LastEventKept DEF AwaitDisconnect, ForgetEventsAgain, WaitBits, Waited, At
<1>4. CASE StartConnect
  <2>1. link = "idle" /\ LastEvent # "STA_GOT_IP"
    BY <1>4 DEF StartConnect, At
  <2>2. QED BY <1>4, <2>1, LastEventKept DEF StartConnect
<1>5. CASE AwaitConnect \/ AttemptOutcome \/ GiveUpRound
  BY <1>5, LastEventKept DEF AwaitConnect, AttemptOutcome, GiveUpRound, WaitBits
<1>6. CASE EnterConnected \/ RegisterConnected \/ AwaitLoss \/ NoticeLoss
  BY <1>6, LastEventKept DEF EnterConnected, RegisterConnected, AwaitLoss, NoticeLoss, WaitBits
<1>7. CASE MonitorRssi
  BY <1>7, LastEventKept DEF MonitorRssi
<1>8. CASE RoamScan \/ ClearForSwitch \/ SetForSwitch
  BY <1>8, LastEventKept DEF RoamScan, ClearForSwitch, SetForSwitch
<1>9. CASE Timeout \/ SettleDown
  BY <1>9, LastEventKept DEF Timeout, SettleDown
<1>10. CASE Dispatch
  BY <1>10, DispatchType DEF Dispatch
<1>11. CASE HandlerClears \/ HandlerSets \/ HandlerSetsState \/ HandlerRegisters
  <2>1. LastEvent' \in {LastEvent, "none"}
    BY <1>11 DEF HandlerClears, HandlerSets, HandlerSetsState, HandlerRegisters, LastEvent
  <2>2. QED BY <1>11, <2>1 DEF HandlerClears, HandlerSets, HandlerSetsState, HandlerRegisters
<1>12. CASE JoinSucceeds
  <2>1. LastEvent' = "STA_GOT_IP"
    BY <1>12, PostedIsLast DEF JoinSucceeds, Events
  <2>2. QED BY <1>12, <2>1 DEF JoinSucceeds
<1>13. CASE JoinFails \/ LinkLost
  <2>1. LastEvent' = "STA_DISCONNECTED"
    BY <1>13, PostedIsLast DEF JoinFails, LinkLost, Events
  <2>2. QED BY <1>13, <2>1 DEF JoinFails, LinkLost
<1>14. ASSUME NEW t \in Tasks, PublishState(t) PROVE TornDownFirst' /\ LastEventTrue'
  BY <1>14, LastEventKept DEF PublishState
<1>15. CASE UNCHANGED vars
  BY <1>15, LastEventKept DEF vars
<1>16. QED
  BY <1>1, <1>2, <1>3, <1>4, <1>5, <1>6, <1>7, <1>8, <1>9, <1>10, <1>11, <1>12, <1>13,
     <1>14, <1>15
  DEF Next, Manager, Connecting, Monitoring, Handler, Environment

\* A step that leaves the event queue, the handler, the link and the public bits
\* alone keeps the agreement of the bits with the link, unless the manager thereby
\* leaves a switch.
LEMMA QuietStep ==
  ASSUME HalfHandled, BitsFollowLink, UNCHANGED <<evq, hnd, ev, link>>,
         \A p \in PublicBits : p \in bits' <=> p \in bits,
         Switching => Switching'
  PROVE  HalfHandled' /\ BitsFollowLink'
BY DEF HalfHandled, BitsFollowLink, BitsSay, PublicBits

\* The agreement itself: the handlers establish it, a switch suspends it, and no
\* other step disturbs it.
LEMMA BitsStep == WifiInv /\ [Next]_vars => HalfHandled' /\ BitsFollowLink'
<1> SUFFICES ASSUME WifiInv, [Next]_vars PROVE HalfHandled' /\ BitsFollowLink'
  OBVIOUS
<1> USE DEF WifiInv, mgrVars, evtVars, drvVars
<1>1. CASE TopOfLoop \/ ScanForNetwork
  BY <1>1, QuietStep DEF TopOfLoop, ScanForNetwork, At, Switching
<1>2. CASE BeginRound \/ RegisterConnecting
  BY <1>2, QuietStep DEF BeginRound, RegisterConnecting, At, Switching
<1>3. CASE ForgetOldEvents
  BY <1>3, QuietStep DEF ForgetOldEvents, At, Switching, PublicBits, PrivateBits
<1>4. CASE Disconnect
  <2>1. CASE link = "idle"
    <3>1. LastEvent # "STA_GOT_IP"
      BY <2>1 DEF LastEventTrue
    <3>2. UNCHANGED <<evq, hnd, ev, link, bits>>
      BY <1>4, <2>1 DEF Disconnect
    <3>3. HalfHandled'
      BY <3>1, <3>2 DEF HalfHandled, LastEvent
    <3>4. BitsFollowLink'
      BY <3>2, <2>1 DEF BitsFollowLink, BitsSay
    <3>5. QED BY <3>3, <3>4
  <2>2. CASE link # "idle"
    <3>1. evq' # <<>>
      BY <1>4, <2>2, PostedIsLast DEF Disconnect, Events
    <3>2. UNCHANGED <<hnd, ev, bits>>
      BY <1>4 DEF Disconnect
    <3>3. QED BY <3>1, <3>2 DEF HalfHandled, BitsFollowLink
  <2>3. QED BY <2>1, <2>2
<1>5. CASE AwaitDisconnect \/ AwaitConnect \/ AwaitLoss
  <2>1. \A p \in PublicBits : p \in bits' <=> p \in bits
    BY <1>5, WaitBitsType DEF AwaitDisconnect, AwaitConnect, AwaitLoss, PrivateBits, MgrSteps
  <2>2. ~Switching
    BY <1>5 DEF AwaitDisconnect, AwaitConnect, AwaitLoss, At, Switching
  <2>3. QED BY <1>5, <2>1, <2>2, QuietStep DEF AwaitDisconnect, AwaitConnect, AwaitLoss
<1>6. CASE ForgetEventsAgain
  BY <1>6, QuietStep DEF ForgetEventsAgain, Waited, At, Switching, PublicBits, PrivateBits
<1>7. CASE StartConnect
  <2>1. link = "idle" /\ ~Switching /\ LastEvent # "STA_GOT_IP"
    BY <1>7 DEF StartConnect, At, TornDownFirst, LastEventTrue, Switching
  <2>2. link' # "up" /\ UNCHANGED <<evq, hnd, ev, bits>>
    BY <1>7, <2>1 DEF StartConnect
  <2>3. QED BY <2>1, <2>2 DEF HalfHandled, BitsFollowLink, BitsSay, LastEvent
<1>8. CASE AttemptOutcome
  BY <1>8, QuietStep DEF AttemptOutcome, Waited, At, Switching
<1>9. CASE GiveUpRound
  <2>1. ~Switching
    BY <1>9, WifiAssumption DEF GiveUpRound, At, Switching, TypeOK, WifiAssumption
  <2>2. QED BY <1>9, <2>1, QuietStep DEF GiveUpRound
<1>10. CASE EnterConnected \/ RegisterConnected \/ NoticeLoss
  BY <1>10, QuietStep DEF EnterConnected, RegisterConnected, NoticeLoss, Waited, At, Switching
<1>11. CASE MonitorRssi
  BY <1>11, QuietStep DEF MonitorRssi, Waited, At, Switching
<1>12. CASE RoamScan
  BY <1>12, QuietStep DEF RoamScan, At, Switching
<1>13. CASE ClearForSwitch
  <2>1. Switching' /\ bits' = bits \ {"CONNECTED"} /\ UNCHANGED <<evq, hnd, ev, link>>
    BY <1>13 DEF ClearForSwitch, Switching
  <2>2. QED BY <2>1 DEF HalfHandled, BitsFollowLink, BitsSay, PublicBits
<1>14. CASE SetForSwitch
  <2>1. Switching' /\ UNCHANGED <<evq, hnd, ev, link>>
    BY <1>14 DEF SetForSwitch, Switching
  <2>2. \A p \in PublicBits : p \in bits' <=> p \in bits \cup {"DISCONNECTED"}
    BY <1>14, SetBitsType DEF SetForSwitch, PublicBits
  <2>3. QED BY <2>1, <2>2 DEF HalfHandled, BitsFollowLink, BitsSay, PublicBits
<1>15. CASE Timeout \/ SettleDown
  BY <1>15, QuietStep DEF Timeout, SettleDown, Switching
<1>16. CASE Dispatch
  BY <1>16 DEF Dispatch, HalfHandled, BitsFollowLink
<1>17. CASE HandlerClears
  <2>1. /\ hnd' = "set" /\ bits' = bits \ ClearsBits(ev)
        /\ UNCHANGED <<evq, ev, link>>
    BY <1>17 DEF HandlerClears
  <2>2. HalfHandled'
    BY <2>1 DEF HalfHandled, ClearsBits
  <2>3. QED BY <2>1, <2>2 DEF BitsFollowLink
<1>18. CASE HandlerSets
  <2>1. hnd = "set" /\ hnd' = "state" /\ UNCHANGED <<evq, ev, link, mgr, attempt>>
    BY <1>18 DEF HandlerSets
  <2>2. \A p \in PublicBits : p \in bits' <=> p \in bits \cup SetsBits(ev)
    BY <1>18, SetBitsType DEF HandlerSets, SetsBits, PublicBits, PrivateBits
  <2>3. CASE evq # <<>>
    BY <2>1, <2>3 DEF HalfHandled, BitsFollowLink
  <2>4. CASE evq = <<>> /\ ev = "STA_DISCONNECTED"
    <3>1. link # "up" /\ "CONNECTED" \notin bits
      BY <2>1, <2>4 DEF LastEventTrue, LastEvent, HalfHandled
    <3>2. BitsSay("DISCONNECTED")'
      BY <2>2, <2>4, <3>1 DEF BitsSay, SetsBits, PublicBits
    <3>3. QED BY <2>1, <3>1, <3>2 DEF HalfHandled, BitsFollowLink
  <2>5. CASE evq = <<>> /\ ev = "STA_GOT_IP"
    <3>1. link = "up" /\ ("DISCONNECTED" \notin bits \/ Switching)
      BY <2>1, <2>5 DEF LastEventTrue, LastEvent, HalfHandled
    <3>2. BitsSay("CONNECTED")' \/ Switching'
      BY <2>1, <2>2, <2>5, <3>1 DEF BitsSay, SetsBits, PublicBits, Switching
    <3>3. QED BY <2>1, <3>1, <3>2 DEF HalfHandled, BitsFollowLink
  <2>6. QED BY <2>3, <2>4, <2>5 DEF TypeOK, Events
<1>19. CASE HandlerSetsState \/ HandlerRegisters
  BY <1>19 DEF HandlerSetsState, HandlerRegisters, HalfHandled, BitsFollowLink, BitsSay, Switching
<1>20. CASE JoinSucceeds \/ JoinFails \/ LinkLost
  <2>1. evq' # <<>> /\ UNCHANGED <<hnd, ev, bits>>
    BY <1>20, PostedIsLast DEF JoinSucceeds, JoinFails, LinkLost, Events
  <2>2. QED BY <2>1 DEF HalfHandled, BitsFollowLink
<1>21. ASSUME NEW t \in Tasks, PublishState(t) PROVE HalfHandled' /\ BitsFollowLink'
  BY <1>21, QuietStep DEF PublishState, Switching
<1>22. CASE UNCHANGED vars
  BY <1>22, QuietStep DEF vars, Switching
<1>23. QED
  BY <1>1, <1>2, <1>3, <1>4, <1>5, <1>6, <1>7, <1>8, <1>9, <1>10, <1>11, <1>12, <1>13,
     <1>14, <1>15, <1>16, <1>17, <1>18, <1>19, <1>20, <1>21, <1>22
  DEF Next, Manager, Connecting, Monitoring, Handler, Environment

\* Every reachable state satisfies the inductive invariant.
THEOREM WifiInvariant == Spec => []WifiInv
<1>1. Init => WifiInv
  BY InitInv
<1>2. WifiInv /\ [Next]_vars => WifiInv'
  BY TypeStep, LinkStep, BitsStep DEF WifiInv
<1>3. QED
  BY <1>1, <1>2, PTL DEF Spec

\* Type correctness of wifi_manager.cpp's state: among others, the attempt
\* counter and the degradation streak stay within their Kconfig budgets.
THEOREM WifiTypes == Spec => []TypeOK
<1>1. WifiInv => TypeOK
  BY DEF WifiInv
<1>2. QED
  BY <1>1, WifiInvariant, PTL

\* What microros_task relies on when it blocks on WM_CONNECTED_BIT: once the
\* handlers are past their xEventGroupSetBits, exactly one of the public bits is
\* set and it is the one that describes the link, except while roaming.
THEOREM PublicBitsTellTheLink == Spec => []BitsFollowLink
<1>1. WifiInv => BitsFollowLink
  BY DEF WifiInv
<1>2. QED
  BY <1>1, WifiInvariant, PTL

-----------------------------------------------------------------------------
(* The notice of a loss *)

\* What a step of the event task and the driver does to what is coming.
LEMMA ComingPosted ==
  ASSUME TypeOK, NEW e \in Events, Post(e), UNCHANGED <<hnd, ev>>
  PROVE  /\ Coming(e)'
         /\ \A f \in Events : Coming(f) => Coming(f)'
<1> USE WifiAssumption DEF TypeOK, WifiAssumption
<1>1. /\ evq \in Seq(Events) /\ Len(evq') = Len(evq) + 1
      /\ \A i \in 1..Len(evq) : evq'[i] = evq[i]
      /\ evq'[Len(evq) + 1] = e
  BY DEF Post
<1>2. Len(evq) + 1 \in 1..Len(evq') /\ evq'[Len(evq) + 1] = e
  BY <1>1
<1>3. Coming(e)'
  BY <1>2 DEF Coming
<1>4. ASSUME NEW f \in Events, Coming(f) PROVE Coming(f)'
  <2>1. CASE hnd \in {"clear", "set"} /\ ev = f
    BY <2>1 DEF Coming
  <2>2. CASE \E i \in 1..Len(evq) : evq[i] = f
    <3>1. PICK i \in 1..Len(evq) : evq[i] = f
      BY <2>2
    <3>2. i \in 1..Len(evq') /\ evq'[i] = f
      BY <1>1, <3>1
    <3> QED BY <3>2 DEF Coming
  <2> QED BY <1>4, <2>1, <2>2 DEF Coming
<1> QED BY <1>3, <1>4

LEMMA ComingDispatched ==
  ASSUME TypeOK, Dispatch, NEW e \in Events, Coming(e)
  PROVE  Coming(e)'
<1> USE DEF TypeOK, Dispatch
<1>1. /\ evq \in Seq(Events) /\ ev' = evq[1] /\ hnd' = "clear"
      /\ evq' = Tail(evq) /\ Len(evq') = Len(evq) - 1 /\ Len(evq) \in Nat
      /\ \A i \in 1..(Len(evq) - 1) : evq'[i] = evq[i + 1]
  OBVIOUS
<1>2. PICK i \in 1..Len(evq) : evq[i] = e
  BY DEF Coming
<1>3. CASE i = 1
  BY <1>1, <1>2, <1>3 DEF Coming
<1>4. CASE i # 1
  <2>1. i - 1 \in 1..Len(evq') /\ evq'[i - 1] = e
    BY <1>1, <1>2, <1>4
  <2> QED BY <2>1 DEF Coming
<1> QED BY <1>3, <1>4

LEMMA ComingKept ==
  ASSUME UNCHANGED <<evq, hnd, ev>>, NEW e
  PROVE  Coming(e)' <=> Coming(e)
BY DEF Coming

\* The youngest event tells the truth, so an older one may only say otherwise if
\* a younger one corrects it.
LEMMA StaleUpIsCorrected ==
  ASSUME TypeOK, LastEventTrue, hnd \in {"clear", "set"}, ev = "STA_GOT_IP", link # "up"
  PROVE  \E i \in 1..Len(evq) : evq[i] = "STA_DISCONNECTED"
<1> USE DEF TypeOK
<1>1. evq # <<>>
  BY DEF LastEventTrue, LastEvent
<1>2. Len(evq) \in 1..Len(evq) /\ evq[Len(evq)] \in Events
  BY <1>1
<1>3. evq[Len(evq)] # "STA_GOT_IP"
  BY <1>1 DEF LastEventTrue, LastEvent
<1> QED BY <1>2, <1>3 DEF Events

\* A blocked manager is where it blocked, and nothing it awaits is set: xEvent-
\* GroupSetBits would have woken it.
LEMMA WaitsStep == TypeOK /\ WaitsInPlace /\ [Next]_vars => WaitsInPlace'
<1> SUFFICES ASSUME TypeOK, WaitsInPlace, [Next]_vars PROVE WaitsInPlace'
  OBVIOUS
<1> USE DEF WaitsInPlace, mgrVars, evtVars, drvVars
<1>1. CASE TopOfLoop \/ ScanForNetwork \/ BeginRound \/ RegisterConnecting
  BY <1>1 DEF TopOfLoop, ScanForNetwork, BeginRound, RegisterConnecting, At
<1>2. CASE ForgetOldEvents \/ Disconnect \/ ForgetEventsAgain \/ StartConnect
  BY <1>2 DEF ForgetOldEvents, Disconnect, ForgetEventsAgain, StartConnect, Waited, At
<1>3. CASE AwaitDisconnect \/ AwaitConnect \/ AwaitLoss
  BY <1>3 DEF AwaitDisconnect, AwaitConnect, AwaitLoss, WaitBits, At
<1>4. CASE AttemptOutcome \/ GiveUpRound \/ EnterConnected \/ RegisterConnected
  BY <1>4 DEF AttemptOutcome, GiveUpRound, EnterConnected, RegisterConnected, Waited, At
<1>5. CASE NoticeLoss \/ MonitorRssi \/ RoamScan \/ ClearForSwitch
  BY <1>5 DEF NoticeLoss, MonitorRssi, RoamScan, ClearForSwitch, Waited, At
<1>6. CASE SetForSwitch
  BY <1>6 DEF SetForSwitch, SetBits, At
<1>7. CASE Timeout \/ SettleDown
  BY <1>7 DEF Timeout, SettleDown
<1>8. CASE Dispatch \/ HandlerClears \/ HandlerSetsState \/ HandlerRegisters
  BY <1>8 DEF Dispatch, HandlerClears, HandlerSetsState, HandlerRegisters
<1>9. CASE HandlerSets
  BY <1>9 DEF HandlerSets, SetBits
<1>10. CASE JoinSucceeds \/ JoinFails \/ LinkLost
  BY <1>10 DEF JoinSucceeds, JoinFails, LinkLost
<1>11. ASSUME NEW t \in Tasks, PublishState(t) PROVE WaitsInPlace'
  BY <1>11 DEF PublishState
<1>12. CASE UNCHANGED vars
  BY <1>12 DEF vars
<1>13. QED
  BY <1>1, <1>2, <1>3, <1>4, <1>5, <1>6, <1>7, <1>8, <1>9, <1>10, <1>11, <1>12
  DEF Next, Manager, Connecting, Monitoring, Handler, Environment

\* Between esp_wifi_connect and the wait for its outcome the link stays undecided.
LEMMA JoinStep == SlowJoin /\ JoinAwaited /\ [Next]_vars => JoinAwaited'
<1> SUFFICES ASSUME SlowJoin, JoinAwaited, [Next]_vars, mgr' = "connCall"
             PROVE  link' = "joining"
  BY DEF JoinAwaited
<1> USE DEF JoinAwaited, mgrVars, evtVars, drvVars
<1>1. CASE StartConnect
  BY <1>1 DEF StartConnect
<1>2. CASE Connecting /\ ~StartConnect
  BY <1>2 DEF Connecting, BeginRound, RegisterConnecting, ForgetOldEvents, Disconnect,
     AwaitDisconnect, ForgetEventsAgain, AwaitConnect, AttemptOutcome, GiveUpRound, WaitBits
<1>3. CASE Monitoring
  BY <1>3 DEF Monitoring, EnterConnected, RegisterConnected, AwaitLoss, NoticeLoss,
     MonitorRssi, RoamScan, ClearForSwitch, SetForSwitch, WaitBits
<1>4. CASE TopOfLoop \/ ScanForNetwork
  BY <1>4 DEF TopOfLoop, ScanForNetwork, At
<1>5. CASE Timeout \/ Handler \/ SettleDown
  BY <1>5 DEF Timeout, Handler, Dispatch, HandlerClears, HandlerSets, HandlerSetsState,
     HandlerRegisters, SettleDown
<1>6. CASE JoinSucceeds \/ JoinFails \/ LinkLost
  BY <1>6 DEF JoinSucceeds, JoinFails, LinkLost, Undecided
<1>7. ASSUME NEW t \in Tasks, PublishState(t) PROVE link' = "joining"
  BY <1>7 DEF PublishState
<1>8. CASE UNCHANGED vars
  BY <1>8 DEF vars
<1>9. QED
  BY <1>1, <1>2, <1>3, <1>4, <1>5, <1>6, <1>7, <1>8 DEF Next, Manager, Environment

\* The notice survives every step until the monitor has it, but for a connection
\* wait that begins on a link that is gone already.
LEMMA NoticeStep ==
  WifiInv /\ WaitsInPlace /\ LossAnnounced /\ [Next]_vars
    => LossAnnounced' \/ (AwaitConnect /\ link = "idle")
<1> SUFFICES ASSUME WifiInv, WaitsInPlace, LossAnnounced, [Next]_vars,
                    TakenForUp', link' = "idle", ~(AwaitConnect /\ link = "idle")
             PROVE  \/ Coming("STA_DISCONNECTED")' \/ "EVT_DISC" \in bits'
                    \/ mgr' = "monWait" /\ waiting' = {} /\ "EVT_DISC" \in got'
  BY DEF LossAnnounced
<1> USE DEF WifiInv, mgrVars, evtVars, drvVars
<1>1. CASE \/ TopOfLoop \/ ScanForNetwork \/ BeginRound \/ RegisterConnecting
           \/ ForgetOldEvents \/ Disconnect \/ AwaitDisconnect \/ ForgetEventsAgain
           \/ GiveUpRound
  BY <1>1 DEF TopOfLoop, ScanForNetwork, BeginRound, RegisterConnecting, ForgetOldEvents,
     Disconnect, AwaitDisconnect, ForgetEventsAgain, GiveUpRound, WaitBits, At, TakenForUp
<1>2. CASE StartConnect \/ NoticeLoss \/ ClearForSwitch \/ SetForSwitch
  BY <1>2 DEF StartConnect, NoticeLoss, ClearForSwitch, SetForSwitch, TakenForUp
<1>3. CASE AwaitConnect
  BY <1>3 DEF AwaitConnect
<1>4. CASE AttemptOutcome \/ EnterConnected \/ RegisterConnected \/ MonitorRssi \/ RoamScan
  <2>1. /\ UNCHANGED <<evq, hnd, ev, bits, link, waiting, got>>
        /\ TakenForUp /\ ~(mgr = "monWait" /\ "EVT_DISC" \in got)
    BY <1>4 DEF AttemptOutcome, EnterConnected, RegisterConnected, MonitorRssi, RoamScan,
       Waited, At, TakenForUp
  <2> QED BY <2>1, ComingKept DEF LossAnnounced
<1>5. CASE AwaitLoss
  <2>1. TakenForUp /\ mgr = "monitor" /\ waiting = {} /\ UNCHANGED <<evq, hnd, ev, link>>
    BY <1>5 DEF AwaitLoss, At, TakenForUp, WaitsInPlace
  <2>2. Coming("STA_DISCONNECTED") \/ "EVT_DISC" \in bits
    BY <2>1 DEF LossAnnounced
  <2>3. CASE Coming("STA_DISCONNECTED")
    BY <2>1, <2>3, ComingKept
  <2>4. CASE "EVT_DISC" \in bits
    BY <1>5, <2>1, <2>4 DEF AwaitLoss, WaitBits
  <2> QED BY <2>2, <2>3, <2>4
<1>6. CASE Timeout
  <2>1. waiting # {} /\ UNCHANGED <<evq, hnd, ev, bits, link, mgr>> /\ got' = {}
    BY <1>6 DEF Timeout
  <2>2. TakenForUp
    BY <2>1 DEF TakenForUp
  <2> QED BY <2>1, <2>2, ComingKept DEF LossAnnounced
<1>7. CASE Dispatch
  <2>1. TakenForUp /\ UNCHANGED <<bits, waiting, got, mgr, link>>
    BY <1>7 DEF Dispatch, TakenForUp
  <2> QED BY <1>7, <2>1, ComingDispatched DEF LossAnnounced, Events
<1>8. CASE HandlerClears
  <2>1. /\ TakenForUp /\ hnd = "clear" /\ hnd' = "set" /\ bits' = bits \ ClearsBits(ev)
        /\ UNCHANGED <<evq, ev, waiting, got, mgr, link>>
    BY <1>8 DEF HandlerClears, TakenForUp
  <2>2. Coming("STA_DISCONNECTED") => Coming("STA_DISCONNECTED")'
    BY <2>1 DEF Coming
  <2>3. CASE ev = "STA_DISCONNECTED"
    BY <2>1, <2>3 DEF Coming
  <2>4. CASE ev = "STA_GOT_IP"
    BY <2>1, <2>2, <2>4, StaleUpIsCorrected DEF Coming
  <2> QED BY <2>3, <2>4 DEF TypeOK, Events
<1>9. CASE HandlerSets
  <2>1. /\ hnd = "set" /\ UNCHANGED <<evq, ev, mgr, link>> /\ SetBits(SetsBits(ev))
    BY <1>9 DEF HandlerSets
  <2>2. CASE ev = "STA_GOT_IP"
    <3>1. \E i \in 1..Len(evq) : evq[i] = "STA_DISCONNECTED"
      BY <2>1, <2>2, StaleUpIsCorrected
    <3> QED BY <2>1, <3>1 DEF Coming
  <2>3. CASE ev = "STA_DISCONNECTED" /\ waiting = {}
    BY <2>1, <2>3 DEF SetBits, SetsBits
  <2>4. CASE ev = "STA_DISCONNECTED" /\ waiting # {}
    <3>1. /\ got' = (bits \cup {"DISCONNECTED", "EVT_DISC"}) \cap waiting
          /\ waiting' = {} /\ "EVT_DISC" \in got' /\ "GOT_IP" \notin got'
      BY <2>1, <2>4 DEF SetBits, SetsBits, WaitsInPlace
    <3>2. mgr = "monWait"
      BY <2>1, <2>4, <3>1 DEF TakenForUp, WaitsInPlace
    <3> QED BY <2>1, <3>1, <3>2
  <2> QED BY <2>2, <2>3, <2>4 DEF TypeOK, Events
<1>10. CASE HandlerSetsState \/ HandlerRegisters
  <2>1. /\ TakenForUp /\ UNCHANGED <<evq, ev, bits, waiting, got, mgr, link>>
        /\ hnd \notin {"clear", "set"}
    BY <1>10 DEF HandlerSetsState, HandlerRegisters, TakenForUp
  <2> QED BY <2>1 DEF LossAnnounced, Coming
<1>11. CASE JoinSucceeds
  BY <1>11 DEF JoinSucceeds
<1>12. CASE JoinFails \/ LinkLost
  BY <1>12, ComingPosted DEF JoinFails, LinkLost, Events
<1>13. ASSUME NEW t \in Tasks, PublishState(t)
       PROVE  UNCHANGED <<evq, hnd, ev, bits, waiting, got, mgr, link>>
  BY <1>13 DEF PublishState
<1>14. CASE \/ SettleDown \/ UNCHANGED vars \/ \E t \in Tasks : PublishState(t)
  <2>1. TakenForUp /\ UNCHANGED <<evq, hnd, ev, bits, waiting, got, mgr, link>>
    BY <1>13, <1>14 DEF SettleDown, vars, TakenForUp
  <2> QED BY <2>1, ComingKept DEF LossAnnounced
<1>15. QED
  BY <1>1, <1>2, <1>3, <1>4, <1>5, <1>6, <1>7, <1>8, <1>9, <1>10, <1>11, <1>12, <1>14
  DEF Next, Manager, Connecting, Monitoring, Handler, Environment

\* With slow joins, every reachable state satisfies the invariant of the notice.
THEOREM NoticeInvariant == SlowJoin => (Spec => []NoticeInv)
<1> SUFFICES ASSUME SlowJoin PROVE Spec => []NoticeInv
  OBVIOUS
<1>1. Init => NoticeInv
  BY DEF Init, NoticeInv, WaitsInPlace, JoinAwaited, LossAnnounced, TakenForUp
<1>2. WifiInv /\ NoticeInv /\ [Next]_vars => NoticeInv'
  <2> SUFFICES ASSUME WifiInv, NoticeInv, [Next]_vars PROVE NoticeInv'
    OBVIOUS
  <2>1. WaitsInPlace' /\ JoinAwaited'
    BY WaitsStep, JoinStep DEF WifiInv, NoticeInv
  <2>2. ~(AwaitConnect /\ link = "idle")
    BY DEF AwaitConnect, At, NoticeInv, JoinAwaited
  <2> QED BY <2>1, <2>2, NoticeStep DEF NoticeInv
<1>3. QED
  BY <1>1, <1>2, WifiInvariant, PTL DEF Spec

\* monitor_loop cannot miss a loss of the link: as long as a join is not decided
\* before start_connect's caller waits for it, whoever monitors a link that is
\* gone has EVT_DISC_BIT before it, or an event that will set it.
THEOREM NoLossUnnoticed == SlowJoin => (Spec => []NoMissedDisconnect)
<1>1. NoticeInv => NoMissedDisconnect
  BY DEF NoticeInv, LossAnnounced, NoMissedDisconnect, TakenForUp
<1>2. QED
  BY <1>1, NoticeInvariant, PTL

\* Blocked or not, the manager is where its wait belongs; this needs no SlowJoin.
LEMMA WaitsInvariant == Spec => []WaitsInPlace
<1>1. Init => WaitsInPlace
  BY DEF Init, WaitsInPlace
<1>2. WifiInv /\ WaitsInPlace /\ [Next]_vars => WaitsInPlace'
  BY WaitsStep DEF WifiInv
<1>3. QED
  BY <1>1, <1>2, WifiInvariant, PTL DEF Spec

\* And without the assumption on the speed of joins: a loss that is announced
\* stays announced until the monitor has it, except for the one race at line 275.
THEOREM OneRaceLosesTheNotice == Spec => NoticeLostOnlyAtJoin
<1>1. WifiInv /\ WaitsInPlace /\ [Next]_vars
        => [LossAnnounced /\ ~LossAnnounced' => AwaitConnect /\ link = "idle"]_vars
  BY NoticeStep
<1>2. QED
  BY <1>1, WifiInvariant, WaitsInvariant, PTL DEF Spec, NoticeLostOnlyAtJoin

-----------------------------------------------------------------------------
(* What keeps the firmware online *)

\* In calm air neither task, nor the air, leads out of an established connection.
THEOREM ConnectionIsKept == Spec => StaysOnline
<1>1. TypeOK /\ [Next]_vars => [Established => Established']_vars
  <2> SUFFICES ASSUME TypeOK, Next, Established PROVE Established'
    OBVIOUS
  <2> USE DEF Established, Online, Drained, BitsSay, PublicBits, mgrVars, evtVars, drvVars
  <2>1. /\ mgr \in {"monitor", "monWait"} /\ link = "up" /\ calm
        /\ evq = <<>> /\ hnd = "idle"
        /\ \A t \in Tasks : pub[t] = Silent
    OBVIOUS
  <2>2. CASE AwaitLoss
    BY <2>2 DEF AwaitLoss, WaitBits
  <2>3. CASE NoticeLoss
    BY <2>3 DEF NoticeLoss, Waited, At
  <2>4. CASE MonitorRssi
    <3>1. PICK rssi \in Readings :
            /\ rssi >= RSSI_WARN
            /\ info' = [info EXCEPT !.rssi = rssi]
            /\ rssi >= RSSI_WARN => mgr' = "monitor"
      <4>1. PICK rssi \in Readings :
              LET weak == streak + 1
                  act  == rssi < RSSI_WARN /\ (rssi < RSSI_CRITICAL \/ weak >= DEGRADE_N)
              IN /\ calm => rssi >= RSSI_WARN
                 /\ info' = [info EXCEPT !.rssi = rssi]
                 /\ mgr' = IF act THEN "roamScan" ELSE "monitor"
        BY <2>1, <2>4 DEF MonitorRssi
      <4> QED BY <2>1, <4>1, WifiAssumption DEF WifiAssumption
    <3>2. info'.state = info.state
      BY <3>1 DEF TypeOK
    <3> QED BY <2>4, <3>1, <3>2 DEF MonitorRssi
  <2>5. CASE Timeout
    BY <2>5 DEF Timeout
  <2>6. CASE TopOfLoop \/ ScanForNetwork \/ Connecting
    BY <2>1, <2>6 DEF TopOfLoop, ScanForNetwork, Connecting, BeginRound, RegisterConnecting,
       ForgetOldEvents, Disconnect, AwaitDisconnect, ForgetEventsAgain, StartConnect,
       AwaitConnect, AttemptOutcome, GiveUpRound, Waited, At
  <2>7. CASE EnterConnected \/ RegisterConnected \/ RoamScan \/ ClearForSwitch \/ SetForSwitch
    BY <2>1, <2>7 DEF EnterConnected, RegisterConnected, RoamScan, ClearForSwitch,
       SetForSwitch, At
  <2>8. CASE Handler \/ Environment \/ \E t \in Tasks : PublishState(t)
    BY <2>1, <2>8 DEF Handler, Dispatch, HandlerClears, HandlerSets, HandlerSetsState,
       HandlerRegisters, Environment, JoinSucceeds, JoinFails, LinkLost, SettleDown,
       PublishState
  <2> QED BY <2>2, <2>3, <2>4, <2>5, <2>6, <2>7, <2>8 DEF Next, Manager, Monitoring
<1>2. QED
  BY <1>1, WifiTypes, PTL DEF Spec, StaysOnline

-----------------------------------------------------------------------------
(* What is reported of a monitored link *)

\* The youngest event after a step of the queue, and after any other.
LEMMA YoungestPosted ==
  ASSUME TypeOK, NEW e \in Events, Post(e)
  PROVE  Youngest' = e /\ evq' # <<>>
BY PostType DEF Youngest

LEMMA YoungestDispatched ==
  ASSUME TypeOK, Dispatch
  PROVE  Youngest' = Youngest
<1>1. LastEvent' = LastEvent
  BY DispatchType
<1>2. evq # <<>> /\ hnd' = "clear"
  BY DEF Dispatch
<1> QED BY <1>1, <1>2 DEF LastEvent, Youngest

\* A loss that is still to be reported stays so until its handler reports it.
LEMMA LossPosted ==
  ASSUME TypeOK, NEW e \in Events, Post(e), UNCHANGED <<hnd, ev>>, LossToReport
  PROVE  LossToReport'
<1> USE WifiAssumption DEF TypeOK, WifiAssumption
<1>1. CASE hnd \in {"clear", "set", "state"} /\ ev = "STA_DISCONNECTED"
  BY <1>1 DEF LossToReport
<1>2. CASE \E i \in 1..Len(evq) : evq[i] = "STA_DISCONNECTED"
  <2>1. PICK i \in 1..Len(evq) : evq[i] = "STA_DISCONNECTED"
    BY <1>2
  <2>2. i \in 1..Len(evq') /\ evq'[i] = "STA_DISCONNECTED"
    BY <2>1 DEF Post
  <2> QED BY <2>2 DEF LossToReport
<1> QED BY <1>1, <1>2 DEF LossToReport

LEMMA LossDispatched ==
  ASSUME TypeOK, Dispatch, LossToReport
  PROVE  LossToReport'
<1>1. Coming("STA_DISCONNECTED")
  BY DEF LossToReport, Coming, Dispatch
<1>2. Coming("STA_DISCONNECTED")'
  BY <1>1, ComingDispatched DEF Events
<1> QED BY <1>2 DEF LossToReport, Coming

\* The youngest event tells how the link is, handled or not.
LEMMA YoungestStep ==
  TypeOK /\ TornDownFirst /\ YoungestTells /\ [Next]_vars => YoungestTells'
<1> SUFFICES ASSUME TypeOK, TornDownFirst, YoungestTells, [Next]_vars PROVE YoungestTells'
  OBVIOUS
<1> USE DEF YoungestTells, mgrVars, evtVars, drvVars
<1> DEFINE Same == UNCHANGED <<evq, ev, link>>
<1>1. ASSUME Same PROVE YoungestTells'
  BY <1>1 DEF Youngest
<1>2. CASE \/ TopOfLoop \/ ScanForNetwork \/ BeginRound \/ RegisterConnecting
           \/ ForgetOldEvents \/ AwaitDisconnect \/ ForgetEventsAgain
  BY <1>1, <1>2 DEF TopOfLoop, ScanForNetwork, BeginRound, RegisterConnecting,
     ForgetOldEvents, AwaitDisconnect, ForgetEventsAgain
<1>3. CASE Disconnect
  <2>1. CASE link = "idle"
    BY <1>1, <1>3, <2>1 DEF Disconnect
  <2>2. CASE link # "idle"
    <3>1. Youngest' = "STA_DISCONNECTED" /\ link' = "idle"
      BY <1>3, <2>2, YoungestPosted DEF Disconnect, Events
    <3> QED BY <3>1
  <2> QED BY <2>1, <2>2
<1>4. CASE StartConnect
  <2>1. link = "idle" /\ link' # "up" /\ UNCHANGED <<evq, ev>>
    BY <1>4 DEF StartConnect, At, TornDownFirst
  <2> QED BY <2>1 DEF Youngest
<1>5. CASE AwaitConnect \/ AttemptOutcome \/ GiveUpRound \/ Monitoring
  BY <1>1, <1>5 DEF AwaitConnect, AttemptOutcome, GiveUpRound, Monitoring, EnterConnected,
     RegisterConnected, AwaitLoss, NoticeLoss, MonitorRssi, RoamScan, ClearForSwitch, SetForSwitch
<1>6. CASE Dispatch
  BY <1>6, YoungestDispatched DEF Dispatch
<1>7. CASE HandlerClears \/ HandlerSets \/ HandlerSetsState \/ HandlerRegisters
  BY <1>1, <1>7 DEF HandlerClears, HandlerSets, HandlerSetsState, HandlerRegisters
<1>8. CASE JoinSucceeds
  <2>1. Youngest' = "STA_GOT_IP" /\ link' = "up"
    BY <1>8, YoungestPosted DEF JoinSucceeds, Events
  <2> QED BY <2>1
<1>9. CASE JoinFails \/ LinkLost
  <2>1. Youngest' = "STA_DISCONNECTED" /\ link' = "idle"
    BY <1>9, YoungestPosted DEF JoinFails, LinkLost, Events
  <2> QED BY <2>1
<1>10. ASSUME NEW t \in Tasks, PublishState(t) PROVE Same
  BY <1>10 DEF PublishState
<1>11. CASE Timeout \/ SettleDown \/ UNCHANGED vars \/ \E t \in Tasks : PublishState(t)
  <2>1. Same
    BY <1>10, <1>11 DEF Timeout, SettleDown, vars
  <2> QED BY <1>1, <2>1
<1> QED
  BY <1>2, <1>3, <1>4, <1>5, <1>6, <1>7, <1>8, <1>9, <1>11
  DEF Next, Manager, Connecting, Handler, Environment

Reports == NetworkInUse /\ HandlerStates /\ UpReported /\ InfoAgrees

\* A step of the manager that leaves it without a network in use: it may change
\* s_current_state, but never to CONNECTED.
LEMMA OutOfUse ==
  ASSUME Reports, ~InUse', UNCHANGED <<hnd, ev>>, pub'["evt"] = pub["evt"],
         cur' = cur \/ cur' # "CONNECTED"
  PROVE  Reports'
BY DEF Reports, NetworkInUse, HandlerStates, UpReported, InfoAgrees, InUse

\* A step of the manager while a network is in use leaves the reports alone, except
\* for the registry entry, which it can only correct.
LEMMA StillInUse ==
  ASSUME Reports, InUse, UNCHANGED <<evq, hnd, ev, link, net, ci, cur, pub>>,
         info'.state = info.state, reg' \in {reg, "connected"},
         mgr' \in {"regConnected", "monitor", "monWait", "roamScan"} => info'.ssid = ci
  PROVE  Reports'
BY DEF Reports, NetworkInUse, HandlerStates, UpReported, InfoAgrees, InUse, LossToReport

\* set_wifi_state as the other task sees it.
LEMMA SetWifiStateByMgr ==
  ASSUME TypeOK, NEW s \in WmStates, SetWifiState("mgr", s)
  PROVE  pub'["evt"] = pub["evt"] /\ cur' \in {cur, s}
BY DEF SetWifiState, TypeOK, Tasks

\* The manager's steps keep the reports.
LEMMA ManagerReports == WifiInv /\ SettledInv /\ (Manager \/ Timeout) => Reports'
<1> SUFFICES ASSUME WifiInv, SettledInv, Manager \/ Timeout PROVE Reports'
  OBVIOUS
<1> USE DEF WifiInv, mgrVars, evtVars, drvVars
<1> Reports
  BY DEF SettledInv, Reports
<1>1. CASE TopOfLoop \/ BeginRound \/ NoticeLoss
  <2>1. /\ UNCHANGED <<hnd, ev>> /\ ~InUse'
        /\ \E s \in WmStates \ {"CONNECTED"} : SetWifiState("mgr", s)
    BY <1>1 DEF TopOfLoop, BeginRound, NoticeLoss, At, InUse, WmStates
  <2> QED BY <2>1, SetWifiStateByMgr, OutOfUse
<1>2. CASE \/ ScanForNetwork \/ RegisterConnecting \/ ForgetOldEvents \/ Disconnect
           \/ AwaitDisconnect \/ ForgetEventsAgain \/ GiveUpRound
           \/ ClearForSwitch \/ SetForSwitch
  <2>1. UNCHANGED <<hnd, ev, cur, pub>> /\ ~InUse'
    BY <1>2 DEF ScanForNetwork, RegisterConnecting, ForgetOldEvents, Disconnect,
       AwaitDisconnect, ForgetEventsAgain, GiveUpRound, ClearForSwitch, SetForSwitch,
       WaitBits, InUse
  <2> QED BY <2>1, OutOfUse
<1>3. CASE StartConnect
  <2>1. UNCHANGED <<ci, evq, hnd, ev, cur, pub, info, reg>> /\ pub["mgr"] = Silent
    BY <1>3 DEF StartConnect, At
  <2>2. CASE mgr' = "attempt"
    BY <2>1, <2>2, OutOfUse DEF InUse
  <2>3. CASE mgr' = "connCall" /\ link' = "joining" /\ net' = ci
    <3>1. NetworkInUse' /\ UpReported'
      BY <2>1, <2>3 DEF NetworkInUse, UpReported
    <3>2. HandlerStates'
      BY <2>1 DEF Reports, HandlerStates
    <3>3. Youngest = "STA_DISCONNECTED"
      <4>1. link # "up"
        BY <1>3 DEF StartConnect, At, TornDownFirst
      <4>2. Youngest \in Events
        BY DEF Youngest, TypeOK
      <4> QED BY <4>1, <4>2 DEF SettledInv, YoungestTells, Events
    <3>4. cur = "CONNECTED" => LossToReport
      <4>1. CASE evq # <<>>
        <5>1. Len(evq) \in 1..Len(evq)
          BY <4>1 DEF TypeOK
        <5> QED BY <3>3, <4>1, <5>1 DEF Youngest, LossToReport
      <4>2. CASE evq = <<>>
        BY <3>3, <4>2 DEF Youngest, LossToReport, Reports, HandlerStates, TypeOK, HndSteps
      <4> QED BY <4>1, <4>2
    <3>5. InfoAgrees'
      BY <2>1, <3>4 DEF InfoAgrees, LossToReport
    <3> QED BY <3>1, <3>2, <3>5 DEF Reports
  <2> QED BY <1>3, <2>2, <2>3 DEF StartConnect
<1>4. CASE AwaitConnect \/ AttemptOutcome \/ RegisterConnected \/ AwaitLoss
  <2>1. /\ UNCHANGED <<evq, hnd, ev, link, net, ci, cur, pub, info>> /\ InUse
        /\ reg' \in {reg, "connected"}
        /\ mgr' \in {"regConnected", "monitor", "monWait", "roamScan"} =>
             mgr \in {"regConnected", "monitor", "monWait", "roamScan"}
    BY <1>4 DEF AwaitConnect, AttemptOutcome, RegisterConnected, AwaitLoss, WaitBits,
       Waited, At, InUse
  <2>2. mgr' \in {"regConnected", "monitor", "monWait", "roamScan"} => info'.ssid = ci
    BY <2>1 DEF Reports, NetworkInUse
  <2> QED BY <2>1, <2>2, StillInUse
<1>5. CASE EnterConnected
  <2>1. info' = [info EXCEPT !.ssid = ci, !.rssi = 0] /\ InUse
    BY <1>5 DEF EnterConnected, At, InUse
  <2>2. info'.state = info.state /\ info'.ssid = ci
    BY <2>1 DEF TypeOK
  <2> QED BY <1>5, <2>1, <2>2, StillInUse DEF EnterConnected
<1>6. CASE MonitorRssi
  <2>1. /\ UNCHANGED <<evq, hnd, ev, link, net, ci, cur, pub, reg>>
        /\ mgr = "monWait"
        /\ UNCHANGED info \/ \E rssi \in Readings : info' = [info EXCEPT !.rssi = rssi]
    BY <1>6 DEF MonitorRssi, Waited, At
  <2>2. info'.state = info.state /\ info'.ssid = info.ssid
    BY <2>1 DEF TypeOK
  <2>3. info'.ssid = ci /\ InUse
    BY <2>1, <2>2 DEF Reports, NetworkInUse, InUse
  <2> QED BY <2>1, <2>2, <2>3, StillInUse
<1>7. CASE RoamScan
  <2>1. UNCHANGED <<evq, hnd, ev, link, net, cur, pub, info, reg>> /\ mgr = "roamScan"
    BY <1>7 DEF RoamScan, At
  <2>2. CASE UNCHANGED ci
    <3>1. info'.ssid = ci /\ InUse
      BY <2>1 DEF Reports, NetworkInUse, InUse
    <3> QED BY <2>1, <2>2, <3>1, StillInUse
  <2>3. CASE mgr' = "clearForSwitch"
    BY <2>1, <2>3, OutOfUse DEF InUse
  <2> QED BY <1>7, <2>2, <2>3 DEF RoamScan
<1>8. CASE Timeout
  <2>1. UNCHANGED <<mgr, ci, evq, hnd, ev, link, net, cur, pub, info, reg>>
    BY <1>8 DEF Timeout
  <2> QED BY <2>1 DEF Reports, NetworkInUse, HandlerStates, UpReported, InfoAgrees,
      InUse, LossToReport
<1>9. QED
  BY <1>1, <1>2, <1>3, <1>4, <1>5, <1>6, <1>7, <1>8 DEF Manager, Connecting, Monitoring

\* The event task's steps establish them.
LEMMA HandlerReports == WifiInv /\ SettledInv /\ Handler => Reports'
<1> SUFFICES ASSUME WifiInv, SettledInv, Handler PROVE Reports'
  OBVIOUS
<1> USE DEF WifiInv, mgrVars, evtVars, drvVars
<1> Reports
  BY DEF SettledInv, Reports
<1>1. CASE Dispatch
  <2>1. /\ UNCHANGED <<mgr, ci, link, net, cur, pub, info, reg>>
        /\ hnd = "idle" /\ hnd' = "clear"
    BY <1>1 DEF Dispatch
  <2>2. NetworkInUse' /\ HandlerStates' /\ UpReported'
    BY <2>1 DEF Reports, NetworkInUse, HandlerStates, UpReported, InUse
  <2>3. InfoAgrees'
    BY <1>1, <2>1, LossDispatched DEF Reports, InfoAgrees, InUse
  <2> QED BY <2>2, <2>3 DEF Reports
<1>2. CASE HandlerClears \/ HandlerSets
  <2>1. /\ UNCHANGED <<mgr, ci, evq, ev, link, net, cur, pub, info, reg>>
        /\ hnd \in {"clear", "set"} /\ hnd' \in {"set", "state"}
    BY <1>2 DEF HandlerClears, HandlerSets
  <2>2. NetworkInUse' /\ HandlerStates' /\ UpReported'
    BY <2>1 DEF Reports, NetworkInUse, HandlerStates, UpReported, InUse
  <2>3. InfoAgrees'
    BY <2>1 DEF Reports, InfoAgrees, InUse, LossToReport
  <2> QED BY <2>2, <2>3 DEF Reports
<1>3. CASE HandlerSetsState
  <2>1. /\ UNCHANGED <<mgr, ci, evq, ev, link, net, info, reg>>
        /\ hnd = "state" /\ hnd' = "reg" /\ pub["evt"] = Silent
        /\ SetWifiState("evt", SetsState(ev))
    BY <1>3 DEF HandlerSetsState, Reports, HandlerStates
  <2>2. /\ cur' = SetsState(ev) /\ pub'["mgr"] = pub["mgr"]
        /\ pub'["evt"] = IF cur = SetsState(ev) THEN Silent ELSE SetsState(ev)
    BY <2>1 DEF SetWifiState, TypeOK, Tasks
  <2>3. SetsState(ev) # Silent /\ (ev = "STA_DISCONNECTED" => SetsState(ev) # "CONNECTED")
    BY DEF SetsState, Silent
  <2>4. NetworkInUse'
    BY <2>1, <2>2 DEF Reports, NetworkInUse, InUse
  <2>5. HandlerStates'
    BY <2>1, <2>2, <2>3 DEF HandlerStates, Silent
  <2>6. UpReported'
    <3>1. evq = <<>> /\ link = "up" => ev = "STA_GOT_IP"
      BY DEF SettledInv, YoungestTells, Youngest
    <3> QED BY <2>1, <2>2, <3>1 DEF UpReported, SetsState
  <2>7. InfoAgrees'
    <3> SUFFICES ASSUME InUse', cur' = "CONNECTED", pub'["evt"] = Silent
                 PROVE  info'.state = "CONNECTED" \/ LossToReport'
      BY DEF InfoAgrees
    <3>1. cur = "CONNECTED" /\ ev # "STA_DISCONNECTED"
      BY <2>2, <2>3
    <3> QED BY <2>1, <3>1 DEF Reports, InfoAgrees, InUse, LossToReport
  <2> QED BY <2>4, <2>5, <2>6, <2>7 DEF Reports
<1>4. CASE HandlerRegisters
  <2>1. /\ UNCHANGED <<mgr, ci, evq, ev, link, net, cur, pub, info>>
        /\ hnd = "reg" /\ hnd' = "idle" /\ pub["evt"] = Silent /\ reg' = SetsReg(ev)
    BY <1>4 DEF HandlerRegisters
  <2>2. NetworkInUse' /\ HandlerStates'
    BY <2>1 DEF Reports, NetworkInUse, HandlerStates, InUse
  <2>3. UpReported'
    <3>1. evq = <<>> /\ link = "up" => ev = "STA_GOT_IP"
      BY DEF SettledInv, YoungestTells, Youngest
    <3> QED BY <2>1, <3>1 DEF Reports, UpReported, InUse, SetsReg
  <2>4. InfoAgrees'
    BY <2>1 DEF Reports, InfoAgrees, InUse, LossToReport
  <2> QED BY <2>2, <2>3, <2>4 DEF Reports
<1> QED BY <1>1, <1>2, <1>3, <1>4 DEF Handler

\* And what happens in the air, or in a critical section of set_wifi_state, does
\* not undo them.
LEMMA EnvironmentReports ==
  WifiInv /\ SettledInv /\ (Environment \/ (\E t \in Tasks : PublishState(t)) \/ UNCHANGED vars)
    => Reports'
<1> SUFFICES ASSUME WifiInv, SettledInv,
                    Environment \/ (\E t \in Tasks : PublishState(t)) \/ UNCHANGED vars
             PROVE  Reports'
  OBVIOUS
<1> USE DEF WifiInv, mgrVars, evtVars, drvVars
<1> Reports
  BY DEF SettledInv, Reports
<1>1. CASE JoinSucceeds \/ JoinFails \/ LinkLost
  <2>1. /\ UNCHANGED <<mgr, ci, hnd, ev, net, cur, pub, info, reg>>
        /\ \E e \in Events : Post(e)
    BY <1>1 DEF JoinSucceeds, JoinFails, LinkLost, Events
  <2>2. evq' # <<>>
    BY <2>1, PostType
  <2>3. LossToReport => LossToReport'
    BY <2>1, LossPosted
  <2>4. NetworkInUse' /\ HandlerStates' /\ UpReported'
    BY <2>1, <2>2 DEF Reports, NetworkInUse, HandlerStates, UpReported, InUse
  <2>5. InfoAgrees'
    BY <2>1, <2>3 DEF Reports, InfoAgrees, InUse
  <2> QED BY <2>4, <2>5 DEF Reports
<1>2. CASE SettleDown \/ UNCHANGED vars
  <2>1. UNCHANGED <<mgr, ci, evq, hnd, ev, link, net, cur, pub, info, reg>>
    BY <1>2 DEF SettleDown, vars
  <2> QED BY <2>1 DEF Reports, NetworkInUse, HandlerStates, UpReported, InfoAgrees,
      InUse, LossToReport
<1>3. ASSUME NEW t \in Tasks, PublishState(t) PROVE Reports'
  <2>1. /\ UNCHANGED <<mgr, ci, evq, hnd, ev, link, net, cur, reg>>
        /\ pub[t] # Silent
        /\ info' = [info EXCEPT !.state = pub[t]] /\ pub' = [pub EXCEPT ![t] = Silent]
    BY <1>3 DEF PublishState
  <2>2. /\ info'.state = pub[t] /\ info'.ssid = info.ssid
        /\ pub'[t] = Silent /\ \A u \in Tasks \ {t} : pub'[u] = pub[u]
    BY <2>1 DEF TypeOK
  <2>3. NetworkInUse' /\ HandlerStates' /\ UpReported'
    BY <2>1, <2>2 DEF Reports, NetworkInUse, HandlerStates, UpReported, InUse, Tasks
  <2>4. InfoAgrees'
    <3>1. CASE t = "mgr"
      BY <2>1, <3>1 DEF Reports, NetworkInUse, InfoAgrees, InUse
    <3>2. CASE t = "evt"
      <4>1. hnd = "reg" /\ pub["evt"] = SetsState(ev)
        BY <2>1, <3>2 DEF Reports, HandlerStates
      <4>2. CASE ev = "STA_DISCONNECTED"
        BY <2>1, <4>1, <4>2 DEF Reports, HandlerStates, InfoAgrees
      <4>3. CASE ev = "STA_GOT_IP"
        BY <2>2, <3>2, <4>1, <4>3 DEF SetsState, InfoAgrees
      <4> QED BY <4>2, <4>3 DEF TypeOK, Events
    <3> QED BY <3>1, <3>2 DEF Tasks
  <2> QED BY <2>3, <2>4 DEF Reports
<1> QED BY <1>1, <1>2, <1>3 DEF Environment

\* Every reachable state satisfies the invariant of the reports.
THEOREM SettledInvariant == Spec => []SettledInv
<1>1. Init => SettledInv
  BY DEF Init, SettledInv, YoungestTells, Youngest, NetworkInUse, HandlerStates,
     UpReported, InfoAgrees, InUse, Tasks
<1>2. WifiInv /\ SettledInv /\ [Next]_vars => SettledInv'
  <2> SUFFICES ASSUME WifiInv, SettledInv, [Next]_vars PROVE SettledInv'
    OBVIOUS
  <2>1. YoungestTells'
    BY YoungestStep DEF WifiInv, SettledInv
  <2>2. Reports'
    BY ManagerReports, HandlerReports, EnvironmentReports DEF Next
  <2> QED BY <2>1, <2>2 DEF SettledInv, Reports
<1>3. QED
  BY <1>1, <1>2, WifiInvariant, PTL DEF Spec

\* Whatever the two tasks' set_wifi_state calls overwrote of each other, a
\* monitored link that is up is told alike by the registry, s_current_state and
\* s_info once the last event is handled, under the name that the driver joined.
THEOREM MonitorTellsTheTruth == Spec => []MonitorSettled
<1>1. SettledInv => MonitorSettled
  <2> SUFFICES ASSUME SettledInv, mgr \in {"monitor", "monWait"}, link = "up", Drained,
                      \A t \in Tasks : pub[t] = Silent
               PROVE  /\ reg = "connected"
                      /\ cur = "CONNECTED" /\ info.state = "CONNECTED"
                      /\ net = ci /\ info.ssid = ci
    BY DEF MonitorSettled
  <2>1. InUse /\ evq = <<>> /\ hnd = "idle" /\ pub["evt"] = Silent
    BY DEF InUse, Drained, Tasks
  <2>2. net = ci /\ info.ssid = ci /\ reg = "connected" /\ cur = "CONNECTED"
    BY <2>1 DEF SettledInv, NetworkInUse, UpReported
  <2>3. ~LossToReport
    <3>1. Len(evq) = 0
      BY <2>1
    <3> QED BY <2>1, <3>1 DEF LossToReport
  <2>4. info.state = "CONNECTED"
    BY <2>1, <2>2, <2>3 DEF SettledInv, InfoAgrees
  <2> QED BY <2>2, <2>4
<1>2. QED
  BY <1>1, SettledInvariant, PTL

-----------------------------------------------------------------------------
(* The variant: counting the losses in the event queue, and what each step does *)
(* to the count of setbacks, of steps to the monitor and of events             *)

\* The positions at which a queue holds a loss.
LossesAt(queue) == {i \in 1..Len(queue) : queue[i] = "STA_DISCONNECTED"}

LEMMA LossesInType ==
  ASSUME NEW queue \in Seq(Events)
  PROVE  IsFiniteSet(LossesAt(queue)) /\ LossesIn(queue) \in Nat
<1>1. IsFiniteSet(1..Len(queue))
  BY FS_Interval
<1>2. IsFiniteSet(LossesAt(queue))
  BY <1>1, FS_Subset DEF LossesAt
<1> QED BY <1>2, FS_CardinalityType DEF LossesIn, LossesAt

LEMMA LossesInPosted ==
  ASSUME NEW queue \in Seq(Events), NEW e \in Events
  PROVE  LossesIn(Append(queue, e)) = LossesIn(queue) + One(e = "STA_DISCONNECTED")
<1> DEFINE more == Append(queue, e)
           last == Len(queue) + 1
<1>1. /\ more \in Seq(Events) /\ Len(more) = last /\ more[last] = e
      /\ \A i \in 1..Len(queue) : more[i] = queue[i]
  OBVIOUS
<1>2. last \notin LossesAt(queue)
  BY DEF LossesAt
<1>3. /\ LossesIn(queue) = Cardinality(LossesAt(queue)) /\ IsFiniteSet(LossesAt(queue))
      /\ LossesIn(more) = Cardinality(LossesAt(more)) /\ LossesIn(queue) \in Nat
  BY LossesInType DEF LossesIn, LossesAt
<1> HIDE DEF more, last
<1>4. CASE e = "STA_DISCONNECTED"
  <2>1. LossesAt(more) = LossesAt(queue) \cup {last}
    BY <1>1, <1>4 DEF LossesAt, last
  <2>2. Cardinality(LossesAt(more)) = Cardinality(LossesAt(queue)) + 1
    BY <1>2, <1>3, <2>1, FS_AddElement
  <2> QED BY <1>3, <1>4, <2>2 DEF One, more
<1>5. CASE e # "STA_DISCONNECTED"
  <2>1. LossesAt(more) = LossesAt(queue)
    BY <1>1, <1>5 DEF LossesAt, last
  <2> QED BY <1>3, <1>5, <2>1 DEF One, more
<1> QED BY <1>4, <1>5

LEMMA LossesInDispatched ==
  ASSUME NEW queue \in Seq(Events), queue # <<>>
  PROVE  LossesIn(queue) = LossesIn(Tail(queue)) + One(Head(queue) = "STA_DISCONNECTED")
<1> DEFINE rest == LossesAt(Tail(queue))
           up   == [i \in rest |-> i + 1]
<1>1. /\ Tail(queue) \in Seq(Events) /\ Len(Tail(queue)) = Len(queue) - 1
      /\ Len(queue) \in Nat \ {0} /\ queue[1] = Head(queue)
      /\ \A i \in 1..(Len(queue) - 1) : Tail(queue)[i] = queue[i + 1]
  OBVIOUS
<1>2. IsFiniteSet(LossesAt(queue)) /\ IsFiniteSet(rest) /\ LossesIn(Tail(queue)) \in Nat
  BY <1>1, LossesInType
<1>3. up \in Bijection(rest, LossesAt(queue) \ {1})
  <2>1. \A i \in rest : up[i] \in LossesAt(queue) \ {1}
    BY <1>1 DEF LossesAt
  <2>2. \A j \in LossesAt(queue) \ {1} : j - 1 \in rest /\ up[j - 1] = j
    BY <1>1 DEF LossesAt
  <2>3. \A i, j \in rest : up[i] = up[j] => i = j
    BY DEF LossesAt
  <2> QED BY <2>1, <2>2, <2>3, Fun_IsBij
<1>4. Cardinality(LossesAt(queue) \ {1}) = LossesIn(Tail(queue))
  <2> HIDE DEF rest, up
  <2>1. ExistsBijection(rest, LossesAt(queue) \ {1})
    BY <1>3 DEF ExistsBijection
  <2>2. Cardinality(LossesAt(queue) \ {1}) = Cardinality(rest)
    BY <1>2, <2>1, FS_Bijection
  <2> QED BY <2>2 DEF rest, LossesIn, LossesAt
<1>5. 1 \in LossesAt(queue) <=> Head(queue) = "STA_DISCONNECTED"
  BY <1>1 DEF LossesAt
<1>6. LossesIn(queue) \in Nat /\ LossesIn(queue) = Cardinality(LossesAt(queue))
  BY LossesInType DEF LossesIn, LossesAt
<1>7. LossesIn(Tail(queue)) = IF 1 \in LossesAt(queue) THEN LossesIn(queue) - 1
                                                      ELSE LossesIn(queue)
  BY <1>2, <1>4, <1>6, FS_RemoveElement
<1> QED BY <1>5, <1>6, <1>7 DEF One

LEMMA LossesInNone ==
  ASSUME NEW queue \in Seq(Events), \A i \in 1..Len(queue) : queue[i] # "STA_DISCONNECTED"
  PROVE  LossesIn(queue) = 0
<1>1. LossesAt(queue) = {}
  BY DEF LossesAt
<1> QED BY <1>1, FS_EmptySet DEF LossesIn, LossesAt

\* The parts of the variant are numbers.
Numbers ==
  /\ LossesIn(evq) \in Nat /\ Len(evq) \in Nat
  /\ Losses \in Nat /\ Pending \in Nat /\ Setbacks \in Nat
  /\ StepsLeft \in Nat /\ HandlerLeft[hnd] \in 0..5 /\ EventsLeft \in Nat
  /\ attempt \in Nat /\ RETRIES_PER_NET \in Nat

LEMMA CountsType == TypeOK => Numbers
<1> SUFFICES ASSUME TypeOK PROVE Numbers
  OBVIOUS
<1>1. LossesIn(evq) \in Nat /\ Losses \in Nat
  BY LossesInType DEF TypeOK, Losses, One
<1>2. Pending \in Nat /\ Setbacks \in Nat
  BY <1>1 DEF Pending, Setbacks, One
<1>3. Place[mgr] \in 0..15
  BY DEF TypeOK, MgrSteps, Place
<1>4. StepsLeft \in Nat
  <2> DEFINE wait == One(mgr = "discWait" /\ waiting # {})
             over == IF mgr = "attempt" /\ attempt > RETRIES_PER_NET THEN 5 ELSE 0
  <2>1. wait \in Nat /\ over \in Nat /\ Place[mgr] \in Nat
    BY <1>3 DEF One
  <2>2. StepsLeft = Place[mgr] + wait + over
    BY DEF StepsLeft
  <2>3. \A x, y, z \in Nat : x + y + z \in Nat
    OBVIOUS
  <2> HIDE DEF wait, over
  <2> QED BY <2>1, <2>2, <2>3
<1>5. HandlerLeft[hnd] \in 0..5 /\ Len(evq) \in Nat
  BY DEF TypeOK, HndSteps, HandlerLeft
<1>6. EventsLeft \in Nat
  <2> DEFINE queued == 6 * Len(evq)
             join   == IF link = "joining" THEN 7 ELSE 0
             m      == One(pub["mgr"] # Silent)
             e      == One(pub["evt"] # Silent)
  <2>1. /\ queued \in Nat /\ join \in Nat /\ m \in Nat /\ e \in Nat
        /\ HandlerLeft[hnd] \in Nat
    BY <1>5 DEF One
  <2>2. EventsLeft = queued + HandlerLeft[hnd] + m + e + join
    BY DEF EventsLeft
  <2>3. \A q, h, i, k, j \in Nat : q + h + i + k + j \in Nat
    OBVIOUS
  <2> HIDE DEF queued, join, m, e
  <2> QED BY <2>1, <2>2, <2>3
<1>7. attempt \in Nat /\ RETRIES_PER_NET \in Nat
  BY WifiAssumption DEF TypeOK, WifiAssumption
<1> QED BY <1>1, <1>2, <1>4, <1>5, <1>6, <1>7 DEF Numbers

LEMMA NextCountsType == TypeOK' => Numbers'
  BY CountsType, PTL

\* Pending and Setbacks, told by cases.
Cases ==
  /\ ToTeardown /\ link # "idle" => Pending = Losses + 1
  /\ ~ToTeardown \/ link = "idle" => Pending = Losses
  /\ TakesOne /\ Pending > 0 => Setbacks = Pending - 1
  /\ ~TakesOne \/ Pending = 0 => Setbacks = Pending
  /\ ToTeardown => TakesOne

LEMMA CasesHold == TypeOK => Cases
<1> SUFFICES ASSUME TypeOK PROVE Cases
  OBVIOUS
<1>1. Losses \in Nat /\ Pending \in Nat
  BY CountsType DEF Numbers
<1>2. ToTeardown => TakesOne
  BY DEF TakesOne
<1>3. /\ ToTeardown /\ link # "idle" => Pending = Losses + 1
      /\ ~ToTeardown \/ link = "idle" => Pending = Losses
  BY <1>1, <1>2 DEF Pending, One
<1>4. /\ TakesOne /\ Pending > 0 => Setbacks = Pending - 1
      /\ ~TakesOne \/ Pending = 0 => Setbacks = Pending
  BY <1>1, <1>2 DEF Setbacks
<1> QED BY <1>2, <1>3, <1>4 DEF Cases

LEMMA NextCasesHold == TypeOK' => Cases'
  BY CasesHold, PTL

\* The arithmetic of the next lemma.
LEMMA OneTaken ==
  \A l, p, s \in Nat :
    (p = l \/ p = l + 1) /\ (p > 0 => s = p - 1) /\ (p = 0 => s = p) => s <= l
OBVIOUS

LEMMA OneMore == \A l, l2 \in Nat : l2 <= l => l2 + 1 <= l + 1
OBVIOUS

LEMMA OneHandled ==
  \A p, p2, s \in Nat : p = p2 + 1 /\ (p > 0 => s = p - 1) => s = p2
OBVIOUS

LEMMA FewerPending ==
  \A p, s, p2, s2 \in Nat :
    p2 <= p /\ (p > 0 => s = p - 1) /\ (p = 0 => s = p)
      /\ (p2 > 0 => s2 = p2 - 1) /\ (p2 = 0 => s2 = p2) => s2 <= s
OBVIOUS

\* How a step's effect on the losses carries over to the setbacks.
LEMMA SetbacksFollow ==
  ASSUME TypeOK, TypeOK'
  PROVE  /\ Losses' = Losses /\ (ToTeardown' <=> ToTeardown) /\ link' = link
              => Pending' = Pending
         /\ Losses' <= Losses /\ (ToTeardown' <=> ToTeardown) /\ link' = link
              => Pending' <= Pending
         /\ Pending' = Pending /\ (TakesOne' <=> TakesOne) => Setbacks' = Setbacks
         /\ Pending' <= Pending /\ (TakesOne' <=> TakesOne) => Setbacks' <= Setbacks
         /\ Pending = Pending' + 1 /\ TakesOne /\ ~TakesOne' => Setbacks' = Setbacks
         /\ ~ToTeardown /\ ~TakesOne /\ ToTeardown'
              => Setbacks = Losses /\ Setbacks' <= Losses'
<1>1. /\ Losses \in Nat /\ Losses' \in Nat /\ Pending \in Nat /\ Pending' \in Nat
      /\ Setbacks \in Nat /\ Setbacks' \in Nat
  BY CountsType, NextCountsType DEF Numbers
<1>2. Losses' = Losses /\ (ToTeardown' <=> ToTeardown) /\ link' = link => Pending' = Pending
  BY CasesHold, NextCasesHold DEF Cases
<1>3. Losses' <= Losses /\ (ToTeardown' <=> ToTeardown) /\ link' = link => Pending' <= Pending
  <2>1. CASE ToTeardown /\ link # "idle"
    BY <1>1, <2>1, CasesHold, NextCasesHold, OneMore DEF Cases
  <2>2. CASE ~ToTeardown \/ link = "idle"
    BY <1>1, <2>2, CasesHold, NextCasesHold DEF Cases
  <2> QED BY <2>1, <2>2
<1>4. Pending' = Pending /\ (TakesOne' <=> TakesOne) => Setbacks' = Setbacks
  BY <1>1, CasesHold, NextCasesHold DEF Cases
<1>5. Pending' <= Pending /\ (TakesOne' <=> TakesOne) => Setbacks' <= Setbacks
  BY <1>1, CasesHold, NextCasesHold, FewerPending DEF Cases
<1>6. Pending = Pending' + 1 /\ TakesOne /\ ~TakesOne' => Setbacks' = Setbacks
  <2>1. TakesOne => (Pending > 0 => Setbacks = Pending - 1)
    BY CasesHold DEF Cases
  <2>2. ~TakesOne' => Setbacks' = Pending'
    BY NextCasesHold DEF Cases
  <2> QED BY <1>1, <2>1, <2>2, OneHandled
<1>7. ~ToTeardown /\ ~TakesOne => Setbacks = Losses
  BY CasesHold DEF Cases
<1>8. ToTeardown' => Setbacks' <= Losses'
  BY <1>1, NextCasesHold, OneTaken DEF Cases
<1> QED BY <1>2, <1>3, <1>4, <1>5, <1>6, <1>7, <1>8

\* The manager's steps to the next attempt, from any round.
LEMMA RoundCounts ==
  ASSUME TypeOK, TypeOK', AttemptCounted, WaitsInPlace, calm, creds # {},
         TopOfLoop \/ ScanForNetwork \/ BeginRound \/ RegisterConnecting \/ GiveUpRound
  PROVE  Lower
<1>1. ScanForNetwork => mgr' = "round"
  BY WifiAssumption DEF ScanForNetwork, ScanAnswers, TypeOK, WifiAssumption
<1>2. /\ UNCHANGED <<creds, got, waiting, bits, evtVars, drvVars, calm>>
      /\ ToTeardown /\ ToTeardown'
  BY <1>1 DEF TopOfLoop, ScanForNetwork, BeginRound, RegisterConnecting, GiveUpRound, At,
     mgrVars, ToTeardown
<1>3. Losses' = Losses
  BY <1>2 DEF Losses, evtVars, ToTeardown
<1>4. Pending' = Pending /\ (TakesOne' <=> TakesOne)
  BY <1>2, <1>3 DEF Pending, TakesOne, drvVars
<1>5. StepsLeft' < StepsLeft
  <2>1. /\ Place["loop"] = 14 /\ Place["scan"] = 13 /\ Place["round"] = 12
        /\ Place["regConnecting"] = 11 /\ Place["attempt"] = 10
    BY DEF Place
  <2>2. \/ mgr = "loop" /\ mgr' = "scan"
        \/ mgr = "scan" /\ mgr' = "round"
        \/ mgr = "round" /\ mgr' = "regConnecting"
        \/ /\ mgr = "regConnecting" /\ mgr' = "attempt"
           /\ attempt <= RETRIES_PER_NET /\ attempt' = attempt
        \/ mgr = "attempt" /\ attempt > RETRIES_PER_NET /\ mgr' = "loop"
    BY <1>1 DEF TopOfLoop, ScanForNetwork, BeginRound, RegisterConnecting, GiveUpRound, At,
       AttemptCounted
  <2>3. attempt \in Nat /\ RETRIES_PER_NET \in Nat
    BY CountsType DEF Numbers
  <2> QED BY <2>1, <2>2, <2>3 DEF StepsLeft, One
<1> QED BY <1>4, <1>5, SetbacksFollow DEF Lower

\* A teardown: it posts the loss that it then waits for.
LEMMA TeardownCounts ==
  ASSUME TypeOK, TypeOK', AttemptCounted, TornDownFirst, WaitsInPlace, calm,
         ForgetOldEvents \/ Disconnect \/ AwaitDisconnect \/ ForgetEventsAgain
  PROVE  Lower
<1> USE DEF At, Waited, evtVars
<1>p. /\ Place["attempt"] = 10 /\ Place["disc"] = 9 /\ Place["discCall"] = 8
      /\ Place["discWait"] = 6 /\ Place["start"] = 5
  BY DEF Place
<1>n. /\ LossesIn(evq) \in Nat /\ Losses \in Nat /\ Losses' \in Nat
      /\ Pending \in Nat /\ Pending' \in Nat /\ attempt \in Nat
      /\ Setbacks \in Nat /\ Setbacks' \in Nat /\ RETRIES_PER_NET \in Nat
  BY CountsType, NextCountsType DEF Numbers
<1>1. CASE ForgetOldEvents
  <2>1. Losses' <= Losses
    BY <1>1, <1>n DEF ForgetOldEvents, Losses, One
  <2>2. Pending' <= Pending /\ TakesOne /\ TakesOne'
    BY <1>1, <2>1, SetbacksFollow DEF ForgetOldEvents, ToTeardown, TakesOne, drvVars
  <2>3. StepsLeft' < StepsLeft
    BY <1>1, <1>p, <1>n DEF ForgetOldEvents, StepsLeft, One
  <2> QED BY <2>2, <2>3, <1>n, SetbacksFollow DEF Lower
<1>2. CASE Disconnect
  <2>1. Losses' = Losses + One(link # "idle")
    <3>1. LossesIn(evq') = LossesIn(evq) + One(link # "idle")
      <4>1. CASE link = "idle"
        BY <1>2, <1>n, <4>1 DEF Disconnect, One
      <4>2. CASE link # "idle"
        <5>1. evq' = Append(evq, "STA_DISCONNECTED") /\ evq \in Seq(Events)
          BY <1>2, <4>2 DEF Disconnect, Post, TypeOK
        <5> QED BY <4>2, <5>1, LossesInPosted DEF Events, One
      <4> QED BY <4>1, <4>2
    <3> QED BY <1>2, <1>n, <3>1 DEF Disconnect, Losses, One
  <2>2. Pending' = Pending /\ TakesOne /\ TakesOne'
    BY <1>2, <1>n, <2>1, CasesHold, NextCasesHold DEF Disconnect, Cases, ToTeardown, TakesOne, One
  <2>3. StepsLeft' < StepsLeft
    BY <1>2, <1>p, <1>n DEF Disconnect, StepsLeft, One
  <2> QED BY <2>2, <2>3, SetbacksFollow DEF Lower
<1>3. CASE AwaitDisconnect
  <2>1. mgr = "discCall" /\ mgr' = "discWait" /\ waiting = {}
    BY <1>3 DEF AwaitDisconnect, WaitBits, WaitsInPlace
  <2>2. StepsLeft' < StepsLeft
    BY <1>p, <1>n, <2>1 DEF StepsLeft, One
  <2>3. CASE "EVT_DISC" \in bits
    <3>1. waiting' = {} /\ "EVT_DISC" \notin bits'
      BY <1>3, <2>1, <2>3 DEF AwaitDisconnect, WaitBits
    <3>2. Losses = Losses' + 1
      BY <1>3, <1>n, <2>1, <2>3, <3>1 DEF AwaitDisconnect, Losses, One
    <3>3. Pending' = Losses' /\ Pending = Losses /\ TakesOne /\ ~TakesOne'
      BY <2>1, <3>1, CasesHold, NextCasesHold DEF Cases, ToTeardown, TakesOne
    <3>4. Setbacks' = Setbacks
      BY <3>2, <3>3, SetbacksFollow
    <3> QED BY <2>2, <3>4 DEF Lower
  <2>4. CASE "EVT_DISC" \notin bits
    <3>1. waiting' = {"EVT_DISC"} /\ bits' = bits /\ got' = got
      BY <1>3, <2>4 DEF AwaitDisconnect, WaitBits
    <3>2. Losses = Losses'
      BY <1>3, <2>1, <3>1 DEF AwaitDisconnect, Losses
    <3>3. Pending' = Pending /\ TakesOne /\ TakesOne'
      BY <2>1, <3>1, <3>2, CasesHold, NextCasesHold DEF Cases, ToTeardown, TakesOne
    <3> QED BY <2>2, <3>3, SetbacksFollow DEF Lower
  <2> QED BY <2>3, <2>4
<1>4. CASE ForgetEventsAgain
  <2>1. Losses' <= Losses
    BY <1>4, <1>n DEF ForgetEventsAgain, Losses, One
  <2>2. Pending' <= Pending /\ ~TakesOne /\ ~TakesOne'
    BY <1>4, <2>1, CasesHold, NextCasesHold DEF ForgetEventsAgain, Cases, ToTeardown, TakesOne
  <2>3. StepsLeft' < StepsLeft
    BY <1>4, <1>p, <1>n DEF ForgetEventsAgain, StepsLeft, One
  <2> QED BY <2>2, <2>3, <1>n, SetbacksFollow DEF Lower
<1> QED BY <1>1, <1>2, <1>3, <1>4

\* An attempt, from esp_wifi_connect to what became of it.
LEMMA AttemptCounts ==
  ASSUME TypeOK, TypeOK', AttemptCounted, TornDownFirst, WaitsInPlace, calm,
         StartConnect \/ AwaitConnect \/ AttemptOutcome
  PROVE  Lower
<1> USE DEF At, Waited, evtVars
<1>p. /\ Place["attempt"] = 10 /\ Place["start"] = 5 /\ Place["connCall"] = 4
      /\ Place["connWait"] = 3 /\ Place["connected"] = 2
  BY DEF Place
<1>n. /\ LossesIn(evq) \in Nat /\ Losses \in Nat /\ Losses' \in Nat
      /\ Pending \in Nat /\ Pending' \in Nat /\ attempt \in Nat
      /\ Setbacks \in Nat /\ Setbacks' \in Nat /\ RETRIES_PER_NET \in Nat
  BY CountsType, NextCountsType DEF Numbers
<1>c. ~ToTeardown => Pending = Losses
  BY CasesHold DEF Cases
<1>d. ~ToTeardown' => Pending' = Losses'
  BY NextCasesHold DEF Cases
<1>1. CASE StartConnect
  <2>1. Losses' = Losses
    BY <1>1 DEF StartConnect, Losses
  <2>2. ~ToTeardown /\ ~ToTeardown' /\ ~TakesOne /\ ~TakesOne'
    BY <1>1 DEF StartConnect, ToTeardown, TakesOne
  <2>3. StepsLeft' < StepsLeft
    BY <1>1, <1>p DEF StartConnect, StepsLeft, One
  <2> QED BY <1>c, <1>d, <2>1, <2>2, <2>3, SetbacksFollow DEF Lower
<1>2. CASE AwaitConnect
  <2>1. mgr = "connCall" /\ mgr' = "connWait" /\ waiting = {}
    BY <1>2 DEF AwaitConnect, WaitBits, WaitsInPlace
  <2>2. Losses' <= Losses
    <3>1. CASE bits \cap {"GOT_IP", "EVT_DISC"} # {}
      BY <1>2, <1>n, <2>1, <3>1 DEF AwaitConnect, WaitBits, Losses, One
    <3>2. CASE bits \cap {"GOT_IP", "EVT_DISC"} = {}
      BY <1>2, <1>n, <2>1, <3>2 DEF AwaitConnect, WaitBits, Losses, One
    <3> QED BY <3>1, <3>2
  <2>3. ~ToTeardown /\ ~ToTeardown' /\ ~TakesOne /\ ~TakesOne'
    BY <2>1 DEF ToTeardown, TakesOne
  <2>4. StepsLeft' < StepsLeft
    BY <1>p, <2>1 DEF StepsLeft, One
  <2>5. Setbacks' <= Setbacks
    BY <1>c, <1>d, <2>2, <2>3, SetbacksFollow
  <2> QED BY <1>n, <2>4, <2>5 DEF Lower
<1>3. CASE AttemptOutcome /\ "GOT_IP" \in got
  <2>1. Losses' = Losses
    BY <1>3 DEF AttemptOutcome, Losses, One
  <2>2. ~ToTeardown /\ ~ToTeardown' /\ ~TakesOne /\ ~TakesOne'
    BY <1>3 DEF AttemptOutcome, ToTeardown, TakesOne
  <2>3. StepsLeft' < StepsLeft
    BY <1>3, <1>p DEF AttemptOutcome, StepsLeft, One
  <2> QED BY <1>c, <1>d, <2>1, <2>2, <2>3, SetbacksFollow DEF Lower
<1>4. CASE AttemptOutcome /\ "GOT_IP" \notin got
  <2>1. Losses' < Losses
    BY <1>4, <1>n DEF AttemptOutcome, Losses, One
  <2>2. ~ToTeardown /\ ToTeardown' /\ ~TakesOne
    BY <1>4 DEF AttemptOutcome, ToTeardown, TakesOne
  <2>3. Setbacks = Losses /\ Setbacks' <= Losses'
    BY <2>2, SetbacksFollow
  <2> QED BY <1>n, <2>1, <2>3 DEF Lower
<1> QED BY <1>1, <1>2, <1>3, <1>4

\* The monitor: a loss takes it back to the loop top, once; a switch of networks
\* pays for the link that it will tear down with the steps to the monitor.
LEMMA MonitorCounts ==
  ASSUME TypeOK, TypeOK', WaitsInPlace, calm, Monitoring
  PROVE  Lower
<1> USE DEF At, Waited, evtVars, mgrVars, drvVars
<1>p. /\ Place["connected"] = 2 /\ Place["regConnected"] = 1 /\ Place["monitor"] = 0
      /\ Place["monWait"] = 0 /\ Place["roamScan"] = 15 /\ Place["clearForSwitch"] = 14
      /\ Place["setForSwitch"] = 13 /\ Place["round"] = 12
  BY DEF Place
<1>n. /\ LossesIn(evq) \in Nat /\ Losses \in Nat /\ Losses' \in Nat
      /\ Pending \in Nat /\ Pending' \in Nat
      /\ Setbacks \in Nat /\ Setbacks' \in Nat
  BY CountsType, NextCountsType DEF Numbers
<1>c. ~ToTeardown => Pending = Losses
  BY CasesHold DEF Cases
<1>d. ~ToTeardown' => Pending' = Losses'
  BY NextCasesHold DEF Cases
<1>1. CASE EnterConnected \/ RegisterConnected
  <2>1. Losses' = Losses
    BY <1>1 DEF EnterConnected, RegisterConnected, Losses
  <2>2. ~ToTeardown /\ ~ToTeardown' /\ ~TakesOne /\ ~TakesOne'
    BY <1>1 DEF EnterConnected, RegisterConnected, ToTeardown, TakesOne
  <2>3. StepsLeft' < StepsLeft
    <3>1. \/ mgr = "connected" /\ mgr' = "regConnected"
          \/ mgr = "regConnected" /\ mgr' = "monitor"
      BY <1>1 DEF EnterConnected, RegisterConnected
    <3> QED BY <1>p, <3>1 DEF StepsLeft, One
  <2> QED BY <1>c, <1>d, <2>1, <2>2, <2>3, SetbacksFollow DEF Lower
<1>2. CASE AwaitLoss
  <2>1. mgr = "monitor" /\ mgr' = "monWait" /\ waiting = {}
    BY <1>2 DEF AwaitLoss, WaitBits, WaitsInPlace
  <2>2. Losses' = Losses
    <3>1. CASE "EVT_DISC" \in bits
      <4>1. waiting' = {} /\ "EVT_DISC" \notin bits' /\ "EVT_DISC" \in got'
        BY <1>2, <2>1, <3>1 DEF AwaitLoss, WaitBits
      <4> QED BY <1>2, <1>n, <2>1, <3>1, <4>1 DEF AwaitLoss, Losses, One
    <3>2. CASE "EVT_DISC" \notin bits
      <4>1. waiting' # {} /\ bits' = bits
        BY <1>2, <2>1, <3>2 DEF AwaitLoss, WaitBits
      <4> QED BY <1>2, <1>n, <2>1, <3>2, <4>1 DEF AwaitLoss, Losses, One
    <3> QED BY <3>1, <3>2
  <2>3. ~ToTeardown /\ ~ToTeardown' /\ ~TakesOne /\ ~TakesOne'
    BY <2>1 DEF ToTeardown, TakesOne
  <2>4. StepsLeft' = StepsLeft
    BY <1>p, <2>1 DEF StepsLeft, One
  <2>5. EventsLeft' = EventsLeft
    BY <1>2 DEF AwaitLoss, EventsLeft
  <2> QED BY <1>c, <1>d, <2>1, <2>2, <2>3, <2>4, <2>5, SetbacksFollow DEF Lower
<1>3. CASE NoticeLoss
  <2>1. Losses' < Losses
    BY <1>3, <1>n DEF NoticeLoss, Losses, One
  <2>2. ~ToTeardown /\ ToTeardown' /\ ~TakesOne
    BY <1>3 DEF NoticeLoss, ToTeardown, TakesOne
  <2>3. Setbacks = Losses /\ Setbacks' <= Losses'
    BY <2>2, SetbacksFollow
  <2> QED BY <1>n, <2>1, <2>3 DEF Lower
<1>4. CASE MonitorRssi
  <2>1. mgr = "monWait" /\ mgr' = "monitor"
    <3>1. CASE link # "up"
      BY <1>4, <3>1 DEF MonitorRssi
    <3>2. CASE link = "up"
      <4>1. PICK rssi \in Readings :
              LET weak == streak + 1
                  act  == rssi < RSSI_WARN /\ (rssi < RSSI_CRITICAL \/ weak >= DEGRADE_N)
              IN /\ calm => rssi >= RSSI_WARN
                 /\ mgr' = IF act THEN "roamScan" ELSE "monitor"
        BY <1>4, <3>2 DEF MonitorRssi
      <4> QED BY <1>4, <4>1, WifiAssumption DEF MonitorRssi, WifiAssumption
    <3> QED BY <3>1, <3>2
  <2>2. Losses' = Losses
    BY <1>4, <2>1 DEF MonitorRssi, Losses, One
  <2>3. ~ToTeardown /\ ~ToTeardown' /\ ~TakesOne /\ ~TakesOne'
    BY <2>1 DEF ToTeardown, TakesOne
  <2>4. StepsLeft' = StepsLeft
    BY <1>p, <2>1 DEF StepsLeft, One
  <2>5. EventsLeft' = EventsLeft
    BY <1>4 DEF MonitorRssi, EventsLeft
  <2> QED BY <1>c, <1>d, <2>1, <2>2, <2>3, <2>4, <2>5, SetbacksFollow DEF Lower
<1>5. CASE RoamScan
  <2>1. Losses' = Losses
    BY <1>5 DEF RoamScan, Losses
  <2>2. mgr = "roamScan" /\ mgr' \in {"monitor", "clearForSwitch"}
    BY <1>5 DEF RoamScan
  <2>3. ~ToTeardown /\ ~TakesOne
    BY <2>2 DEF ToTeardown, TakesOne
  <2>4. Setbacks' <= Setbacks
    <3>1. CASE mgr' = "monitor"
      BY <1>n, <1>c, <1>d, <2>1, <2>3, <3>1, SetbacksFollow DEF ToTeardown, TakesOne
    <3>2. CASE mgr' = "clearForSwitch"
      <4>1. ToTeardown'
        BY <3>2 DEF ToTeardown
      <4> QED BY <1>n, <2>1, <2>3, <4>1, SetbacksFollow
    <3> QED BY <2>2, <3>1, <3>2
  <2>5. StepsLeft' < StepsLeft
    BY <1>p, <2>2 DEF StepsLeft, One
  <2> QED BY <1>n, <2>4, <2>5 DEF Lower
<1>6. CASE ClearForSwitch \/ SetForSwitch
  <2>1. \/ mgr = "clearForSwitch" /\ mgr' = "setForSwitch"
        \/ mgr = "setForSwitch" /\ mgr' = "round"
    BY <1>6 DEF ClearForSwitch, SetForSwitch
  <2>2. waiting = {}
    BY <2>1 DEF WaitsInPlace
  <2>3. waiting' = {} /\ ("EVT_DISC" \in bits' <=> "EVT_DISC" \in bits)
    <3>1. CASE ClearForSwitch
      BY <2>2, <3>1 DEF ClearForSwitch
    <3>2. CASE SetForSwitch
      BY <2>2, <3>2 DEF SetForSwitch, SetBits
    <3> QED BY <1>6, <3>1, <3>2
  <2>4. UNCHANGED <<evq, hnd, ev, link>>
    BY <1>6 DEF ClearForSwitch, SetForSwitch
  <2>5. Losses' = Losses
    BY <2>1, <2>2, <2>3, <2>4 DEF Losses
  <2>6. ToTeardown /\ ToTeardown' /\ TakesOne /\ TakesOne'
    BY <2>1 DEF ToTeardown, TakesOne
  <2>7. StepsLeft' < StepsLeft
    BY <1>p, <2>1 DEF StepsLeft, One
  <2> QED BY <2>4, <2>5, <2>6, <2>7, SetbacksFollow DEF Lower
<1> QED BY <1>1, <1>2, <1>3, <1>4, <1>5, <1>6 DEF Monitoring

\* A wait that times out in calm air: the monitor polls, and a teardown waits in
\* vain only when there is no loss left to take.
LEMMA TimeoutCounts ==
  ASSUME TypeOK, TypeOK', WaitsInPlace, calm, Timeout
  PROVE  Lower
<1> USE DEF evtVars, drvVars
<1>p. Place["monWait"] = 0 /\ Place["discWait"] = 6
  BY DEF Place
<1>n. Losses \in Nat /\ Losses' \in Nat
  BY CountsType, NextCountsType DEF Numbers
<1>1. CASE mgr = "monWait"
  <2>1. mgr' = "monWait" /\ waiting # {} /\ waiting' = {} /\ got' = {}
    BY <1>1 DEF Timeout
  <2>2. Losses' = Losses
    BY <1>1, <2>1 DEF Timeout, Losses, One
  <2>3. ~ToTeardown /\ ~ToTeardown' /\ ~TakesOne /\ ~TakesOne' /\ link' = link
    BY <1>1, <2>1 DEF Timeout, ToTeardown, TakesOne
  <2>4. StepsLeft' = StepsLeft
    BY <1>1, <1>p, <2>1 DEF StepsLeft, One
  <2>5. EventsLeft' = EventsLeft
    BY <1>1 DEF Timeout, EventsLeft
  <2> QED BY <1>1, <2>1, <2>2, <2>3, <2>4, <2>5, SetbacksFollow DEF Lower
<1>2. CASE mgr # "monWait"
  <2>1. /\ mgr = "discWait" /\ mgr' = "discWait" /\ waiting = {"EVT_DISC"} /\ waiting' = {}
        /\ ~Coming("STA_DISCONNECTED") /\ "EVT_DISC" \notin bits
        /\ UNCHANGED <<evq, hnd, ev, bits, link>>
    BY <1>2 DEF Timeout, WaitsInPlace
  <2>2. Losses = 0 /\ Losses' = 0
    <3>1. LossesIn(evq) = 0
      BY <2>1, LossesInNone DEF Coming, TypeOK
    <3> QED BY <2>1, <3>1 DEF Losses, Coming, One
  <2>3. Setbacks = 0
    BY <1>n, <2>1, <2>2 DEF Setbacks, Pending, ToTeardown, One
  <2>4. Setbacks' = 0
    <3>1. ~ToTeardown' /\ ~TakesOne'
      BY <2>1 DEF ToTeardown, TakesOne
    <3> QED BY <2>2, <3>1, NextCasesHold DEF Cases
  <2>5. StepsLeft' < StepsLeft
    BY <1>p, <2>1 DEF StepsLeft, One
  <2> QED BY <2>3, <2>4, <2>5 DEF Lower
<1> QED BY <1>1, <1>2

\* A step that is not the manager's leaves its part of the variant alone, unless
\* it ends the manager's wait.
LEMMA OthersFollow ==
  ASSUME TypeOK, TypeOK', Losses' <= Losses, EventsLeft' < EventsLeft,
         UNCHANGED <<mgr, attempt, waiting>>,
         ToTeardown => ((link' = "idle") <=> (link = "idle"))
  PROVE  Lower
<1>1. (ToTeardown' <=> ToTeardown) /\ (TakesOne' <=> TakesOne)
  BY DEF ToTeardown, TakesOne
<1>2. StepsLeft' = StepsLeft
  BY DEF StepsLeft
<1>3. /\ Losses \in Nat /\ Losses' \in Nat /\ Pending \in Nat /\ Pending' \in Nat
      /\ Setbacks \in Nat /\ Setbacks' \in Nat
  BY CountsType, NextCountsType DEF Numbers
<1>4. Pending' <= Pending
  <2>1. CASE ToTeardown /\ link # "idle"
    BY <1>1, <1>3, <2>1, CasesHold, NextCasesHold, OneMore DEF Cases
  <2>2. CASE ~ToTeardown \/ link = "idle"
    BY <1>1, <1>3, <2>2, CasesHold, NextCasesHold DEF Cases
  <2> QED BY <2>1, <2>2
<1>5. Setbacks' <= Setbacks
  BY <1>1, <1>4, SetbacksFollow
<1> QED BY <1>2, <1>3, <1>5 DEF Lower

\* The part of the event task in the count of the events to come.
LEMMA EventsFall ==
  ASSUME TypeOK, TypeOK', UNCHANGED <<pub, link>>,
         6 * Len(evq') + HandlerLeft[hnd'] < 6 * Len(evq) + HandlerLeft[hnd]
  PROVE  EventsLeft' < EventsLeft
<1> DEFINE before == 6 * Len(evq) + HandlerLeft[hnd]
           after  == 6 * Len(evq') + HandlerLeft[hnd']
           m      == One(pub["mgr"] # Silent)
           e      == One(pub["evt"] # Silent)
           join   == IF link = "joining" THEN 7 ELSE 0
<1>1. before \in Nat /\ after \in Nat
  <2>1. Len(evq) \in Nat /\ HandlerLeft[hnd] \in 0..5
    BY CountsType DEF Numbers
  <2>2. Len(evq') \in Nat /\ HandlerLeft[hnd'] \in 0..5
    BY NextCountsType DEF Numbers
  <2>3. \A n \in Nat, h \in 0..5 : 6 * n + h \in Nat
    OBVIOUS
  <2> QED BY <2>1, <2>2, <2>3
<1>2. m \in Nat /\ e \in Nat /\ join \in Nat
  BY DEF One
<1>3. EventsLeft = before + m + e + join
  BY DEF EventsLeft
<1>4. EventsLeft' = after + m + e + join
  BY DEF EventsLeft
<1>5. \A x, y, i, j, k \in Nat : y < x => y + i + j + k < x + i + j + k
  OBVIOUS
<1>6. after < before
  OBVIOUS
<1> HIDE DEF before, after, m, e, join
<1> QED BY <1>1, <1>2, <1>3, <1>4, <1>5, <1>6

\* The event task: it hands a loss on to the event group or to the waiter that it
\* wakes, where it still counts once.
LEMMA HandlerCounts ==
  ASSUME TypeOK, TypeOK', WaitsInPlace, calm, Handler
  PROVE  Lower
<1> USE DEF mgrVars, drvVars
<1>h. /\ HandlerLeft["idle"] = 0 /\ HandlerLeft["reg"] = 1 /\ HandlerLeft["state"] = 3
      /\ HandlerLeft["set"] = 4 /\ HandlerLeft["clear"] = 5
  BY DEF HandlerLeft
<1>n. /\ LossesIn(evq) \in Nat /\ Len(evq) \in Nat /\ Losses \in Nat /\ Losses' \in Nat
  BY CountsType, NextCountsType DEF Numbers
<1>1. CASE Dispatch
  <2>1. /\ evq \in Seq(Events) /\ evq # <<>> /\ evq' = Tail(evq) /\ ev' = Head(evq)
        /\ hnd = "idle" /\ hnd' = "clear"
        /\ UNCHANGED <<mgr, attempt, got, waiting, bits, pub, link>>
    BY <1>1 DEF Dispatch, TypeOK
  <2>2. Losses' = Losses
    <3>1. /\ LossesIn(evq) = LossesIn(evq') + One(ev' = "STA_DISCONNECTED")
          /\ LossesIn(evq') \in Nat
      <4>1. Tail(evq) \in Seq(Events)
        BY <2>1
      <4> QED BY <2>1, <4>1, LossesInDispatched, LossesInType
    <3>2. CASE ev' = "STA_DISCONNECTED"
      BY <2>1, <3>1, <3>2 DEF Losses, One
    <3>3. CASE ev' # "STA_DISCONNECTED"
      BY <2>1, <3>1, <3>3 DEF Losses, One
    <3> QED BY <3>2, <3>3
  <2>3. EventsLeft' < EventsLeft
    <3>1. Len(evq') = Len(evq) - 1
      BY <2>1
    <3> QED BY <1>h, <1>n, <2>1, <3>1, EventsFall
  <2> QED BY <1>n, <2>1, <2>2, <2>3, OthersFollow
<1>2. CASE HandlerClears
  <2>1. Losses' <= Losses
    BY <1>2, <1>n DEF HandlerClears, Losses, One
  <2>2. EventsLeft' < EventsLeft
    BY <1>2, <1>h, <1>n, EventsFall DEF HandlerClears
  <2> QED BY <1>2, <2>1, <2>2, OthersFollow DEF HandlerClears
<1>3. CASE HandlerSets
  <2>1. /\ hnd = "set" /\ hnd' = "state" /\ SetBits(SetsBits(ev)) /\ ev \in Events
        /\ UNCHANGED <<mgr, attempt, evq, ev, pub, link>>
    BY <1>3 DEF HandlerSets, TypeOK
  <2>2. EventsLeft' < EventsLeft
    BY <1>h, <1>n, <2>1, EventsFall
  <2>3. CASE (bits \cup SetsBits(ev)) \cap waiting = {}
    <3>1. bits' = bits \cup SetsBits(ev) /\ got' = got /\ waiting' = waiting
      BY <2>1, <2>3 DEF SetBits
    <3>2. Losses' <= Losses
      BY <1>n, <2>1, <3>1 DEF Losses, SetsBits, Events, One
    <3> QED BY <2>1, <2>2, <3>1, <3>2, OthersFollow
  <2>4. CASE (bits \cup SetsBits(ev)) \cap waiting # {}
    <3>1. /\ bits' = (bits \cup SetsBits(ev)) \ waiting /\ waiting' = {} /\ waiting # {}
          /\ got' = (bits \cup SetsBits(ev)) \cap waiting
      BY <2>1, <2>4 DEF SetBits
    <3>2. CASE ev = "STA_GOT_IP"
      <4>1. /\ mgr = "connWait" /\ waiting = {"GOT_IP", "EVT_DISC"}
            /\ "GOT_IP" \in got' /\ "EVT_DISC" \notin bits'
        BY <2>4, <3>1, <3>2 DEF WaitsInPlace, SetsBits
      <4>2. Losses' <= Losses
        BY <1>n, <2>1, <3>1, <3>2, <4>1 DEF Losses, One
      <4>3. /\ ~ToTeardown /\ ~ToTeardown' /\ ~TakesOne /\ ~TakesOne'
            /\ StepsLeft' = StepsLeft
        BY <2>1, <4>1 DEF ToTeardown, TakesOne, StepsLeft
      <4>4. Pending = Losses /\ Pending' = Losses'
        BY <4>3, CasesHold, NextCasesHold DEF Cases
      <4>5. Setbacks' <= Setbacks /\ Setbacks \in Nat /\ Setbacks' \in Nat
        BY <4>2, <4>3, <4>4, SetbacksFollow, CountsType, NextCountsType DEF Numbers
      <4> QED BY <2>2, <4>3, <4>5 DEF Lower
    <3>3. CASE ev = "STA_DISCONNECTED"
      <4>1. /\ "EVT_DISC" \in waiting /\ "EVT_DISC" \notin bits /\ "EVT_DISC" \notin bits'
            /\ "EVT_DISC" \in got' /\ "GOT_IP" \notin got'
        BY <2>4, <3>1, <3>3 DEF WaitsInPlace, SetsBits
      <4>2. CASE mgr = "discWait"
        <5>1. Losses = Losses' + 1
          BY <1>n, <2>1, <3>1, <3>3, <4>1, <4>2 DEF Losses, One
        <5>2. ~ToTeardown /\ ~ToTeardown' /\ TakesOne /\ ~TakesOne'
          BY <2>1, <3>1, <4>2 DEF ToTeardown, TakesOne
        <5>3. Pending = Losses /\ Pending' = Losses'
          BY <5>2, CasesHold, NextCasesHold DEF Cases
        <5>4. Setbacks' = Setbacks
          BY <5>1, <5>2, <5>3, SetbacksFollow
        <5>5. StepsLeft' < StepsLeft
          <6>1. Place["discWait"] = 6
            BY DEF Place
          <6> QED BY <2>1, <3>1, <4>2, <6>1 DEF StepsLeft, One
        <5> QED BY <5>4, <5>5 DEF Lower
      <4>3. CASE mgr \in {"monWait", "connWait"}
        <5>1. Losses' = Losses
          BY <1>n, <2>1, <3>1, <3>3, <4>1, <4>3 DEF Losses, One
        <5>2. /\ ~ToTeardown /\ ~ToTeardown' /\ ~TakesOne /\ ~TakesOne'
              /\ StepsLeft' = StepsLeft
          BY <2>1, <4>3 DEF ToTeardown, TakesOne, StepsLeft
        <5> QED BY <2>1, <2>2, <5>1, <5>2, SetbacksFollow DEF Lower
      <4> QED BY <3>1, <4>2, <4>3 DEF WaitsInPlace
    <3> QED BY <2>1, <3>2, <3>3 DEF Events
  <2> QED BY <2>3, <2>4
<1>4. CASE HandlerSetsState
  <2>1. /\ hnd = "state" /\ hnd' = "reg" /\ pub'["mgr"] = pub["mgr"]
        /\ UNCHANGED <<mgr, attempt, got, waiting, bits, evq, ev, link>>
    BY <1>4 DEF HandlerSetsState, SetWifiState, TypeOK, Tasks
  <2>2. Losses' = Losses
    BY <2>1 DEF Losses
  <2>3. EventsLeft' < EventsLeft
    <3> DEFINE queued == 6 * Len(evq)
               join   == IF link = "joining" THEN 7 ELSE 0
               m      == One(pub["mgr"] # Silent)
               e      == One(pub["evt"] # Silent)
               later  == One(pub'["evt"] # Silent)
    <3>1. /\ queued \in Nat /\ join \in Nat
          /\ m \in 0..1 /\ e \in 0..1 /\ later \in 0..1
      BY <1>n DEF One
    <3>2. EventsLeft = queued + 3 + m + e + join
      BY <1>h, <2>1 DEF EventsLeft
    <3>3. EventsLeft' = queued + 1 + m + later + join
      BY <1>h, <2>1 DEF EventsLeft
    <3> HIDE DEF queued, join, m, e, later
    <3> QED BY <3>1, <3>2, <3>3
  <2> QED BY <1>n, <2>1, <2>2, <2>3, OthersFollow
<1>5. CASE HandlerRegisters
  <2>1. /\ hnd = "reg" /\ hnd' = "idle"
        /\ UNCHANGED <<mgr, attempt, got, waiting, bits, evq, ev, pub, link>>
    BY <1>5 DEF HandlerRegisters
  <2>2. Losses' = Losses
    BY <2>1 DEF Losses
  <2>3. EventsLeft' < EventsLeft
    BY <1>h, <1>n, <2>1, EventsFall
  <2> QED BY <1>n, <2>1, <2>2, <2>3, OthersFollow
<1> QED BY <1>1, <1>2, <1>3, <1>4, <1>5 DEF Handler

\* The driver and set_wifi_state.  In calm air there is no other event to come.
LEMMA RestCounts ==
  ASSUME TypeOK, TypeOK', calm, Environment \/ \E t \in Tasks : PublishState(t)
  PROVE  Lower
<1> USE DEF mgrVars, evtVars, drvVars
<1>n. /\ LossesIn(evq) \in Nat /\ Len(evq) \in Nat /\ Losses \in Nat /\ Losses' \in Nat
      /\ HandlerLeft[hnd] \in 0..5
  BY CountsType, NextCountsType DEF Numbers
<1>1. CASE JoinSucceeds
  <2>1. /\ evq \in Seq(Events) /\ evq' = Append(evq, "STA_GOT_IP")
        /\ link = "joining" /\ link' = "up"
        /\ UNCHANGED <<mgr, attempt, got, waiting, bits, hnd, ev, pub>>
    BY <1>1 DEF JoinSucceeds, Post, TypeOK
  <2>2. Losses' = Losses
    <3>1. LossesIn(evq') = LossesIn(evq)
      BY <1>n, <2>1, LossesInPosted DEF Events, One
    <3> QED BY <2>1, <3>1 DEF Losses
  <2>3. EventsLeft' < EventsLeft
    <3> DEFINE m == One(pub["mgr"] # Silent)
               e == One(pub["evt"] # Silent)
    <3>1. Len(evq') = Len(evq) + 1
      BY <2>1
    <3>2. /\ EventsLeft = 6 * Len(evq) + HandlerLeft[hnd] + m + e + 7
          /\ EventsLeft' = 6 * Len(evq') + HandlerLeft[hnd] + m + e + 0
      BY <2>1 DEF EventsLeft
    <3>3. m \in 0..1 /\ e \in 0..1
      BY DEF One
    <3>4. \A len \in Nat, h \in 0..5, i, j \in 0..1 :
            6 * (len + 1) + h + i + j + 0 < 6 * len + h + i + j + 7
      OBVIOUS
    <3> QED BY <1>n, <3>1, <3>2, <3>3, <3>4
  <2> QED BY <1>n, <2>1, <2>2, <2>3, OthersFollow
<1>2. ASSUME NEW t \in Tasks, PublishState(t) PROVE Lower
  <2>1. /\ pub[t] # Silent /\ pub' = [pub EXCEPT ![t] = Silent]
        /\ UNCHANGED <<mgr, attempt, got, waiting, bits, evq, hnd, ev, link>>
    BY <1>2 DEF PublishState
  <2>2. Losses' = Losses
    BY <2>1 DEF Losses
  <2>3. EventsLeft' < EventsLeft
    <3> DEFINE events == 6 * Len(evq) + HandlerLeft[hnd]
               join   == IF link = "joining" THEN 7 ELSE 0
    <3>1. events \in Nat /\ join \in Nat
      BY <1>n
    <3>2. EventsLeft = events + One(pub["mgr"] # Silent) + One(pub["evt"] # Silent) + join
      BY DEF EventsLeft
    <3>3. EventsLeft' = events + One(pub'["mgr"] # Silent) + One(pub'["evt"] # Silent) + join
      BY <2>1 DEF EventsLeft
    <3>4. \/ pub["mgr"] # Silent /\ pub'["mgr"] = Silent /\ pub'["evt"] = pub["evt"]
          \/ pub["evt"] # Silent /\ pub'["evt"] = Silent /\ pub'["mgr"] = pub["mgr"]
      BY <2>1 DEF TypeOK, Tasks
    <3> HIDE DEF events, join
    <3> QED BY <3>1, <3>2, <3>3, <3>4 DEF One
  <2> QED BY <1>n, <2>1, <2>2, <2>3, OthersFollow
<1>3. ~JoinFails /\ ~LinkLost /\ ~SettleDown
  BY DEF JoinFails, LinkLost, SettleDown
<1> QED BY <1>1, <1>2, <1>3 DEF Environment

\* No order of late events keeps the manager busy with disconnects of its own
\* making: in calm air every step but the monitor's polling counts down.
THEOREM VariantCountsDown == Spec => CountsDown
<1>1. WifiInv /\ WifiInv' /\ WaitsInPlace /\ [Next]_vars => [calm /\ creds # {} => Lower]_vars
  <2> SUFFICES ASSUME WifiInv, WifiInv', WaitsInPlace, Next, calm, creds # {} PROVE Lower
    OBVIOUS
  <2>1. TypeOK /\ TypeOK' /\ AttemptCounted /\ TornDownFirst
    BY DEF WifiInv
  <2>2. CASE TopOfLoop \/ ScanForNetwork \/ Connecting
    BY <2>1, <2>2, RoundCounts, TeardownCounts, AttemptCounts DEF Connecting
  <2>3. CASE Monitoring
    BY <2>1, <2>3, MonitorCounts
  <2>4. CASE Timeout
    BY <2>1, <2>4, TimeoutCounts
  <2>5. CASE Handler
    BY <2>1, <2>5, HandlerCounts
  <2>6. CASE Environment \/ \E t \in Tasks : PublishState(t)
    BY <2>1, <2>6, RestCounts
  <2> QED BY <2>2, <2>3, <2>4, <2>5, <2>6 DEF Next, Manager
<1>2. QED
  BY <1>1, WifiInvariant, WaitsInvariant, PTL DEF Spec, CountsDown
=============================================================================
