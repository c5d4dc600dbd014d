-------------------------- MODULE MicrorosSyncProofs --------------------------
(***************************************************************************)
(* Proofs about the micro-ROS task and its publisher, for every set of     *)
(* image lengths: the inductive invariant, the two guarantees of           *)
(* publishCompressedImage, the implementation of MicrorosSession, and the  *)
(* variant behind the way to a working session.                            *)
(***************************************************************************)
EXTENDS MicrorosSync, TLAPS

LEMMA SyncInit == Init => SyncInv
<1> SUFFICES ASSUME Init PROVE SyncInv
  OBVIOUS
<1>1. TypeOK
  <2>1. live \subseteq Entities
    BY DEF Init
  <2>2. backoff \in 250..MAX_BACKOFF /\ failures \in 0..SPIN_LIMIT
    BY DEF Init, MAX_BACKOFF, SPIN_LIMIT
  <2>3. len = 0 /\ buf = 0 /\ cap = 0 /\ created = FALSE /\ calm = FALSE
    BY DEF Init
  <2>4. QED BY <2>1, <2>2, <2>3 DEF Init, TypeOK, Steps
<1>2. MutexOwner /\ SessionPhase /\ LivePhase /\ RegPhase /\ BufferTold /\ SpinBudget
  BY DEF Init, MutexOwner, Guarded, SessionPhase, LivePhase, RegPhase, BufferTold, SpinBudget
<1>3. QED BY <1>1, <1>2 DEF SyncInv

LEMMA TypeStep == SyncInv /\ [Next]_vars => TypeOK'
<1> SUFFICES ASSUME SyncInv, [Next]_vars PROVE TypeOK'
  OBVIOUS
<1> USE SizesAssumption DEF SyncInv, Steps, MAX_BACKOFF, SPIN_LIMIT, Entities,
        taskVars, entVars, camVars, envVars
<1>1. CASE WaitForWifi
  BY <1>1 DEF TypeOK, WaitForWifi
<1>2. CASE DiscoverAgent
  BY <1>2 DEF TypeOK, DiscoverAgent
<1>3. CASE Initialize
  <2>1. live' \subseteq Entities
    <3>1. live' \subseteq live \cup {"support"} /\ live \subseteq Entities
      BY <1>3 DEF TypeOK, Initialize
    <3>2. QED BY <3>1
  <2>2. QED BY <1>3, <2>1 DEF TypeOK, Initialize
<1>4. CASE CreateEntities
  BY <1>4 DEF TypeOK, CreateEntities
<1>5. CASE TakeMutex
  BY <1>5 DEF TypeOK, TakeMutex
<1>6. CASE OpenSession \/ CloseSession
  <2>1. pc' \in {"announce", "destroy"} /\ created' \in BOOLEAN /\ mutex' = "none"
    BY <1>6 DEF OpenSession, CloseSession
  <2>2. UNCHANGED <<backoff, failures, live, reg, camVars, envVars>>
    BY <1>6 DEF OpenSession, CloseSession
  <2>3. QED BY <2>1, <2>2 DEF TypeOK
<1>7. CASE AnnounceSession
  BY <1>7 DEF TypeOK, AnnounceSession
<1>8. CASE Spin
  BY <1>8 DEF TypeOK, Spin, SpinBudget
<1>9. CASE DestroyEntities
  BY <1>9 DEF TypeOK, DestroyEntities
<1>10. CASE BackOff
  BY <1>10 DEF TypeOK, BackOff
<1>11. CASE NewImage
  BY <1>11 DEF TypeOK, NewImage
<1>12. CASE CamTakesMutex \/ CamTimesOut
  <2>1. mutex' \in {mutex, "cam"} /\ cam' \in {"check", "idle"}
    BY <1>12 DEF CamTakesMutex, CamTimesOut
  <2>2. UNCHANGED <<taskVars, entVars, len, buf, cap, envVars>>
    BY <1>12 DEF CamTakesMutex, CamTimesOut
  <2>3. QED BY <2>1, <2>2 DEF TypeOK
<1>13. CASE CheckCreated
  BY <1>13 DEF TypeOK, CheckCreated
<1>14. CASE FillBuffer
  BY <1>14 DEF TypeOK, FillBuffer
<1>15. CASE Publish
  BY <1>15 DEF TypeOK, Publish
<1>16. CASE Fluctuate
  BY <1>16 DEF TypeOK, Fluctuate
<1>17. CASE SettleDown
  BY <1>17 DEF TypeOK, SettleDown
<1>18. CASE UNCHANGED vars
  BY <1>18 DEF TypeOK, vars
<1>19. QED
  BY <1>1, <1>2, <1>3, <1>4, <1>5, <1>6, <1>7, <1>8, <1>9, <1>10, <1>11, <1>12, <1>13,
     <1>14, <1>15, <1>16, <1>17, <1>18 DEF Next, Task, Camera

\* The phases: one step per part of the task and per step of the camera.
LEMMA PhaseStep ==
  SyncInv /\ [Next]_vars =>
    MutexOwner' /\ SessionPhase' /\ LivePhase' /\ RegPhase' /\ BufferTold' /\ SpinBudget'
<1> DEFINE Phases == MutexOwner /\ SessionPhase /\ LivePhase /\ RegPhase /\ BufferTold /\ SpinBudget
<1> SUFFICES ASSUME SyncInv, [Next]_vars PROVE Phases'
  OBVIOUS
<1> USE DEF SyncInv, TypeOK, Steps, SPIN_LIMIT, MutexOwner, Guarded, SessionPhase, LivePhase,
            RegPhase, BufferTold, SpinBudget, taskVars, entVars, camVars, envVars
<1>1. CASE WaitForWifi
  BY <1>1 DEF WaitForWifi
<1>2. CASE DiscoverAgent
  BY <1>2 DEF DiscoverAgent
<1>3. CASE Initialize
  BY <1>3 DEF Initialize
<1>4. CASE CreateEntities
  BY <1>4 DEF CreateEntities
<1>5. CASE TakeMutex
  BY <1>5 DEF TakeMutex
<1>6. CASE OpenSession
  BY <1>6 DEF OpenSession
<1>7. CASE AnnounceSession
  BY <1>7 DEF AnnounceSession
<1>8. CASE Spin
  BY <1>8 DEF Spin
<1>9. CASE CloseSession
  BY <1>9 DEF CloseSession
<1>10. CASE DestroyEntities
  BY <1>10 DEF DestroyEntities
<1>11. CASE BackOff
  BY <1>11 DEF BackOff
<1>12. CASE NewImage
  BY <1>12 DEF NewImage
<1>13. CASE CamTakesMutex
  BY <1>13 DEF CamTakesMutex
<1>14. CASE CamTimesOut
  BY <1>14 DEF CamTimesOut
<1>15. CASE CheckCreated
  BY <1>15 DEF CheckCreated
<1>16. CASE FillBuffer
  BY <1>16, SizesAssumption DEF FillBuffer
<1>17. CASE Publish
  BY <1>17 DEF Publish
<1>18. CASE Fluctuate \/ SettleDown
  BY <1>18 DEF Fluctuate, SettleDown
<1>19. CASE UNCHANGED vars
  BY <1>19 DEF vars
<1>20. QED
  BY <1>1, <1>2, <1>3, <1>4, <1>5, <1>6, <1>7, <1>8, <1>9, <1>10, <1>11, <1>12, <1>13,
     <1>14, <1>15, <1>16, <1>17, <1>18, <1>19 DEF Next, Task, Camera

\* Every reachable state satisfies the inductive invariant.
THEOREM SyncInvariant == Spec => []SyncInv
<1>1. SyncInv /\ [Next]_vars => SyncInv'
  BY TypeStep, PhaseStep DEF SyncInv
<1>2. QED
  BY SyncInit, <1>1, PTL DEF Spec

\* The state of both tasks is always of its type; backoff_ms stays below its limit.
THEOREM SyncTypes == Spec => []TypeOK
<1>1. SyncInv => TypeOK
  BY DEF SyncInv
<1>2. QED
  BY <1>1, SyncInvariant, PTL

\* publishCompressedImage never works on a session that is being created or torn
\* down, although microros_task creates and destroys it outside the mutex.
THEOREM PublishesOnLiveSession == Spec => []PublishOnLiveSession
<1>1. SyncInv => PublishOnLiveSession
  BY DEF SyncInv, TypeOK, Steps, MutexOwner, Guarded, SessionPhase, LivePhase, PublishOnLiveSession
<1>2. QED
  BY <1>1, SyncInvariant, PTL

\* alloc_image_buf's capacity never exceeds the memory it stands for, so the image
\* that is published fits, after any history of sizes and failed allocations.
THEOREM PublishedImageFits == Spec => []BufferHoldsImage
<1>1. SyncInv => BufferHoldsImage
  BY DEF SyncInv, BufferTold, BufferHoldsImage
<1>2. QED
  BY <1>1, SyncInvariant, PTL

\* The task starts over from nothing: no entity survives into a new attempt.
THEOREM RestartsClean == Spec => []CleanRestart
<1>1. SyncInv => CleanRestart
  BY DEF SyncInv, LivePhase, SessionPhase, CleanRestart
<1>2. QED
  BY <1>1, SyncInvariant, PTL

-----------------------------------------------------------------------------
(* Implementation of the abstract session *)

\* Every step of the task or the camera is a step of the session or a stutter.
LEMMA SessionStep == SyncInv /\ [Next]_vars => [Session!Next]_(Session!vars)
<1> SUFFICES ASSUME SyncInv, [Next]_vars PROVE [Session!Next]_(Session!vars)
  OBVIOUS
<1> USE DEF SyncInv, TypeOK, taskVars, entVars, camVars, envVars, Session!vars
<1>1. CASE WaitForWifi
  <2>1. Session!Discover
    BY <1>1 DEF WaitForWifi, RegPhase, SessionPhase, Session!Discover
  <2>2. QED BY <2>1 DEF Session!Next
<1>2. CASE BackOff
  <2>1. Session!Discover
    BY <1>2 DEF BackOff, RegPhase, SessionPhase, Session!Discover
  <2>2. QED BY <2>1 DEF Session!Next
<1>3. CASE OpenSession
  <2>1. Session!Open
    BY <1>3 DEF OpenSession, RegPhase, SessionPhase, Session!Open
  <2>2. QED BY <2>1 DEF Session!Next
<1>4. CASE AnnounceSession
  <2>1. Session!Announce
    BY <1>4 DEF AnnounceSession, RegPhase, SessionPhase, Session!Announce
  <2>2. QED BY <2>1 DEF Session!Next
<1>5. CASE CloseSession
  <2>1. cam \notin {"alloc", "publish"}
    BY <1>5 DEF CloseSession, MutexOwner, Guarded
  <2>2. Session!Close
    BY <1>5, <2>1 DEF CloseSession, RegPhase, SessionPhase, Session!Close
  <2>3. QED BY <2>2 DEF Session!Next
<1>6. CASE DestroyEntities
  <2>1. Session!ReportLoss
    BY <1>6 DEF DestroyEntities, RegPhase, SessionPhase, Session!ReportLoss
  <2>2. QED BY <2>1 DEF Session!Next
<1>7. CASE DiscoverAgent \/ Initialize \/ CreateEntities \/ TakeMutex \/ Spin
  BY <1>7 DEF DiscoverAgent, Initialize, CreateEntities, TakeMutex, Spin
<1>8. CASE NewImage \/ CamTakesMutex \/ CamTimesOut
  BY <1>8 DEF NewImage, CamTakesMutex, CamTimesOut
<1>9. CASE CheckCreated
  <2>1. CASE created
    <3>1. Session!BeginImage
      BY <1>9, <2>1 DEF CheckCreated, Session!BeginImage
    <3>2. QED BY <3>1 DEF Session!Next
  <2>2. CASE ~created
    BY <1>9, <2>2 DEF CheckCreated
  <2>3. QED BY <2>1, <2>2
<1>10. CASE FillBuffer
  <2>1. CASE cam' = "publish"
    BY <1>10, <2>1 DEF FillBuffer
  <2>2. CASE cam' = "idle"
    <3>1. Session!EndImage
      BY <1>10, <2>2 DEF FillBuffer, Session!EndImage
    <3>2. QED BY <3>1 DEF Session!Next
  <2>3. QED BY <1>10, <2>1, <2>2 DEF FillBuffer
<1>11. CASE Publish
  <2>1. Session!EndImage
    BY <1>11 DEF Publish, Session!EndImage
  <2>2. QED BY <2>1 DEF Session!Next
<1>12. CASE Fluctuate \/ SettleDown
  BY <1>12 DEF Fluctuate, SettleDown
<1>13. CASE UNCHANGED vars
  BY <1>13 DEF vars
<1>14. QED
  BY <1>1, <1>2, <1>3, <1>4, <1>5, <1>6, <1>7, <1>8, <1>9, <1>10, <1>11, <1>12, <1>13
  DEF Next, Task, Camera

\* microros_sync.cpp implements the session that the camera task and the registry
\* readers see: README.md's lifecycle, and images only within an open session.
THEOREM ImplementsSession == Spec => SessionSpec
<1>1. Init => Session!Init
  BY DEF Init, Session!Init
<1>2. QED
  BY <1>1, SyncInvariant, SessionStep, PTL DEF Spec, SessionSpec, Session!Spec

-----------------------------------------------------------------------------
(* The way to a working session *)

LEMMA CalmInvariant == Spec => []CalmAir
<1>1. Init => CalmAir
  BY DEF Init, CalmAir
<1>2. CalmAir /\ [Next]_vars => CalmAir'
  <2> SUFFICES ASSUME CalmAir, [Next]_vars PROVE CalmAir'
    OBVIOUS
  <2>1. CASE Fluctuate \/ SettleDown
    BY <2>1 DEF Fluctuate, SettleDown, CalmAir
  <2>2. CASE Task \/ Camera
    <3>1. UNCHANGED envVars
      BY <2>2 DEF Task, Camera, WaitForWifi, DiscoverAgent, Initialize, CreateEntities,
         TakeMutex, OpenSession, AnnounceSession, Spin, CloseSession, DestroyEntities,
         BackOff, NewImage, CamTakesMutex, CamTimesOut, CheckCreated, FillBuffer, Publish
    <3> QED BY <3>1 DEF envVars, CalmAir
  <2>3. CASE UNCHANGED vars
    BY <2>3 DEF vars, envVars, CalmAir
  <2> QED BY <2>1, <2>2, <2>3 DEF Next
<1> QED BY <1>1, <1>2, PTL DEF Spec

\* The way, phase by phase.
LEMMA WayIs ==
  /\ Way["CONNECTED"] = 0
  /\ Way["announce"] = 1
  /\ Way["opened"] = 2
  /\ Way["open"] = 3
  /\ Way["create"] = 4
  /\ Way["INITIALIZING"] = 5
  /\ Way["DISCOVER_AGENT"] = 6
  /\ Way["WAITING_WIFI"] = 7
  /\ Way["BACKING_OFF"] = 7
  /\ Way["destroy"] = 8
  /\ Way["closed"] = 9
  /\ Way["close"] = 10
BY DEF Way

\* In calm air every step of microros_task counts down to the working session.
LEMMA TaskNears ==
  ASSUME SyncInv, CalmAir, calm, Task
  PROVE  StepsLeft' < StepsLeft \/ (StepsLeft' = StepsLeft /\ StepsLeft = 0)
<1> DEFINE before == StepsFrom(pc, failures, live)
           after  == StepsFrom(pc', failures', live')
<1> SUFFICES after < before \/ (after = before /\ before = 0)
  BY DEF StepsLeft
<1>1. CASE WaitForWifi
  <2>1. pc = "WAITING_WIFI" /\ pc' = "DISCOVER_AGENT"
    BY <1>1 DEF WaitForWifi
  <2>2. before = 7 /\ after = 6
    BY <2>1, WayIs DEF StepsFrom, SPIN_LIMIT
  <2> QED BY <2>2
<1>2. CASE DiscoverAgent
  <2>1. pc = "DISCOVER_AGENT" /\ pc' = "INITIALIZING"
    BY <1>2 DEF DiscoverAgent
  <2>2. before = 6 /\ after = 5
    BY <2>1, WayIs DEF StepsFrom, SPIN_LIMIT
  <2> QED BY <2>2
<1>3. CASE Initialize
  <2>1. pc = "INITIALIZING" /\ pc' = "create"
    BY <1>3 DEF Initialize
  <2>2. before = 5 /\ after = 4
    BY <2>1, WayIs DEF StepsFrom, SPIN_LIMIT
  <2> QED BY <2>2
<1>4. CASE CreateEntities
  <2>1. pc = "create" /\ pc' = "open" /\ "executor" \in live'
    BY <1>4 DEF CreateEntities
  <2>2. before = 4 /\ after = 3
    BY <2>1, WayIs DEF StepsFrom, SPIN_LIMIT
  <2> QED BY <2>2
<1>5. CASE TakeMutex
  <2>0. live' = live
    BY <1>5 DEF TakeMutex, entVars
  <2>1. CASE pc = "close"
    <3>1. pc' = "closed"
      BY <1>5, <2>1 DEF TakeMutex
    <3>2. before = 10 /\ after = 9
      BY <2>1, <3>1, WayIs DEF StepsFrom, SPIN_LIMIT
    <3> QED BY <3>2
  <2>2. CASE pc = "open"
    <3>1. pc' = "opened"
      BY <1>5, <2>2 DEF TakeMutex
    <3>2. \/ before = 3 /\ after = 2
          \/ before = 16 /\ after = 15
      BY <2>0, <2>2, <3>1, WayIs DEF StepsFrom, SPIN_LIMIT
    <3> QED BY <3>2
  <2> QED BY <1>5, <2>1, <2>2 DEF TakeMutex
<1>6. CASE OpenSession
  <2>1. pc = "opened" /\ pc' = "announce" /\ live' = live
    BY <1>6 DEF OpenSession
  <2>2. \/ before = 2 /\ after = 1
        \/ before = 15 /\ after = 14
    BY <2>1, WayIs DEF StepsFrom, SPIN_LIMIT
  <2> QED BY <2>2
<1>7. CASE AnnounceSession
  <2>1. pc = "announce" /\ pc' = "CONNECTED" /\ live' = live /\ failures' = 0
    BY <1>7 DEF AnnounceSession
  <2>2. \/ before = 1 /\ after = 0
        \/ before = 14 /\ after = 13 - 0
    BY <2>1, WayIs DEF StepsFrom, SPIN_LIMIT
  <2> QED BY <2>2
<1>8. CASE Spin
  <2>1. pc = "CONNECTED" /\ live' = live
    BY <1>8 DEF Spin, entVars
  <2>2. CASE "executor" \in live
    <3>1. pc' = "CONNECTED"
      BY <1>8, <2>2 DEF Spin
    <3>2. before = 0 /\ after = 0
      BY <2>1, <2>2, <3>1, WayIs DEF StepsFrom
    <3> QED BY <3>2
  <2>3. CASE "executor" \notin live
    <3>1. failures \in 0..2 /\ failures' = failures + 1
      BY <1>8, <2>1, <2>3 DEF Spin, SyncInv, TypeOK, SpinBudget, SPIN_LIMIT
    <3>2. before = 13 - failures
      BY <2>1, <2>3, <3>1, WayIs DEF StepsFrom, SPIN_LIMIT
    <3>3. CASE pc' = "close"
      <4>1. after = 10
        BY <3>3, WayIs DEF StepsFrom, SPIN_LIMIT
      <4> QED BY <3>1, <3>2, <4>1
    <3>4. CASE pc' = "CONNECTED"
      <4>1. after = 13 - (failures + 1)
        BY <2>1, <2>3, <3>1, <3>4, WayIs DEF StepsFrom, SPIN_LIMIT
      <4> QED BY <3>1, <3>2, <4>1
    <3> QED BY <1>8, <2>1, <2>3, <3>3, <3>4 DEF Spin
  <2> QED BY <2>2, <2>3
<1>9. CASE CloseSession
  <2>1. pc = "closed" /\ pc' = "destroy"
    BY <1>9 DEF CloseSession
  <2>2. before = 9 /\ after = 8
    BY <2>1, WayIs DEF StepsFrom, SPIN_LIMIT
  <2> QED BY <2>2
<1>10. CASE DestroyEntities
  <2>1. pc = "destroy" /\ pc' = "BACKING_OFF"
    BY <1>10 DEF DestroyEntities
  <2>2. before = 8 /\ after = 7
    BY <2>1, WayIs DEF StepsFrom, SPIN_LIMIT
  <2> QED BY <2>2
<1>11. CASE BackOff
  <2>1. pc = "BACKING_OFF" /\ pc' = "DISCOVER_AGENT"
    BY <1>11 DEF BackOff
  <2>2. before = 7 /\ after = 6
    BY <2>1, WayIs DEF StepsFrom, SPIN_LIMIT
  <2> QED BY <2>2
<1> QED BY <1>1, <1>2, <1>3, <1>4, <1>5, <1>6, <1>7, <1>8, <1>9, <1>10, <1>11 DEF Task

\* Once Wi-Fi, agent and library stop failing, the task goes round the lifecycle once
\* at most and then keeps its session, whatever the camera task does meanwhile.
THEOREM SessionComesNearer == Spec => SessionNears
<1>1. SyncInv /\ CalmAir /\ [Next]_vars =>
        [calm => \/ StepsLeft' < StepsLeft
                 \/ StepsLeft' = StepsLeft /\ (Camera \/ StepsLeft = 0)]_vars
  <2> SUFFICES ASSUME SyncInv, CalmAir, Next, calm
               PROVE  \/ StepsLeft' < StepsLeft
                      \/ StepsLeft' = StepsLeft /\ (Camera \/ StepsLeft = 0)
    OBVIOUS
  <2>1. CASE Task
    BY <2>1, TaskNears
  <2>2. CASE Camera
    <3>1. UNCHANGED <<pc, failures, live>>
      BY <2>2 DEF Camera, NewImage, CamTakesMutex, CamTimesOut, CheckCreated, FillBuffer,
         Publish, taskVars, entVars
    <3> QED BY <2>2, <3>1 DEF StepsLeft
  <2>3. ~Fluctuate /\ ~SettleDown
    BY DEF Fluctuate, SettleDown
  <2> QED BY <2>1, <2>2, <2>3 DEF Next
<1>2. QED
  BY <1>1, SyncInvariant, CalmInvariant, PTL DEF Spec, SessionNears
=============================================================================
