-------------------------- MODULE CameraControlProofs --------------------------
(***************************************************************************)
(* Proofs about CameraControl, for any set of tasks.                       *)
(***************************************************************************)
EXTENDS CameraControl, TLAPS

\* captureOnce that stopped a continuous capture waits in "running".
WaitsRunning == once = "continuous" => state = "running"

\* The half of StateTells that no call disturbs.  The other half (that "running" and
\* "streaming" mean a started sensor, and that nothing goes on in "off") is lost by the
\* overlapping calls and is no part of the invariant.
HalfTold ==
  /\ state = "capturing" => handle # NoTask /\ running
  /\ state = "streaming" => streaming
  /\ state \notin {"off", "error"} => initialized

CameraInv ==
  /\ TypeOK
  /\ OneCaptureTask
  /\ HalfTold
  /\ BufferHasOneOwner
  /\ WaitsRunning

-----------------------------------------------------------------------------
(* The two helpers several calls share *)

\* CreateTask leaves one known task or none, and no task with a frame it had not.
LEMMA CreateTaskKeepsOne ==
  ASSUME CameraInv, CreateTask
  PROVE  /\ state' \in {"capturing", "error"}
         /\ state' = "capturing" => handle' # NoTask
         /\ handle' \in Tasks \cup {NoTask}
         /\ task' \in [Tasks -> {"none", "get", "frame", "callback"}]
         /\ OneCaptureTask'
         /\ \A t \in Tasks : Holds(t)' => Holds(t)
<1> USE DEF CameraInv, TypeOK, OneCaptureTask, Alive, Holds
<1>1. CASE handle # NoTask /\ state' = "capturing" /\ UNCHANGED <<handle, task>>
  BY <1>1
<1>2. CASE /\ handle = NoTask
           /\ \E t \in Tasks : /\ task[t] = "none"
                               /\ task' = [task EXCEPT ![t] = "get"] /\ handle' = t
           /\ state' = "capturing"
  <2>1. PICK t \in Tasks : task' = [task EXCEPT ![t] = "get"] /\ handle' = t
    BY <1>2
  <2>2. \A u \in Tasks : task[u] = "none"
    BY <1>2, CameraAssumption
  <2> QED BY <1>2, <2>1, <2>2, CameraAssumption
<1>3. CASE handle = NoTask /\ state' = "error" /\ UNCHANGED <<handle, task>>
  BY <1>3
<1> QED BY <1>1, <1>2, <1>3 DEF CreateTask

\* Deleting the known task leaves none.
LEMMA DeleteTaskLeavesNone ==
  ASSUME CameraInv, DeleteTask
  PROVE  /\ state' = "running" /\ handle' = NoTask
         /\ task' = [t \in Tasks |-> "none"]
  BY DEF CameraInv, TypeOK, OneCaptureTask, Alive, DeleteTask

-----------------------------------------------------------------------------
LEMMA InitCamera == Init => CameraInv
  BY CameraAssumption DEF Init, CameraInv, TypeOK, OneCaptureTask, HalfTold,
     BufferHasOneOwner, WaitsRunning, Alive, Holds

\* Calls of the API keep the invariant.
LEMMA ApiCallKeepsInv == CameraInv /\ ApiCall => CameraInv'
<1> SUFFICES ASSUME CameraInv, ApiCall PROVE CameraInv'
  OBVIOUS
<1> USE DEF Idle, flagVars, taskVars, bufVars
<1>1. CASE Initialize \/ Start \/ Stop
  <2>1. UNCHANGED <<streaming, taskVars, bufVars, once>>
    BY <1>1 DEF Initialize, Start, Stop
  <2>2. /\ state' \in {"off", "running", "error"} /\ once = "none"
        /\ initialized' \in BOOLEAN /\ running' \in BOOLEAN
        /\ state' = "running" => initialized'
    BY <1>1 DEF Initialize, Start, Stop, CameraInv, TypeOK
  <2> QED BY <2>1, <2>2 DEF CameraInv, TypeOK, OneCaptureTask, HalfTold,
        BufferHasOneOwner, WaitsRunning, Alive, Holds
<1>2. ASSUME NEW cb \in BOOLEAN, StartContinuousCapture(cb) PROVE CameraInv'
  <2>1. CASE running
    <3>1. CreateTask /\ UNCHANGED bufVars
      BY <1>2, <2>1 DEF StartContinuousCapture, StartCapturing
    <3> QED BY <1>2, <2>1, <3>1, CreateTaskKeepsOne DEF StartContinuousCapture,
          StartCapturing, CameraInv, TypeOK, HalfTold, BufferHasOneOwner,
          WaitsRunning, IsReady
  <2>2. CASE ~running
    BY <1>2, <2>2 DEF StartContinuousCapture, StartCapturing, CameraInv, TypeOK,
       OneCaptureTask, HalfTold, BufferHasOneOwner, WaitsRunning, IsReady, Alive, Holds
  <2> QED BY <2>1, <2>2
<1>3. CASE StopContinuousCapture
  <2>1. DeleteTask
    BY <1>3 DEF StopContinuousCapture
  <2> QED BY <1>3, <2>1, DeleteTaskLeavesNone, CameraAssumption DEF StopContinuousCapture,
        CameraInv, TypeOK, OneCaptureTask, HalfTold, BufferHasOneOwner, WaitsRunning,
        Alive, Holds
<1>4. CASE StartStreaming \/ StopStreaming
  <2>1. UNCHANGED <<initialized, running, taskVars, bufVars, once>>
    BY <1>4 DEF StartStreaming, StopStreaming
  <2>2. /\ state' \in {"running", "streaming"} /\ once = "none" /\ initialized
        /\ streaming' \in BOOLEAN /\ (state' = "streaming" => streaming')
    BY <1>4 DEF StartStreaming, StopStreaming, IsReady, CameraInv, TypeOK, HalfTold
  <2> QED BY <2>1, <2>2 DEF CameraInv, TypeOK, OneCaptureTask, HalfTold,
        BufferHasOneOwner, WaitsRunning, Alive, Holds
<1>5. CASE CaptureOnce
  <2>1. CASE state = "capturing"
    <3>1. DeleteTask
      BY <1>5, <2>1 DEF CaptureOnce
    <3> QED BY <1>5, <2>1, <3>1, DeleteTaskLeavesNone, CameraAssumption DEF CaptureOnce,
          CameraInv, TypeOK, OneCaptureTask, HalfTold, BufferHasOneOwner,
          WaitsRunning, IsReady, Alive, Holds
  <2>2. CASE state # "capturing"
    BY <1>5, <2>2 DEF CaptureOnce, CameraInv, TypeOK, OneCaptureTask, HalfTold,
       BufferHasOneOwner, WaitsRunning, IsReady, Alive, Holds
  <2> QED BY <2>1, <2>2
<1>6. CASE CaptureOnceReturns
  <2>1. UNCHANGED bufVars \/ (free /\ ~free' /\ frame')
    BY <1>6 DEF CaptureOnceReturns
  <2>2. free' \in BOOLEAN /\ frame' \in BOOLEAN
    BY <1>6 DEF CaptureOnceReturns, CameraInv, TypeOK
  <2>3. CASE once = "continuous" /\ running
    <3>1. CreateTask
      BY <1>6, <2>3 DEF CaptureOnceReturns, StartCapturing
    <3> QED BY <1>6, <2>1, <2>2, <2>3, <3>1, CreateTaskKeepsOne DEF CaptureOnceReturns,
          StartCapturing, CameraInv, TypeOK, HalfTold, BufferHasOneOwner, WaitsRunning
  <2>4. CASE once = "continuous" /\ ~running
    BY <1>6, <2>1, <2>2, <2>4 DEF CaptureOnceReturns, StartCapturing, CameraInv, TypeOK,
       OneCaptureTask, HalfTold, BufferHasOneOwner, WaitsRunning, Alive, Holds
  <2>5. CASE once # "continuous"
    BY <1>6, <2>1, <2>2, <2>5 DEF CaptureOnceReturns, CameraInv, TypeOK, OneCaptureTask,
       HalfTold, BufferHasOneOwner, WaitsRunning, Alive, Holds
  <2> QED BY <2>3, <2>4, <2>5
<1>7. CASE ReturnFrame
  BY <1>7 DEF ReturnFrame, CameraInv, TypeOK, OneCaptureTask, HalfTold,
     BufferHasOneOwner, WaitsRunning, Alive, Holds
<1> QED BY <1>1, <1>2, <1>3, <1>4, <1>5, <1>6, <1>7 DEF ApiCall

\* So do the steps of the capture task.
LEMMA CaptureLoopKeepsInv ==
  ASSUME CameraInv, NEW t \in Tasks, CaptureLoop(t)
  PROVE  CameraInv'
<1> USE DEF flagVars, bufVars, CameraInv, TypeOK, OneCaptureTask, HalfTold,
        BufferHasOneOwner, WaitsRunning, Alive, Holds
<1>1. CASE TaskGetsFrame(t)
  BY <1>1 DEF TaskGetsFrame
<1>2. CASE TaskCallsBack(t)
  BY <1>2 DEF TaskCallsBack
<1>3. CASE TaskReturnsFrame(t)
  BY <1>3 DEF TaskReturnsFrame
<1> QED BY <1>1, <1>2, <1>3 DEF CaptureLoop

LEMMA UnchangedKeepsInv == CameraInv /\ UNCHANGED vars => CameraInv'
  BY DEF CameraInv, TypeOK, OneCaptureTask, HalfTold, BufferHasOneOwner, WaitsRunning,
     Alive, Holds, vars, flagVars, taskVars, bufVars

\* CameraInv holds in every reachable state of the camera's API.
THEOREM CameraInvariant == Spec => []CameraInv
<1>1. CameraInv /\ [Next]_vars => CameraInv'
  BY ApiCallKeepsInv, CaptureLoopKeepsInv, UnchangedKeepsInv DEF Next
<1> QED BY InitCamera, <1>1, PTL DEF Spec

\* The state of the control, the sensor and the tasks is always of its type.
THEOREM CameraTypes == Spec => []TypeOK
<1>1. CameraInv => TypeOK
  BY DEF CameraInv
<1> QED BY CameraInvariant, <1>1, PTL

\* However the API is used, one capture task at most takes frames and it can be
\* deleted by stopContinuousCapture.
THEOREM OneTaskAtMost == Spec => []OneCaptureTask
<1>1. CameraInv => OneCaptureTask
  BY DEF CameraInv
<1> QED BY CameraInvariant, <1>1, PTL

\* The driver's frame buffer never has two owners.
THEOREM OneOwner == Spec => []BufferHasOneOwner
<1>1. CameraInv => BufferHasOneOwner
  BY DEF CameraInv
<1> QED BY CameraInvariant, <1>1, PTL

-----------------------------------------------------------------------------
\* A step that loses the buffer deletes the task that has it.
LEMMA LossIsDelete ==
  ASSUME CameraInv, [Next]_vars, Owned, ~Owned'
  PROVE  \E t \in Tasks : Holds(t) /\ ~Alive(t)'
<1> USE DEF flagVars, taskVars, bufVars, Owned
<1> SUFFICES ASSUME \A t \in Tasks : Holds(t) => Alive(t)' PROVE FALSE
  OBVIOUS
<1>1. CASE ApiCall
  <2>1. free' = free /\ frame' = frame
    BY <1>1 DEF ApiCall, Initialize, Start, Stop, StartContinuousCapture,
       StopContinuousCapture, StartStreaming, StopStreaming, CaptureOnce,
       CaptureOnceReturns, ReturnFrame, CameraInv, TypeOK
  <2>2. PICK t \in Tasks : Holds(t)
    BY <2>1
  <2>3. task'[t] = task[t] \/ task'[t] = "none"
    BY <1>1, <2>2 DEF ApiCall, Initialize, Start, Stop, StartContinuousCapture,
       StartCapturing, CreateTask, StopContinuousCapture, DeleteTask, StartStreaming,
       StopStreaming, CaptureOnce, CaptureOnceReturns, ReturnFrame, CameraInv, TypeOK, Holds
  <2> QED BY <2>2, <2>3 DEF Alive, Holds
<1>2. ASSUME NEW t \in Tasks, CaptureLoop(t) PROVE FALSE
  BY <1>2 DEF CaptureLoop, TaskGetsFrame, TaskCallsBack, TaskReturnsFrame, CameraInv,
     TypeOK, Holds
<1>3. CASE UNCHANGED vars
  BY <1>3 DEF vars, Holds
<1> QED BY <1>1, <1>2, <1>3 DEF Next

\* No path of the code but vTaskDelete in mid-frame forgets the frame buffer.
THEOREM BufferLostOnlyByDelete == Spec => LostOnlyByDelete
<1>1. CameraInv /\ [Next]_vars =>
        [Owned /\ ~Owned' => \E t \in Tasks : Holds(t) /\ ~Alive(t)']_vars
  BY LossIsDelete
<1> QED BY CameraInvariant, <1>1, PTL DEF Spec, LostOnlyByDelete

-----------------------------------------------------------------------------
\* A call that does not overlap with a capture or a stream keeps the truth.
LEMMA CallTells ==
  ASSUME CameraInv, ApiCall, StateTells, ~StopsOver, ~StreamsOver, ~CapturesOver
  PROVE  StateTells'
<1> USE DEF Idle, flagVars, taskVars, bufVars, CameraInv, TypeOK, HalfTold, StateTells
<1>1. CASE Initialize \/ Start
  BY <1>1 DEF Initialize, Start
<1>2. CASE Stop
  BY <1>2 DEF Stop, StopsOver
<1>3. ASSUME NEW cb \in BOOLEAN, StartContinuousCapture(cb) PROVE StateTells'
  <2>1. state # "streaming"
    BY <1>3 DEF CapturesOver
  <2>2. CASE running
    <3>1. CreateTask
      BY <1>3, <2>2 DEF StartContinuousCapture, StartCapturing
    <3>2. state' = "error" => handle' = handle /\ handle = NoTask
      BY <3>1 DEF CreateTask
    <3> QED BY <1>3, <2>1, <2>2, <3>1, <3>2, CreateTaskKeepsOne DEF StartContinuousCapture
  <2>3. CASE ~running
    BY <1>3, <2>1, <2>3 DEF StartContinuousCapture, StartCapturing
  <2> QED BY <2>2, <2>3
<1>4. CASE StopContinuousCapture
  BY <1>4 DEF StopContinuousCapture, DeleteTask
<1>5. CASE StartStreaming
  BY <1>5 DEF StartStreaming, StreamsOver
<1>6. CASE StopStreaming
  BY <1>6 DEF StopStreaming
<1>7. CASE CaptureOnce
  BY <1>7 DEF CaptureOnce, DeleteTask
<1>8. CASE CaptureOnceReturns
  <2>1. CASE once = "continuous"
    <3>1. state = "running" /\ running /\ handle = NoTask
      BY <2>1 DEF WaitsRunning
    <3>2. CreateTask /\ UNCHANGED flagVars
      BY <1>8, <2>1, <3>1 DEF CaptureOnceReturns, StartCapturing
    <3>3. state' = "error" => handle' = handle
      BY <3>2 DEF CreateTask
    <3> QED BY <3>1, <3>2, <3>3, CreateTaskKeepsOne
  <2>2. CASE once # "continuous"
    BY <1>8, <2>2 DEF CaptureOnceReturns
  <2> QED BY <2>1, <2>2
<1>9. CASE ReturnFrame
  BY <1>9 DEF ReturnFrame
<1> QED BY <1>1, <1>2, <1>3, <1>4, <1>5, <1>6, <1>7, <1>8, <1>9 DEF ApiCall

\* So does every step of the capture task.
LEMMA TaskTells ==
  ASSUME NEW t \in Tasks, CaptureLoop(t), StateTells
  PROVE  StateTells'
  BY DEF CaptureLoop, TaskGetsFrame, TaskCallsBack, TaskReturnsFrame, flagVars, StateTells

\* state_ stops telling the truth by a stop() over a capture or a stream, by a
\* startStreaming() on a stopped sensor or over a capture, or by a
\* startContinuousCapture() over a stream; by nothing else.
THEOREM DivergesOnlyByOverlap == Spec => StateDivergesByOverlap
<1>1. CameraInv /\ [Next]_vars =>
        [StateTells /\ ~StateTells' => StopsOver \/ StreamsOver \/ CapturesOver]_vars
  BY CallTells, TaskTells DEF Next
<1> QED BY CameraInvariant, <1>1, PTL DEF Spec, StateDivergesByOverlap

\* From an error, and from a "running" or "streaming" on a stopped sensor, only stop()
\* gets the control out.
THEOREM StuckUntilStop == Spec => OnlyStopRecovers
<1>1. CameraInv /\ [Next]_vars => [Stuck /\ ~Stuck' => state' = "off"]_vars
  BY DEF CameraInv, WaitsRunning, Stuck, Next, ApiCall, CaptureLoop, Initialize, Start,
     Stop, StartContinuousCapture, StartCapturing, CreateTask, StopContinuousCapture,
     DeleteTask, StartStreaming, StopStreaming, CaptureOnce, CaptureOnceReturns,
     ReturnFrame, TaskGetsFrame, TaskCallsBack, TaskReturnsFrame, IsReady, HalfTold, vars,
     flagVars
<1> QED BY CameraInvariant, <1>1, PTL DEF Spec, OnlyStopRecovers
=============================================================================
