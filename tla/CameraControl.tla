----------------------------- MODULE CameraControl -----------------------------
(***************************************************************************)
(* CameraControl and CameraSensor (camera_control/): the calls of the API  *)
(* in any order, while the capture task that some of them create and       *)
(* delete runs captureLoop.                                                *)
(*                                                                         *)
(* The classes have no lock: there is one caller, as in the application    *)
(* (app_main).  Every call is one step except captureOnce, which waits in  *)
(* esp_camera_fb_get in the middle.  A call that returns early changes     *)
(* nothing and is no step.  The registry entry "camera" is written by      *)
(* setState together with state.  The driver (esp32-camera) is external:   *)
(* it lends its only buffer (fb_count = 1) when it has it.                 *)
(***************************************************************************)
CONSTANTS
  Tasks,    \* names for capture tasks, NoTask is not one of them
  NoTask

ASSUME CameraAssumption == NoTask \notin Tasks

VARIABLES
  state,        \* CameraControl::state_
  initialized,  \* CameraSensor::initialized_ and the driver's ready_
  running,      \* CameraSensor::running_
  streaming,    \* the driver's streaming_
  callback,     \* is there a callback_?
  handle,       \* CameraSensor::capture_task_
  task,         \* per task: where it is in captureLoop, "none" if not created
  free,         \* the driver has its frame buffer
  frame,        \* the caller's frame has it (_internal is not null)
  once          \* captureOnce waits for its frame: was_continuous, or "none"

flagVars == <<initialized, running, streaming>>
taskVars == <<callback, handle, task>>
bufVars  == <<free, frame>>
vars == <<state, flagVars, taskVars, bufVars, once>>

\* With start_on_init, no call ends in "initializing" or "idle".
TypeOK ==
  /\ state \in {"off", "running", "capturing", "streaming", "error"}
  /\ initialized \in BOOLEAN /\ running \in BOOLEAN /\ streaming \in BOOLEAN
  /\ callback \in BOOLEAN
  /\ handle \in Tasks \cup {NoTask}
  /\ task \in [Tasks -> {"none", "get", "frame", "callback"}]
  /\ free \in BOOLEAN /\ frame \in BOOLEAN
  /\ once \in {"none", "single", "continuous"}

Init ==
  /\ state = "off"
  /\ initialized = FALSE /\ running = FALSE /\ streaming = FALSE
  /\ callback = FALSE /\ handle = NoTask /\ task = [t \in Tasks |-> "none"]
  /\ free = TRUE /\ frame = FALSE
  /\ once = "none"

\* Between two calls of the API.
Idle == once = "none"

\* Mutant of IsReady: the error state is forgotten.
IsReadyAnyState == initialized

IsReady == initialized /\ state # "error"

-----------------------------------------------------------------------------
(* Initialising, starting and stopping *)

\* start_on_init is set, so a good initialisation ends in start().  A sensor that
\* is initialised already is not configured again and cannot fail.
Initialize ==
  /\ Idle /\ state = "off"
  /\ \/ initialized' = TRUE /\ running' = TRUE /\ state' = "running"
     \/ ~initialized /\ state' = "error" /\ UNCHANGED <<initialized, running>>
  /\ UNCHANGED <<streaming, taskVars, bufVars, once>>

\* The driver's start never fails; a sensor that is not initialised does.
Start ==
  /\ Idle /\ state \in {"idle", "off", "initializing"}
  /\ IF initialized THEN running' = TRUE /\ state' = "running"
                    ELSE state' = "error" /\ UNCHANGED running
  /\ UNCHANGED <<initialized, streaming, taskVars, bufVars, once>>

\* Neither the capture task nor the driver's streaming_ is touched.
Stop ==
  /\ Idle /\ state # "off"
  /\ running' = FALSE
  /\ state' = "off"
  /\ UNCHANGED <<initialized, streaming, taskVars, bufVars, once>>

-----------------------------------------------------------------------------
(* Continuous capture, streaming, single frames *)

\* Mutant of CreateTask: an existing task is not noticed.
CreateTaskAgain ==
  \/ /\ \E t \in Tasks : /\ task[t] = "none"
                         /\ task' = [task EXCEPT ![t] = "get"] /\ handle' = t
     /\ state' = "capturing"
  \/ handle = NoTask /\ state' = "error" /\ UNCHANGED <<handle, task>>

\* Sensor's startContinuousCapture: a task that is still there will do, and
\* xTaskCreate may fail.
CreateTask ==
  \/ handle # NoTask /\ state' = "capturing" /\ UNCHANGED <<handle, task>>
  \/ /\ handle = NoTask
     /\ \E t \in Tasks : /\ task[t] = "none"
                         /\ task' = [task EXCEPT ![t] = "get"] /\ handle' = t
     /\ state' = "capturing"
  \/ handle = NoTask /\ state' = "error" /\ UNCHANGED <<handle, task>>

\* Mutant of StartCapturing: the sensor need not run.
StartCapturingStopped(cb) == callback' = cb /\ CreateTask

\* startContinuousCapture(cb) after its early returns: the callback is set first.
StartCapturing(cb) ==
  /\ callback' = cb
  /\ IF running THEN CreateTask
                ELSE state' = "error" /\ UNCHANGED <<handle, task>>

StartContinuousCapture(cb) ==
  /\ Idle /\ IsReady /\ state # "capturing"
  /\ StartCapturing(cb)
  /\ UNCHANGED <<flagVars, bufVars, once>>

\* vTaskDelete, wherever the task is: a frame in its hands stays there.
DeleteTask ==
  /\ task' = [t \in Tasks |-> IF t = handle THEN "none" ELSE task[t]]
  /\ handle' = NoTask
  /\ state' = "running"

StopContinuousCapture ==
  /\ Idle /\ state = "capturing"
  /\ DeleteTask
  /\ UNCHANGED <<flagVars, callback, bufVars, once>>

StartStreaming ==
  /\ Idle /\ IsReady
  /\ streaming' = TRUE /\ state' = "streaming"
  /\ UNCHANGED <<initialized, running, taskVars, bufVars, once>>

StopStreaming ==
  /\ Idle /\ state = "streaming"
  /\ streaming' = FALSE /\ state' = "running"
  /\ UNCHANGED <<initialized, running, taskVars, bufVars, once>>

\* captureOnce up to its wait for the driver.
CaptureOnce ==
  /\ Idle /\ IsReady
  /\ IF state = "capturing"
       THEN DeleteTask /\ once' = "continuous"
       ELSE once' = "single" /\ UNCHANGED <<state, handle, task>>
  /\ UNCHANGED <<flagVars, callback, bufVars>>

\* The frame comes or, after four seconds or with the sensor stopped, does not;
\* a continuous capture starts again, with nullptr for its callback.
CaptureOnceReturns ==
  /\ ~Idle
  /\ once' = "none"
  /\ \/ running /\ free /\ free' = FALSE /\ frame' = TRUE
     \/ UNCHANGED bufVars
  /\ IF once = "continuous" THEN StartCapturing(FALSE)
                            ELSE UNCHANGED <<state, taskVars>>
  /\ UNCHANGED flagVars

\* Mutant of ReturnFrame: _internal is not set to null.
ReturnFrameKeepsPointer ==
  /\ Idle /\ frame
  /\ free' = TRUE
  /\ UNCHANGED <<state, flagVars, taskVars, frame, once>>

\* A second returnFrame of the same frame finds _internal null.
ReturnFrame ==
  /\ Idle /\ frame
  /\ free' = TRUE /\ frame' = FALSE
  /\ UNCHANGED <<state, flagVars, taskVars, once>>

-----------------------------------------------------------------------------
(* The capture task *)

\* captureFrame; one that fails is tried again after the delay.
TaskGetsFrame(t) ==
  /\ task[t] = "get" /\ free
  /\ task' = [task EXCEPT ![t] = "frame"] /\ free' = FALSE
  /\ UNCHANGED <<state, flagVars, callback, handle, frame, once>>

TaskCallsBack(t) ==
  /\ task[t] = "frame" /\ callback
  /\ task' = [task EXCEPT ![t] = "callback"]
  /\ UNCHANGED <<state, flagVars, callback, handle, bufVars, once>>

\* Mutant of TaskReturnsFrame: without a callback the frame is not returned.
TaskReturnsFrameIfCalled(t) ==
  /\ \/ task[t] = "callback" /\ free' = TRUE
     \/ task[t] = "frame" /\ ~callback /\ UNCHANGED free
  /\ task' = [task EXCEPT ![t] = "get"]
  /\ UNCHANGED <<state, flagVars, callback, handle, frame, once>>

\* After the callback, or at once without one; then the delay of 100 ms.
TaskReturnsFrame(t) ==
  /\ task[t] = "callback" \/ (task[t] = "frame" /\ ~callback)
  /\ task' = [task EXCEPT ![t] = "get"] /\ free' = TRUE
  /\ UNCHANGED <<state, flagVars, callback, handle, frame, once>>

CaptureLoop(t) == TaskGetsFrame(t) \/ TaskCallsBack(t) \/ TaskReturnsFrame(t)

-----------------------------------------------------------------------------
ApiCall == \/ Initialize \/ Start \/ Stop
           \/ \E cb \in BOOLEAN : StartContinuousCapture(cb)
           \/ StopContinuousCapture \/ StartStreaming \/ StopStreaming
           \/ CaptureOnce \/ CaptureOnceReturns \/ ReturnFrame

Next == ApiCall \/ \E t \in Tasks : CaptureLoop(t)

Spec == Init /\ [][Next]_vars

-----------------------------------------------------------------------------
(* Properties *)

Alive(t) == task[t] # "none"
Holds(t) == task[t] \in {"frame", "callback"}

\* Whatever calls come in whatever order, a stop() that forgets the capture task
\* included, at most one task takes frames, and it is the one capture_task_ knows
\* and can delete.
OneCaptureTask == \A t \in Tasks : Alive(t) <=> t = handle

\* state_ tells the truth about sensor, driver and capture task: the sensor runs in
\* "running", "capturing" and "streaming" and not in "off", there is a capture task
\* exactly in "capturing", and the driver streams exactly in "streaming".
StateTells ==
  /\ state \in {"running", "capturing", "streaming"} => running
  /\ state = "off" => ~running
  /\ state = "capturing" <=> handle # NoTask
  /\ state = "streaming" <=> streaming

\* The calls that the API accepts although they overlap with what another began.
StopsOver      == Stop /\ state \in {"capturing", "streaming"}
StreamsOver    == StartStreaming /\ (~running \/ state = "capturing")
CapturesOver   == state = "streaming" /\ \E cb \in BOOLEAN : StartContinuousCapture(cb)

\* StateTells is no invariant: a stop() in the middle of a capture or a stream leaves
\* "off" with the task or the stream alive, and startStreaming() on a stopped sensor
\* leads to a "streaming", and then a "running", that is not so.  It is lost by these
\* overlapping calls alone: every other call, with each way it can fail, captureOnce
\* around its wait included, and every step of the capture task keeps the truth.
StateDivergesByOverlap ==
  [][StateTells /\ ~StateTells' => StopsOver \/ StreamsOver \/ CapturesOver]_vars

\* The driver's frame buffer has never two owners among the driver, the capture task
\* and the caller, although captureOnce and captureLoop take and return it in any
\* order and the capture task is deleted anywhere.
BufferHasOneOwner ==
  /\ free => ~frame /\ \A t \in Tasks : ~Holds(t)
  /\ frame => \A t \in Tasks : ~Holds(t)

Owned == free \/ frame \/ \E t \in Tasks : Holds(t)

\* The only way to lose the frame buffer for good is vTaskDelete of the task that has
\* it: no path through the capture loop, the callback or captureOnce forgets it.
LostOnlyByDelete == [][Owned /\ ~Owned' => \E t \in Tasks : Holds(t) /\ ~Alive(t)']_vars

\* The control is in error, or it believes in a sensor that was stopped under it.
Stuck == state = "error" \/ (state \in {"running", "streaming"} /\ ~running)

\* Neither is repaired by trying again: start(), startContinuousCapture(), captureOnce()
\* and the streaming calls, in any order, leave the control stuck (start() takes the
\* false "running" for a started sensor), and stop() alone gets it out.
OnlyStopRecovers == [][Stuck /\ ~Stuck' => state' = "off"]_vars
=============================================================================
