----------------------------- MODULE FramePipeline -----------------------------
(***************************************************************************)
(* How a frame travels: captureLoop (camera_sensor.cpp) takes it from the  *)
(* driver, on_camera_frame (main.cpp) publishes it and queues a heap copy, *)
(* and the one worker of the HTTP server takes copies from the queue to    *)
(* answer GET /capture and GET /stream (controller.cpp).                   *)
(*                                                                         *)
(* A copy is known by its age: it is the newest frame the camera took, an  *)
(* older one, or stale, which is older already when the request being      *)
(* served was accepted.  The driver, the HTTP library and the clients are  *)
(* external.  publishCompressedImage (module MicrorosSync) always returns. *)
(***************************************************************************)
EXTENDS Naturals, Sequences

CONSTANTS
  Clients,    \* HTTP clients, one outstanding request each
  Nobody,     \* not a client
  QUEUE_LEN,  \* length of frame_queue (10 in app_main)
  HeapRoom    \* how many copies the heap has room for

ASSUME PipelineAssumption ==
  /\ Nobody \notin Clients
  /\ QUEUE_LEN \in Nat \ {0}
  /\ HeapRoom \in Nat

VARIABLES
  loop,     \* where the capture task is
  fb,       \* where the driver's only frame buffer (fb_count = 1) is
  queue,    \* frame_queue: the ages of the queued copies
  heap,     \* heap copies allocated and not deleted
  lost,     \* those that nothing points to any more
  req,      \* per client: the request it waits on
  worker,   \* where the HTTP server's task is
  serving,  \* the client it serves
  hand      \* the age of the copy in its hand

camVars == <<loop, fb>>
memVars == <<heap, lost>>
webVars == <<req, worker, serving, hand>>
vars == <<camVars, queue, memVars, webVars>>

Ages  == {"newest", "older", "stale"}
Kinds == {"/capture", "/stream", "/status"}

TypeOK ==
  /\ loop \in {"ready", "publish", "copy", "send", "return", "aborted"}
  /\ fb \in {"driver", "lent"}
  /\ queue \in Seq(Ages) /\ Len(queue) <= QUEUE_LEN
  /\ heap \in 0..HeapRoom /\ lost \in 0..HeapRoom
  /\ req \in [Clients -> Kinds \cup {"none"}]
  /\ worker \in {"idle", "receive", "sending"}
  /\ serving \in Clients \cup {Nobody}
  /\ hand \in Ages \cup {"none"}

\* At startCapture, with the HTTP server up.
Init ==
  /\ loop = "ready" /\ fb = "driver"
  /\ queue = <<>> /\ heap = 0 /\ lost = 0
  /\ req = [c \in Clients |-> "none"]
  /\ worker = "idle" /\ serving = Nobody /\ hand = "none"

Aged(q, from, to) == [i \in 1..Len(q) |-> IF q[i] = from THEN to ELSE q[i]]

-----------------------------------------------------------------------------
(* The capture task: captureLoop and its callback on_camera_frame *)

\* A failed esp_camera_fb_get is tried again after the delay.
CaptureFrame ==
  /\ loop = "ready" /\ fb = "driver"
  /\ fb' = "lent"
  /\ queue' = Aged(queue, "newest", "older")
  /\ loop' = "publish"
  /\ UNCHANGED <<memVars, webVars>>

PublishFrame ==
  /\ loop = "publish"
  /\ loop' = "copy"
  /\ UNCHANGED <<fb, queue, memVars, webVars>>

\* new aborts on a full heap: the null check after it never sees one.
CopyFrame ==
  /\ loop = "copy"
  /\ \/ heap < HeapRoom /\ heap' = heap + 1 /\ loop' = "send"
     \/ heap = HeapRoom /\ loop' = "aborted" /\ UNCHANGED heap
  /\ UNCHANGED <<fb, queue, lost, webVars>>

\* Mutant of SendFrame: the dropped copy is not deleted.
SendFrameKeepsCopy ==
  /\ loop = "send"
  /\ queue' = IF Len(queue) < QUEUE_LEN THEN Append(queue, "newest") ELSE queue
  /\ loop' = "return"
  /\ UNCHANGED <<fb, memVars, webVars>>

\* Mutant of SendFrame: xQueueSend waits for room.
SendFrameBlocking ==
  /\ loop = "send" /\ Len(queue) < QUEUE_LEN
  /\ queue' = Append(queue, "newest")
  /\ loop' = "return"
  /\ UNCHANGED <<fb, memVars, webVars>>

\* xQueueSend with no wait: a full queue drops the copy just made.
SendFrame ==
  /\ loop = "send"
  /\ IF Len(queue) < QUEUE_LEN
       THEN queue' = Append(queue, "newest") /\ UNCHANGED heap
       ELSE heap' = heap - 1 /\ UNCHANGED queue
  /\ loop' = "return"
  /\ UNCHANGED <<fb, lost, webVars>>

ReturnFrame ==
  /\ loop = "return"
  /\ fb' = "driver"
  /\ loop' = "ready"
  /\ UNCHANGED <<queue, memVars, webVars>>

\* The panic handler restarts the chip, and app_main gets here again.
Reboot ==
  /\ loop = "aborted"
  /\ loop' = "ready" /\ fb' = "driver"
  /\ queue' = <<>> /\ heap' = 0 /\ lost' = 0
  /\ req' = [c \in Clients |-> "none"]
  /\ worker' = "idle" /\ serving' = Nobody /\ hand' = "none"

Running == loop # "aborted"

-----------------------------------------------------------------------------
(* The HTTP server's task: one request at a time *)

Request(c) ==
  /\ Running /\ req[c] = "none"
  /\ \E kind \in Kinds : req' = [req EXCEPT ![c] = kind]
  /\ UNCHANGED <<camVars, queue, memVars, worker, serving, hand>>

Done(c) == req' = [req EXCEPT ![c] = "none"] /\ worker' = "idle" /\ serving' = Nobody

StatusHandler(c) ==
  /\ Running /\ worker = "idle" /\ req[c] = "/status"
  /\ Done(c)
  /\ UNCHANGED <<camVars, queue, memVars, hand>>

\* capture_handler or stream_handler begins.
FrameHandler(c) ==
  /\ Running /\ worker = "idle" /\ req[c] \in {"/capture", "/stream"}
  /\ worker' = "receive" /\ serving' = c
  /\ queue' = Aged(queue, "older", "stale")
  /\ UNCHANGED <<camVars, memVars, req, hand>>

ReceiveFrame ==
  /\ Running /\ worker = "receive" /\ queue # <<>>
  /\ hand' = Head(queue) /\ queue' = Tail(queue)
  /\ worker' = "sending"
  /\ UNCHANGED <<camVars, memVars, req, serving>>

\* xQueueReceive gives up after a second: 500, or the end of the stream.
ReceiveTimesOut ==
  /\ Running /\ worker = "receive" /\ queue = <<>>
  /\ Done(serving)
  /\ UNCHANGED <<camVars, queue, memVars, hand>>

\* Mutant of SendToClient: a snapshot's client that is gone is waited for.
SendToClientWaits ==
  /\ Running /\ worker = "sending" /\ req[serving] = "/stream"
  /\ hand' = "none" /\ lost' = lost + 1
  /\ Done(serving) \/ (worker' = "receive" /\ UNCHANGED <<req, serving>>)
  /\ UNCHANGED <<camVars, queue, heap>>

\* The frame is sent or the client is gone; then esp_camera_fb_return, which
\* does not know the heap copy, so nothing frees it.
SendToClient ==
  /\ Running /\ worker = "sending"
  /\ hand' = "none"
  /\ lost' = lost + 1
  /\ \/ Done(serving)
     \/ req[serving] = "/stream" /\ worker' = "receive" /\ UNCHANGED <<req, serving>>
  /\ UNCHANGED <<camVars, queue, heap>>

-----------------------------------------------------------------------------
Camera == CaptureFrame \/ PublishFrame \/ CopyFrame \/ SendFrame \/ ReturnFrame

Worker == \/ ReceiveFrame \/ ReceiveTimesOut \/ SendToClient
          \/ \E c \in Clients : StatusHandler(c) \/ FrameHandler(c)

Next == Camera \/ Worker \/ Reboot \/ \E c \in Clients : Request(c)

Spec == Init /\ [][Next]_vars

\* Both tasks run, the camera delivers frames, and the server serves every
\* client it keeps finding ready when it is idle.
Fairness == /\ WF_vars(Camera) /\ WF_vars(Reboot)
            /\ WF_vars(ReceiveFrame) /\ WF_vars(SendToClient)
            /\ \A c \in Clients : SF_vars(StatusHandler(c) \/ FrameHandler(c))

FairSpec == Spec /\ Fairness

-----------------------------------------------------------------------------
(* Properties *)

Holds(b) == IF b THEN 1 ELSE 0

\* The memory of on_camera_frame adds up: every copy on the heap is in the queue,
\* in the hand of one of the tasks, or was lost by an HTTP handler; a frame that
\* finds the queue full leaves none behind.
CopiesAccounted ==
  heap = Len(queue) + Holds(loop = "send") + Holds(worker = "sending") + lost

\* Queue and hands alone never use up a heap that has room for them: when the
\* allocation aborts, the HTTP handlers have lost all the copies that it has room for
\* beside a full queue and the one in the worker's hand.  The camera outrunning its
\* clients, however long, is no reason.
AbortsOnlyByLeak == loop = "aborted" => lost + QUEUE_LEN + 1 >= HeapRoom

\* The capture task is never held up by the HTTP side: however slow the clients
\* are, the driver's only buffer is taken and comes back again and again.
CaptureGoesOn == []<>(fb = "lent") /\ []<>(fb = "driver")

\* README.md: /capture takes its frame by a direct esp_camera_fb_get, so the
\* snapshot is not one that a newer frame had superseded before the request.
SnapshotIsCurrent ==
  worker = "sending" /\ req[serving] = "/capture" => hand # "stale"

\* The server has one task, so a status request waits behind an open stream.  It
\* waits for nothing else: if every stream ends, every status request is answered
\* (or lost in the restart that the leak leads to), whatever the queue holds and
\* whoever takes frames from it.
StatusAnswered ==
  (\A c \in Clients : []<>(req[c] # "/stream")) =>
    \A c \in Clients : req[c] = "/status" ~> req[c] # "/status"

\* main.cpp checks the copy's allocation and drops the frame when it fails: running
\* out of memory costs a frame, never the device.
FullHeapDropsFrame == loop # "aborted"
=============================================================================
