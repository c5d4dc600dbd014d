-------------------------- MODULE FramePipelineProofs --------------------------
(* Proofs about the way of a frame: its heap copy is in one place, whatever   *)
(* the length of the queue and however many clients there are.                *)
EXTENDS FramePipeline, TLAPS

\* Ageing changes no copy's place.
LEMMA AgedKeepsLength ==
  ASSUME NEW q \in Seq(Ages), NEW from \in Ages, NEW to \in Ages
  PROVE  Aged(q, from, to) \in Seq(Ages) /\ Len(Aged(q, from, to)) = Len(q)
<1>1. Len(q) \in Nat /\ \A i \in 1..Len(q) : (IF q[i] = from THEN to ELSE q[i]) \in Ages
  OBVIOUS
<1> QED BY <1>1 DEF Aged

\* Where a copy can be, with the heap counted in it.
PipeInv == TypeOK /\ CopiesAccounted

LEMMA InitPipe == Init => PipeInv
<1> SUFFICES ASSUME Init PROVE PipeInv
  OBVIOUS
<1>1. TypeOK
  BY PipelineAssumption DEF Init, TypeOK
<1>2. CopiesAccounted
  BY DEF Init, CopiesAccounted, Holds
<1> QED BY <1>1, <1>2 DEF PipeInv

LEMMA CameraKeeps == PipeInv /\ Camera => PipeInv'
<1> SUFFICES ASSUME PipeInv, Camera PROVE PipeInv'
  OBVIOUS
<1> USE PipelineAssumption DEF PipeInv, camVars, memVars, webVars
<1>0. queue \in Seq(Ages) /\ Len(queue) \in 0..QUEUE_LEN /\ heap \in 0..HeapRoom /\ lost \in Nat /\ HeapRoom \in Nat
  BY DEF TypeOK
<1>1. CASE CaptureFrame
  <2>1. queue' \in Seq(Ages) /\ Len(queue') = Len(queue)
    BY <1>0, <1>1, AgedKeepsLength DEF CaptureFrame, Ages
  <2>2. TypeOK'
    BY <1>1, <2>1 DEF CaptureFrame, TypeOK
  <2>3. CopiesAccounted'
    BY <1>1, <2>1 DEF CaptureFrame, CopiesAccounted, Running, Holds
  <2> QED BY <2>2, <2>3
<1>2. CASE PublishFrame \/ ReturnFrame
  <2>1. TypeOK'
    BY <1>2 DEF PublishFrame, ReturnFrame, TypeOK
  <2>2. CopiesAccounted'
    BY <1>2 DEF PublishFrame, ReturnFrame, CopiesAccounted, Running, Holds
  <2> QED BY <2>1, <2>2
<1>3. CASE CopyFrame
  <2>1. CASE heap = HeapRoom /\ loop' = "aborted" /\ UNCHANGED heap
    <3>1. TypeOK'
      BY <1>3, <2>1 DEF CopyFrame, TypeOK
    <3>2. CopiesAccounted'
      BY <1>3, <2>1 DEF CopyFrame, CopiesAccounted, Holds
    <3> QED BY <3>1, <3>2
  <2>2. CASE heap < HeapRoom /\ heap' = heap + 1 /\ loop' = "send"
    <3>1. TypeOK'
      BY <1>0, <1>3, <2>2 DEF CopyFrame, TypeOK
    <3>2. Holds(loop = "send") = 0 /\ Holds(loop' = "send") = 1
      BY <1>3, <2>2 DEF CopyFrame, Holds
    <3>3. heap = Len(queue) + 0 + Holds(worker = "sending") + lost
      BY <3>2 DEF CopiesAccounted
    <3>4. heap' = Len(queue) + 1 + Holds(worker = "sending") + lost
      BY <1>0, <2>2, <3>3 DEF Holds
    <3>5. CopiesAccounted'
      BY <1>3, <3>2, <3>4 DEF CopyFrame, CopiesAccounted
    <3> QED BY <3>1, <3>5
  <2> QED BY <1>3, <2>1, <2>2 DEF CopyFrame
<1>4. CASE SendFrame
  <2>1. queue' \in Seq(Ages) /\ Len(queue') <= QUEUE_LEN
    BY <1>0, <1>4 DEF SendFrame, Ages
  <2>2. CASE Len(queue) < QUEUE_LEN
    <3>1. Len(queue') = Len(queue) + 1 /\ heap' = heap
      BY <1>0, <1>4, <2>2 DEF SendFrame
    <3>2. CopiesAccounted'
      BY <1>0, <1>4, <3>1 DEF SendFrame, CopiesAccounted, Running, Holds
    <3>3. TypeOK'
      BY <1>4, <2>1, <3>1 DEF SendFrame, TypeOK
    <3> QED BY <3>2, <3>3
  <2>3. CASE ~(Len(queue) < QUEUE_LEN)
    <3>1. heap' = heap - 1 /\ queue' = queue /\ heap # 0
      BY <1>0, <1>4, <2>3 DEF SendFrame, CopiesAccounted, Running, Holds
    <3>2. CopiesAccounted'
      BY <1>0, <1>4, <3>1 DEF SendFrame, CopiesAccounted, Running, Holds
    <3>3. TypeOK'
      BY <1>4, <2>1, <3>1 DEF SendFrame, TypeOK
    <3> QED BY <3>2, <3>3
  <2> QED BY <2>2, <2>3
<1> QED BY <1>1, <1>2, <1>3, <1>4 DEF Camera

LEMMA WorkerKeeps == PipeInv /\ Worker => PipeInv'
<1> SUFFICES ASSUME PipeInv, Worker PROVE PipeInv'
  OBVIOUS
<1> USE PipelineAssumption DEF PipeInv, camVars, memVars, webVars
<1>0. queue \in Seq(Ages) /\ Len(queue) \in 0..QUEUE_LEN /\ heap \in 0..HeapRoom /\ lost \in Nat /\ HeapRoom \in Nat
  BY DEF TypeOK
<1>1. CASE ReceiveFrame
  <2>1. /\ queue' \in Seq(Ages) /\ Len(queue') = Len(queue) - 1
        /\ hand' \in Ages
    BY <1>0, <1>1 DEF ReceiveFrame
  <2>2. TypeOK'
    BY <1>0, <1>1, <2>1 DEF ReceiveFrame, TypeOK
  <2>3. CopiesAccounted'
    BY <1>0, <1>1, <2>1 DEF ReceiveFrame, CopiesAccounted, Running, Holds
  <2> QED BY <2>2, <2>3
<1>2. CASE ReceiveTimesOut
  <2>1. TypeOK'
    BY <1>2 DEF ReceiveTimesOut, Done, TypeOK
  <2>2. CopiesAccounted'
    BY <1>2 DEF ReceiveTimesOut, Done, CopiesAccounted, Running, Holds
  <2> QED BY <2>1, <2>2
<1>3. CASE SendToClient
  <2>1. /\ worker = "sending" /\ worker' # "sending" /\ UNCHANGED <<loop, fb, queue, heap>>
        /\ lost' = lost + 1
    BY <1>3 DEF SendToClient, Done
  <2>2. Holds(worker = "sending") = 1 /\ Holds(worker' = "sending") = 0
    BY <2>1 DEF Holds
  <2>3. heap = Len(queue) + Holds(loop = "send") + 1 + lost
    BY <2>2 DEF CopiesAccounted
  <2>4. Holds(loop = "send") \in {0, 1}
    BY DEF Holds
  <2>5. heap' = Len(queue') + Holds(loop = "send") + 0 + lost' /\ lost' \in 0..HeapRoom
    BY <1>0, <2>1, <2>3, <2>4
  <2>6. CopiesAccounted'
    BY <2>1, <2>2, <2>5 DEF CopiesAccounted
  <2>7. TypeOK'
    BY <1>3, <2>1, <2>5 DEF SendToClient, Done, TypeOK
  <2> QED BY <2>6, <2>7
<1>4. ASSUME NEW c \in Clients, StatusHandler(c) PROVE PipeInv'
  <2>1. TypeOK'
    BY <1>4 DEF StatusHandler, Done, TypeOK
  <2>2. CopiesAccounted'
    BY <1>4 DEF StatusHandler, Done, CopiesAccounted, Running, Holds
  <2> QED BY <2>1, <2>2
<1>5. ASSUME NEW c \in Clients, FrameHandler(c) PROVE PipeInv'
  <2>1. queue' \in Seq(Ages) /\ Len(queue') = Len(queue)
    BY <1>0, <1>5, AgedKeepsLength DEF FrameHandler, Ages
  <2>2. TypeOK'
    BY <1>5, <2>1 DEF FrameHandler, TypeOK
  <2>3. CopiesAccounted'
    BY <1>5, <2>1 DEF FrameHandler, CopiesAccounted, Running, Holds
  <2> QED BY <2>2, <2>3
<1> QED BY <1>1, <1>2, <1>3, <1>4, <1>5 DEF Worker

LEMMA RestKeeps ==
  PipeInv /\ (Reboot \/ (\E c \in Clients : Request(c)) \/ UNCHANGED vars) => PipeInv'
<1> SUFFICES ASSUME PipeInv, Reboot \/ (\E c \in Clients : Request(c)) \/ UNCHANGED vars
             PROVE  PipeInv'
  OBVIOUS
<1> USE PipelineAssumption DEF PipeInv, camVars, memVars, webVars
<1>1. CASE Reboot
  <2>1. TypeOK'
    BY <1>1 DEF Reboot, TypeOK
  <2>2. CopiesAccounted'
    BY <1>1 DEF Reboot, CopiesAccounted, Holds
  <2> QED BY <2>1, <2>2
<1>2. ASSUME NEW c \in Clients, Request(c) PROVE PipeInv'
  <2>1. TypeOK'
    BY <1>2 DEF Request, TypeOK
  <2>2. CopiesAccounted'
    BY <1>2 DEF Request, CopiesAccounted, Running, Holds
  <2> QED BY <2>1, <2>2
<1>3. CASE UNCHANGED vars
  <2>1. TypeOK'
    BY <1>3 DEF vars, TypeOK
  <2>2. CopiesAccounted'
    BY <1>3 DEF vars, CopiesAccounted, Running, Holds
  <2> QED BY <2>1, <2>2
<1> QED BY <1>1, <1>2, <1>3

\* The accounts and the types hold together: a deleted copy was counted.
THEOREM PipeInvariant == Spec => []PipeInv
<1>1. PipeInv /\ [Next]_vars => PipeInv'
  BY CameraKeeps, WorkerKeeps, RestKeeps DEF Next
<1> QED BY <1>1, InitPipe, PTL DEF Spec

\* frame_queue is never filled beyond its length, and all else is of its type.  (That
\* heap stays within HeapRoom is the allocator's refusal in CopyFrame, not a merit of
\* the program: it loses copies until the heap is full.)
THEOREM PipelineTypes == Spec => []TypeOK
<1>1. PipeInv => TypeOK
  BY DEF PipeInv
<1> QED BY <1>1, PipeInvariant, PTL

\* on_camera_frame and the handlers leave no copy out of account, for every length
\* of the queue and every size of the heap.
THEOREM EveryCopyAccounted == Spec => []CopiesAccounted
<1>1. PipeInv => CopiesAccounted
  BY DEF PipeInv
<1> QED BY <1>1, PipeInvariant, PTL

\* A task that has aborted did so in CopyFrame, with the heap full.
AbortedFull == loop = "aborted" => heap = HeapRoom

LEMMA AbortedFullKept == PipeInv /\ AbortedFull /\ [Next]_vars => AbortedFull'
<1> SUFFICES ASSUME PipeInv, AbortedFull, [Next]_vars PROVE AbortedFull'
  OBVIOUS
<1> USE DEF AbortedFull, camVars, memVars, webVars
<1>1. CASE Camera
  BY <1>1 DEF Camera, CaptureFrame, PublishFrame, CopyFrame, SendFrame, ReturnFrame
<1>2. CASE Worker
  <2>1. Running /\ UNCHANGED loop
    BY <1>2 DEF Worker, ReceiveFrame, ReceiveTimesOut, SendToClient, StatusHandler,
       FrameHandler
  <2> QED BY <2>1 DEF Running
<1>3. CASE Reboot
  BY <1>3 DEF Reboot
<1>4. ASSUME NEW c \in Clients, Request(c) PROVE AbortedFull'
  BY <1>4 DEF Request
<1>5. CASE UNCHANGED vars
  BY <1>5 DEF vars
<1> QED BY <1>1, <1>2, <1>3, <1>4, <1>5 DEF Next

\* However large the heap and however slow the clients, the allocation aborts only when
\* the handlers lost all the copies there is room for beside a full queue and one in
\* the worker's hand.
THEOREM AbortNeedsLeak == Spec => []AbortsOnlyByLeak
<1>1. Init => AbortedFull
  BY DEF Init, AbortedFull
<1>2. PipeInv /\ AbortedFull => AbortsOnlyByLeak
  <2> SUFFICES ASSUME PipeInv, AbortedFull, loop = "aborted" PROVE lost + QUEUE_LEN + 1 >= HeapRoom
    BY DEF AbortsOnlyByLeak
  <2>1. /\ HeapRoom = Len(queue) + Holds(loop = "send") + Holds(worker = "sending") + lost
        /\ Holds(loop = "send") = 0 /\ Holds(worker = "sending") \in {0, 1}
    BY DEF PipeInv, AbortedFull, CopiesAccounted, Holds
  <2>2. /\ Len(queue) \in Nat /\ Len(queue) <= QUEUE_LEN /\ lost \in Nat
        /\ QUEUE_LEN \in Nat /\ HeapRoom \in Nat
    BY PipelineAssumption DEF PipeInv, TypeOK
  <2> QED BY <2>1, <2>2
<1> QED BY <1>1, <1>2, AbortedFullKept, PipeInvariant, PTL DEF Spec
=============================================================================
