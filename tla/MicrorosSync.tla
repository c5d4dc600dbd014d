----------------------------- MODULE MicrorosSync -----------------------------
(***************************************************************************)
(* components/microros_sync/microros_sync.cpp: the micro-ROS task, which   *)
(* discovers the agent, creates the entities, spins and tears down again,  *)
(* and the camera task inside publishCompressedImage.  The mutex g_mutex   *)
(* guards g_entities_created, the image buffer and rcl_publish; creation,  *)
(* destruction and spinning happen outside it.                             *)
(*                                                                         *)
(* The Wi-Fi event group, mDNS, the agent and the rcl library are external *)
(* and answer as the code allows for.  Each write of the registry entry is *)
(* taken together with the local step before it.  Left out: the agent's    *)
(* address, time stamps, image bytes (an image is its length).             *)
(***************************************************************************)
EXTENDS Integers

CONSTANT Sizes      \* the lengths an image may have

ASSUME SizesAssumption == Sizes \subseteq Nat \ {0}

VARIABLES
  pc,        \* where microros_task is
  backoff,   \* backoff_ms
  failures,  \* consecutive_spin_failures
  mutex,     \* holder of g_mutex
  created,   \* g_entities_created
  live,      \* the rcl objects that are initialised
  reg,       \* the "microros" entry of the state machine registry
  cam,       \* where the camera task is in publishCompressedImage
  len,       \* its len argument
  buf,       \* bytes allocated behind g_img_buf, 0 for a null pointer
  cap,       \* g_img_buf_capacity
  wifiUp,    \* external: WM_CONNECTED_BIT
  agentUp,   \* external: the agent can be reached
  calm       \* external: from now on Wi-Fi, agent and library do not fail

taskVars == <<pc, backoff, failures>>
entVars  == <<created, live, reg>>
camVars  == <<cam, len, buf, cap>>
envVars  == <<wifiUp, agentUp, calm>>
vars == <<taskVars, mutex, entVars, camVars, envVars>>

MAX_BACKOFF == 5000
SPIN_LIMIT  == 3
Entities    == {"support", "node", "publisher", "executor"}

Steps == {"WAITING_WIFI", "DISCOVER_AGENT", "INITIALIZING", "create", "open",
          "opened", "announce", "CONNECTED", "close", "closed", "destroy",
          "BACKING_OFF"}

TypeOK ==
  /\ pc \in Steps
  /\ backoff \in 250..MAX_BACKOFF
  /\ failures \in 0..SPIN_LIMIT
  /\ mutex \in {"none", "task", "cam"}
  /\ created \in BOOLEAN
  /\ live \subseteq Entities
  /\ reg \in {"OFF", "DISCOVERING", "CONNECTED", "DISCONNECTED"}
  /\ cam \in {"idle", "take", "check", "alloc", "publish"}
  /\ len \in Sizes \cup {0}
  /\ buf \in Sizes \cup {0} /\ cap \in Sizes \cup {0}
  /\ wifiUp \in BOOLEAN /\ agentUp \in BOOLEAN /\ calm \in BOOLEAN

\* After MicrorosSync::init and start.
Init ==
  /\ pc = "WAITING_WIFI" /\ backoff = 250 /\ failures = 0
  /\ mutex = "none" /\ created = FALSE /\ live = {} /\ reg = "OFF"
  /\ cam = "idle" /\ len = 0 /\ buf = 0 /\ cap = 0
  /\ wifiUp \in BOOLEAN /\ agentUp \in BOOLEAN /\ calm = FALSE

-----------------------------------------------------------------------------
(* microros_task *)

WaitForWifi ==
  /\ pc = "WAITING_WIFI" /\ wifiUp
  /\ reg' = "DISCOVERING"
  /\ pc' = "DISCOVER_AGENT"
  /\ UNCHANGED <<backoff, failures, mutex, created, live, camVars, envVars>>

\* A failed mDNS query is repeated after a fixed delay.
DiscoverAgent ==
  /\ pc = "DISCOVER_AGENT"
  /\ \/ agentUp /\ pc' = "INITIALIZING"
     \/ ~calm /\ UNCHANGED pc
  /\ UNCHANGED <<backoff, failures, mutex, entVars, camVars, envVars>>

\* Init options and support: the first failure backs off.
Initialize ==
  /\ pc = "INITIALIZING"
  /\ \/ agentUp /\ live' = live \cup {"support"} /\ pc' = "create"
     \/ ~calm /\ pc' = "BACKING_OFF" /\ UNCHANGED live
  /\ UNCHANGED <<backoff, failures, mutex, created, reg, camVars, envVars>>

\* create_entities goes on after a failed call.  A node needs the agent and a
\* publisher needs a node.
CreateEntities ==
  /\ pc = "create"
  /\ \E made \in SUBSET {"node", "publisher", "executor"} :
       /\ "node" \in made => agentUp
       /\ "publisher" \in made => "node" \in made
       /\ calm => made = {"node", "publisher", "executor"}
       /\ live' = live \cup made
  /\ pc' = "open"
  /\ UNCHANGED <<backoff, failures, mutex, created, reg, camVars, envVars>>

\* xSemaphoreTake(g_mutex, portMAX_DELAY).
TakeMutex ==
  /\ pc \in {"open", "close"} /\ mutex = "none"
  /\ mutex' = "task"
  /\ pc' = IF pc = "open" THEN "opened" ELSE "closed"
  /\ UNCHANGED <<backoff, failures, entVars, camVars, envVars>>

OpenSession ==
  /\ pc = "opened"
  /\ created' = TRUE /\ mutex' = "none"
  /\ pc' = "announce"
  /\ UNCHANGED <<backoff, failures, live, reg, camVars, envVars>>

AnnounceSession ==
  /\ pc = "announce"
  /\ failures' = 0 /\ backoff' = 250
  /\ reg' = "CONNECTED"
  /\ pc' = "CONNECTED"
  /\ UNCHANGED <<mutex, created, live, camVars, envVars>>

\* Mutant of Spin: the failures are counted and never acted upon.
SpinForever ==
  /\ pc = "CONNECTED"
  /\ \/ "executor" \in live /\ failures' = 0
     \/ /\ ~calm \/ "executor" \notin live
        /\ failures' = (failures + 1) % SPIN_LIMIT
  /\ UNCHANGED <<pc, backoff, mutex, entVars, camVars, envVars>>

\* Mutant of Spin: the fourth failure tears down, not the third.
SpinOnceMore ==
  /\ pc = "CONNECTED"
  /\ \/ /\ "executor" \in live
        /\ failures' = 0 /\ UNCHANGED pc
     \/ /\ ~calm \/ "executor" \notin live
        /\ failures' = failures + 1
        /\ pc' = IF failures + 1 > SPIN_LIMIT THEN "close" ELSE pc
  /\ UNCHANGED <<backoff, mutex, entVars, camVars, envVars>>

\* rclc_executor_spin_some fails for good on an executor that was not created.
Spin ==
  /\ pc = "CONNECTED"
  /\ \/ /\ "executor" \in live
        /\ failures' = 0 /\ UNCHANGED pc
     \/ /\ ~calm \/ "executor" \notin live
        /\ failures' = failures + 1
        /\ pc' = IF failures + 1 >= SPIN_LIMIT THEN "close" ELSE pc
  /\ UNCHANGED <<backoff, mutex, entVars, camVars, envVars>>

CloseSession ==
  /\ pc = "closed"
  /\ created' = FALSE /\ mutex' = "none"
  /\ pc' = "destroy"
  /\ UNCHANGED <<backoff, failures, live, reg, camVars, envVars>>

\* Mutant of DestroyEntities: rclc_support_fini is missing.
DestroyAllButSupport ==
  /\ pc = "destroy"
  /\ live' = live \cap {"support"}
  /\ reg' = "DISCONNECTED"
  /\ pc' = "BACKING_OFF"
  /\ UNCHANGED <<backoff, failures, mutex, created, camVars, envVars>>

DestroyEntities ==
  /\ pc = "destroy"
  /\ live' = {}
  /\ reg' = "DISCONNECTED"
  /\ pc' = "BACKING_OFF"
  /\ UNCHANGED <<backoff, failures, mutex, created, camVars, envVars>>

BackOff ==
  /\ pc = "BACKING_OFF"
  /\ backoff' = IF 2 * backoff < MAX_BACKOFF THEN 2 * backoff ELSE MAX_BACKOFF
  /\ reg' = "DISCOVERING"
  /\ pc' = "DISCOVER_AGENT"
  /\ UNCHANGED <<failures, mutex, created, live, camVars, envVars>>

-----------------------------------------------------------------------------
(* publishCompressedImage, on the camera task *)

NewImage ==
  /\ cam = "idle"
  /\ len' \in Sizes
  /\ cam' = "take"
  /\ UNCHANGED <<taskVars, mutex, entVars, buf, cap, envVars>>

CamTakesMutex ==
  /\ cam = "take" /\ mutex = "none"
  /\ mutex' = "cam"
  /\ cam' = "check"
  /\ UNCHANGED <<taskVars, entVars, len, buf, cap, envVars>>

\* The 10 ms timeout: the image is dropped.
CamTimesOut ==
  /\ cam = "take" /\ mutex # "none"
  /\ cam' = "idle"
  /\ UNCHANGED <<taskVars, mutex, entVars, len, buf, cap, envVars>>

\* Mutant of CheckCreated: the mutex is given back before the image is sent.
CheckCreatedUnlocked ==
  /\ cam = "check"
  /\ cam' = IF created THEN "alloc" ELSE "idle"
  /\ mutex' = "none"
  /\ UNCHANGED <<taskVars, entVars, len, buf, cap, envVars>>

\* Mutant of CheckCreated: the flag is not looked at.
CheckNothing ==
  /\ cam = "check"
  /\ cam' = "alloc"
  /\ UNCHANGED <<taskVars, mutex, entVars, len, buf, cap, envVars>>

CheckCreated ==
  /\ cam = "check"
  /\ IF created THEN cam' = "alloc" /\ UNCHANGED mutex
                ELSE cam' = "idle" /\ mutex' = "none"
  /\ UNCHANGED <<taskVars, entVars, len, buf, cap, envVars>>

\* Mutant of FillBuffer: a failed malloc leaves the old capacity in place.
FillBufferStaleCapacity ==
  /\ cam = "alloc"
  /\ \/ cap >= len /\ cam' = "publish" /\ UNCHANGED <<mutex, buf, cap>>
     \/ cap < len /\ buf' = len /\ cap' = len /\ cam' = "publish" /\ UNCHANGED mutex
     \/ cap < len /\ buf' = 0 /\ cam' = "idle" /\ mutex' = "none" /\ UNCHANGED cap
  /\ UNCHANGED <<taskVars, entVars, len, envVars>>

\* alloc_image_buf and, when it succeeds, the copy into the buffer.
FillBuffer ==
  /\ cam = "alloc"
  /\ \/ cap >= len /\ cam' = "publish" /\ UNCHANGED <<mutex, buf, cap>>
     \/ cap < len /\ buf' = len /\ cap' = len /\ cam' = "publish" /\ UNCHANGED mutex
     \/ cap < len /\ buf' = 0 /\ cap' = 0 /\ cam' = "idle" /\ mutex' = "none"
  /\ UNCHANGED <<taskVars, entVars, len, envVars>>

\* rcl_publish, whose failure is only logged.
Publish ==
  /\ cam = "publish"
  /\ cam' = "idle" /\ mutex' = "none"
  /\ UNCHANGED <<taskVars, entVars, len, buf, cap, envVars>>

-----------------------------------------------------------------------------
(* The surroundings (external) *)

Fluctuate ==
  /\ ~calm
  /\ wifiUp' \in BOOLEAN /\ agentUp' \in BOOLEAN
  /\ UNCHANGED <<taskVars, mutex, entVars, camVars, calm>>

SettleDown ==
  /\ ~calm
  /\ calm' = TRUE /\ wifiUp' = TRUE /\ agentUp' = TRUE
  /\ UNCHANGED <<taskVars, mutex, entVars, camVars>>

-----------------------------------------------------------------------------
Task ==
  \/ WaitForWifi \/ DiscoverAgent \/ Initialize \/ CreateEntities \/ TakeMutex
  \/ OpenSession \/ AnnounceSession \/ Spin \/ CloseSession \/ DestroyEntities
  \/ BackOff

Camera ==
  NewImage \/ CamTakesMutex \/ CamTimesOut \/ CheckCreated \/ FillBuffer \/ Publish

Next == Task \/ Camera \/ Fluctuate \/ SettleDown

Spec == Init /\ [][Next]_vars

\* Both tasks run.  The mutex is free between two images, which are at least a
\* capture delay apart, so the task gets it in the end (SF).
Fairness ==
  /\ WF_vars(Task) /\ SF_vars(TakeMutex)
  /\ WF_vars(CheckCreated \/ FillBuffer \/ Publish)

FairSpec == Spec /\ Fairness

-----------------------------------------------------------------------------
(* Properties *)

\* No image is copied or published while the session is being created or torn
\* down: from the flag check to the end of rcl_publish the camera task finds the
\* support alive, although the task destroys it outside the mutex.
PublishOnLiveSession ==
  cam \in {"alloc", "publish"} =>
    /\ mutex = "cam" /\ created /\ "support" \in live
    /\ pc \in {"announce", "CONNECTED", "close"}

\* The memory behind g_img_buf really holds the image that is sent, whatever
\* sizes and failed allocations came before.
BufferHoldsImage == cam = "publish" => buf >= len

\* No attempt to connect starts on the leftovers of an earlier session, and none
\* of them can be published on.
CleanRestart ==
  pc \in {"DISCOVER_AGENT", "INITIALIZING", "BACKING_OFF"} => live = {} /\ ~created

\* The lifecycle and the guarantees to the camera task, as an abstract machine.
Session == INSTANCE MicrorosSession
  WITH state <- reg, open <- created, sending <- cam \in {"alloc", "publish"}
SessionSpec == Session!Spec

\* README.md's lifecycle under failure: once Wi-Fi, agent and library stop
\* failing, the task gets connected and stays so, from wherever it was.
Connects == <>calm => <>[](reg = "CONNECTED" /\ created /\ "executor" \in live)

\* The task's steps from a phase to the working session.
Way == [CONNECTED |-> 0, announce |-> 1, opened |-> 2, open |-> 3, create |-> 4,
        INITIALIZING |-> 5, DISCOVER_AGENT |-> 6, WAITING_WIFI |-> 7,
        BACKING_OFF |-> 7, destroy |-> 8, closed |-> 9, close |-> 10]

\* The same when the executor was not created: the session opens in vain, fails
\* SPIN_LIMIT times, and the way begins at the tear-down.
StepsFrom(phase, failed, alive) ==
  IF "executor" \in alive \/ phase \notin {"open", "opened", "announce", "CONNECTED"}
    THEN Way[phase]
    ELSE Way["close"] + SPIN_LIMIT + Way[phase] - (IF phase = "CONNECTED" THEN failed ELSE 0)

\* The variant behind Connects.
StepsLeft == StepsFrom(pc, failures, live)

\* Once nothing fails any more, the task goes round the lifecycle once at most: every
\* step of it brings the working session nearer, and none leads out of one.
SessionNears ==
  [][calm => \/ StepsLeft' < StepsLeft
             \/ StepsLeft' = StepsLeft /\ (Camera \/ StepsLeft = 0)]_vars

\* README.md: the task backs off on connection failures, so what it announces as
\* connected has its publisher.
ConnectedHasPublisher == reg = "CONNECTED" /\ created => "publisher" \in live
-----------------------------------------------------------------------------
(* The inductive invariant behind the proofs *)

Guarded == cam \in {"check", "alloc", "publish"}

MutexOwner == /\ mutex = "task" <=> pc \in {"opened", "closed"}
              /\ mutex = "cam" <=> Guarded

SessionPhase ==
  /\ created <=> pc \in {"announce", "CONNECTED", "close", "closed"}
  /\ cam \in {"alloc", "publish"} => created

LivePhase ==
  IF pc \in {"WAITING_WIFI", "DISCOVER_AGENT", "INITIALIZING", "BACKING_OFF"}
    THEN live = {} ELSE "support" \in live

RegPhase ==
  /\ pc \in {"DISCOVER_AGENT", "INITIALIZING", "create", "open", "opened", "announce"}
       => reg = "DISCOVERING"
  /\ pc \in {"CONNECTED", "close", "closed", "destroy"} => reg = "CONNECTED"
  /\ reg = "OFF" <=> pc = "WAITING_WIFI"
  /\ pc = "BACKING_OFF" => reg # "CONNECTED"

BufferTold == buf = cap /\ (cam = "publish" => cap >= len)

SpinBudget == pc = "CONNECTED" => failures < SPIN_LIMIT

\* Calm is what SettleDown makes of it.
CalmAir == calm => wifiUp /\ agentUp

\* The inductive invariant: who holds the mutex, and what is open, alive and
\* registered in each phase of the task.
SyncInv == /\ TypeOK /\ MutexOwner /\ SessionPhase /\ LivePhase
           /\ RegPhase /\ BufferTold /\ SpinBudget

=============================================================================
