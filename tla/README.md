# Verification of the ESP32-CAM streaming firmware

TLA+ models of the firmware in `src/`, TLC configurations that check them on
small instances, and TLAPS proofs of the properties that matter most, for every
value of the parameters.

## The system

The firmware runs on two cores under FreeRTOS. Its tasks share memory, one event
group, one queue and a string-keyed registry of component states.

| Part | State it keeps | Operations | Talks to |
|---|---|---|---|
| **Wi-Fi manager** (`wifi_manager.cpp`) | event group `s_evt` with two public and two private bits, `s_current_state`, `s_info`, degradation streak, the credential in use | `manager_task`: scan, connect with retries, monitor RSSI, roam; `on_wifi_event`, `on_ip_event` on the system event task | driver and event loop (external); registry entry `wifi_manager`; `WM_CONNECTED_BIT` is awaited by `microros_task` |
| **micro-ROS sync** (`microros_sync.cpp`) | task state, backoff, spin failures, `g_mutex`, `g_entities_created`, rcl objects, image buffer | `microros_task`: wait for Wi-Fi, discover, create, spin, tear down, back off; `publishCompressedImage` on the capture task | mDNS, agent, rcl (external); registry entry `microros` |
| **Camera** (`camera_control/`) | control state, sensor flags, capture task, the driver's one frame buffer | initialize, start, stop, captureOnce, start/stop of capture and streaming; `captureLoop` | driver (external); registry entry `camera`; callback `on_camera_frame` |
| **Frame queue** (`main.cpp`) | ten pointers to heap copies | `on_camera_frame` publishes, copies and queues | camera, micro-ROS, HTTP |
| **REST controller** (`controller.cpp`) | none but the queue handle | `/capture`, `/stream`, `/status`, `/hardware`, `/` on the HTTP server's single task | frame queue; clients (external) |
| **Registry** (`state_machine.cpp`) | map from component to state, a mutex | setInitial, changeState, getState, periodic dump | everybody |
| **Network manager, boot** (`network_manager.cpp`, `app_main`) | progress of the start-up | initialise in order, poll the registry until Wi-Fi is connected, start the HTTP server, start the capture | everybody |
| **HttpServer** (`http_server.cpp`) | server handle, handlers | start, stop, register | never instantiated by the application |

What makes it hard:

* **Interleaving.** Manager task and event task write the same bits, the same
  state variables and the same registry entry from two cores, without a lock
  around more than a single write. The capture task publishes on objects that
  `microros_task` creates and destroys outside the mutex.
* **Ordering and timeouts.** Wi-Fi events arrive any time later than the change
  they report; the manager's waits are limited (2 s, 12 s, monitor interval) and
  their outcomes are read from bits that a late event can still set.
* **Partial failure.** Entity creation and memory allocation can fail half way.
* **Limits.** The frame queue is full most of the time; the HTTP server has one
  task; the heap loses what nobody frees.
* **Liveness.** Everything retries for ever and has to get somewhere.

What makes each part correct:

* Wi-Fi manager: the public bits, the registry and `s_info` tell the truth once
  events are handled; a lost link is always noticed; the firmware gets online
  when it can.
* micro-ROS: images only on a live session and from a buffer that holds them;
  no leftovers between attempts; the documented lifecycle; connected when it
  can be.
* Frames: the driver's buffer always comes back, copies are accounted for,
  readers get what was promised.
* Registry: a regular register per component, although it is read without the mutex.
* Camera control: one capture task and one owner of the buffer, whatever is called.
  That its state agrees with the sensor's and with the task is *not* so for every
  order of calls; it should at least be known which calls part them and which mend it.
* Boot: nobody uses what is not initialised.

## Modules

| Module | What it models |
|---|---|
| `WifiManager` | `wifi_manager.cpp`: both tasks, the event group, driver and event queue |
| `MCWifiManager` | values for TLC |
| `WifiManagerProofs` | TLAPS proofs |
| `MicrorosSync` | `microros_sync.cpp`: task and publisher |
| `MicrorosSession` | abstract specification that `MicrorosSync` implements |
| `MCMicrorosSync`, `MicrorosSyncProofs` | values for TLC; TLAPS proofs |
| `FramePipeline` | capture loop, `on_camera_frame`, frame queue, HTTP worker |
| `MCFramePipeline`, `FramePipelineProofs` | values for TLC; TLAPS proofs |
| `CameraControl` | `camera_control.cpp` and `camera_sensor.cpp`: the API and the capture task |
| `MCCameraControl`, `CameraControlProofs` | values for TLC; TLAPS proofs |
| `ScanPick` | `scan_pick_best` and `start_connect` record by record |
| `MCScanPick`, `ScanPickProofs` | values for TLC; TLAPS proofs |
| `StateMachine` | `state_machine.cpp`: the registry as several tasks use it |
| `StateRegister` | abstract specification that `StateMachine` implements |
| `MCStateMachine`, `StateMachineProofs` | values for TLC; TLAPS proofs |
| `Boot` | `app_main`, `NetworkManager`, `wifi_manager_init`, `MicrorosSync::init`/`start`, `CameraManager`; uses `StateRegister` |
| `MCBoot`, `BootProofs` | values for TLC; TLAPS proofs |
| `HttpServer` | `http_server.cpp`: start, stop and the handlers |
| `MCHttpServer`, `HttpServerProofs` | values for TLC; TLAPS proofs |

### WifiManager

The manager task is a program counter `mgr` whose steps are the writes and waits
of `manager_task`, in the code's order: every access to something the event task
also touches is a step of its own. `hnd` is the event task, four steps per event:
clear bits, set bits, `set_wifi_state`, `changeState`. `set_wifi_state` is split
where the code is: `s_current_state` at once, `s_info.state` in the critical
section later (`pub`, `PublishState`). A wait is FreeRTOS's: bits are taken and
cleared at the call if there, otherwise the task blocks and the *setter* takes
and clears them (`SetBits`), or the wait times out. `link` and `evq` are the
driver: every change of the link posts an event that is dispatched any time
later.

`scan_pick_best` is represented by its possible answers; `ScanPick` has it in
detail. The fields of `s_info`
that no property is about, the log and the reporting counters are left out.
`calm` is the environment's promise used by the liveness property: from then on
networks are found, joins succeed, links hold and readings are good, and the two
connection waits do not expire before the event they wait for.

Bounds: two networks (a switch needs two), two attempts per round, two degraded
readings, one good, one weak and one critical reading, at most three undelivered
events (`EventLag`: the outcome of an abandoned attempt, the loss that its
teardown reports and the outcome of the attempt after it; a fourth only repeats
the pattern, and the run holds with four as well). For liveness, where the
symmetry of the networks may not be used, one network, one degraded reading and
two events. `SlowJoin = TRUE` says that a join is not decided in the
few microseconds between `esp_wifi_connect` and the wait that follows it at
priority `configMAX_PRIORITIES - 2`. Without it `NoMissedDisconnect` fails: an
address obtained *and* lost in that window leaves the manager monitoring a dead
link, because line 276 looks at `EVT_GOT_IP` only. No document speaks of this
window, so it is recorded as a hazard.

| Run | Properties | Shows |
|---|---|---|
| `wifi_safety` | `WifiInv`, `BitsFollowLink`, `MonitorSettled`, `NoMissedDisconnect`, `NoticeInv`, `SettledInv`, `StaysOnline`, `CountsDown` | the observers' view agrees with the link; no loss unnoticed; in calm air an established connection is kept, and every step counts down to one |
| `wifi_live` | `Reconnects` | online in the end, from any state; with one network, so that no state in the middle of a switch is among them: those are left to `CountsDown`, which has two |

Fairness: both tasks are scheduled (FreeRTOS priorities 23 and 20
on their cores, and both block rather than spin), waits with a timeout end, a
join in calm air succeeds, a task inside `set_wifi_state` leaves it.

### MicrorosSync and MicrorosSession

`pc` follows `TaskState`, with the steps around the mutex and the teardown in
between; `cam` is the capture task inside `publishCompressedImage`. `live` is the
set of rcl objects; creation of each can fail and the code goes on. `buf` is the
memory really allocated and `cap` what `g_img_buf_capacity` says. A registry write
is merged with the local step before it, as nothing the publisher sees lies
between them. `MicrorosSession` is what the clients may rely on: images begin
only on an open session, a session closes only between images, and the registry
entry walks through README's lifecycle. `SessionSpec` checks, and
`ImplementsSession` proves, that `MicrorosSync` implements it under the mapping
`state <- reg`, `open <- g_entities_created`, `sending <-` between flag check and
the release of the mutex.

Bounds: image lengths 1..3 (equal, growing, shrinking). Everything else is finite
in the code: `backoff_ms` takes its six values.

| Run | Properties | Shows |
|---|---|---|
| `microros` | `SyncInv`, `PublishOnLiveSession`, `BufferHoldsImage`, `CleanRestart`, `SessionSpec`, `SessionNears`, `Connects` | the publisher is safe under every failure; refinement; connected in the end, after one round at most |
| `microros_partial_creation` | `ConnectedHasPublisher` (violated) | finding 1 |

Fairness: both tasks run; strong fairness for taking the mutex, since the capture
task holds it once per frame and waits 100 ms between frames. `spin_some` does not
fail in calm conditions unless the executor is missing. That spinning notices a
restarted agent is a property of the library and not assumed.

### FramePipeline

The capture loop takes the driver's only buffer (`fb_count = 1`), publishes,
copies, queues without waiting and gives the buffer back. The HTTP server's one
task serves one request at a time. A copy is represented by its age: newest,
older, or stale (superseded before the request being served was accepted).
`lost` counts copies that nothing points to: no step of the model or of the code
frees one. The heap has room for `HeapRoom` copies, and the allocation that finds it
full aborts, which reboots the device. That the heap is not exceeded is thus no merit
of the program; what is checked is that only lost copies can fill it
(`AbortsOnlyByLeak`).

Bounds: queue of three instead of ten, two clients (one waits while the other is
served), room for eight copies, which is a full queue, one copy in each task's hand
and three lost ones.

| Run | Properties | Shows |
|---|---|---|
| `pipeline` | `CopiesAccounted`, `AbortsOnlyByLeak`, `CaptureGoesOn`, `StatusAnswered` | memory adds up, the full queue included; an abort takes a heap of lost copies; the HTTP side never stops the capture; a status request waits for nothing but an open stream |
| `pipeline_stale_snapshot` | `SnapshotIsCurrent` (violated) | finding 2 |
| `pipeline_full_heap` | `FullHeapDropsFrame` (violated) | finding 3 |

Fairness: both tasks run and the camera delivers frames; strong fairness per
client, as the server polls its sockets in turn. No client has to close its
stream; `StatusAnswered` has that as its premise. A restart that the lost copies lead
to ends the requests under way unanswered, which `StatusAnswered` allows.

### CameraControl

One action per call of the API, with the early returns as guards, and the capture
task as a second process. There is one caller, as in the application, since the
classes have no lock; `captureOnce` is two steps because it waits for the driver in
between, when a capture task that an earlier `stop()` or `startStreaming()` left
behind may still take frames. `free`, `frame` and `task` say who has the driver's
only buffer. The application itself only initialises and starts the capture; the
run checks every order of calls the public interface allows.

| Run | Properties | Shows |
|---|---|---|
| `camera` | `OneCaptureTask`, `BufferHasOneOwner`, `LostOnlyByDelete`, `StateDivergesByOverlap`, `OnlyStopRecovers` | one task, one owner of the buffer; which calls make `state_` untrue, and what mends it |

Bounds: two names for tasks, so that a second task would show; the rest is finite.

`state_` does not always tell the truth. `stop()` during a capture or a stream leaves
OFF with the task or the stream alive (camera_control.cpp:57-61); `startStreaming()`
looks at `isReady` only (line 97), so that after `stop()` it announces STREAMING, and
`stopStreaming()` then RUNNING, on a stopped sensor; `startStreaming()` over a capture
leaves the capture task, and `startContinuousCapture()` over a stream leaves the
stream. `StateTells` says what would be true, and `StateDivergesByOverlap` that these
overlapping calls are the only steps that end it: no other call, on whichever of its
failure paths, and no step of the capture task does. `OnlyStopRecovers` says what a
caller can do about it: on a stopped sensor that is taken for running `start()` does
nothing (line 44), a capture ends in ERROR, and only `stop()` leads out of either.

`stop()` really leaves the task running, `captureOnce` really drops the callback, and
deleting a task really can lose the buffer: the repository documents no other
intention and the application makes none of these calls, so these are hazards in
`PROJECT.json`, and the properties pin them down without excluding them.

### ScanPick

One scan after the other: the driver's records (`Scan`, with truncation at
`ScanMaxAps` and with a failed `esp_wifi_scan_get_ap_records`, whose result nobody
looks at), the two loops with one step per comparison, the answer, and the name
`start_connect` hands to the driver. Names are model values, readings are 8-bit
integers, and `Stored` is what `strlcpy` leaves of a name. Of the passwords and the
authentication mode no property speaks.

| Run | Properties | Shows |
|---|---|---|
| `scan` | `BestOfSeen`, `AnswerIsStrongest`, `StrongestVisible`, `JoinsStrongest` | the loop invariant; the answer is the first of the strongest known records, and the strongest of the air when nothing was cut off; the driver is told to join it, or nothing, or a name that was cut |

Bounds: four slots as in the code (a name, an empty one, another name, the first
name again), one of the names too long for the driver's field, three access points in the air and room for two, so that the array
overflows; readings -128 (which the strict comparison with the start value never
takes), -90 and -50.

### StateMachine and StateRegister

A call takes the mutex, works, and releases it. A `std::string` of at most 15
characters is assigned in place, characters before length, and `memcpy` moves the
characters piece by piece. A string is modelled by three parts, the front and the back
of its characters and its length, each known by the state it was written for
(`text`): `changeState` writes them in three steps, and the caller of `getState`,
which returns a reference, copies them after the unlock in any order. What the parts
read as (`TextsOf`) is their state if they agree. Otherwise it is no state (`Torn`) or
one of their states, which happens where two names agree in what one lacks; the
comparison of lengths alone would not tell `capturing` from `streaming`
(camera_control.hpp) or `starting` from `shutdown`, which have one length each. In no
component do names mix to the name of a state that has no part in it, since every name
has a character that no other has in that place.

`StateRegister` is a *regular register* per component: a read that no change overlaps
returns the state; one that does returns a state the component had, or was being given,
during the read, or no state. That is what the poll in `NetworkManager::init` relies
on, and what `Boot` uses in place of the registry. A torn answer is harmless there: it
only costs another 500 ms. A new state counts as being given from the first character
on: until the length is written the string may read as the old state or the new one.

| Run | Properties | Shows |
|---|---|---|
| `registry` | `EntriesWhole`, `RegisterSpec`, `CallsReturn` | entries are whole between critical sections; refinement; nobody waits for ever, the dump with its log included |

Bounds: the Wi-Fi entry, which is the only one that two tasks write and a third
reads, with the manager task, the event task, `app_main` and the dump task; three
states, so that one writer has two to choose from. Calls repeat for ever. The names of
the Wi-Fi states differ in length; `ImplementsRegister` is for names of any lengths.

Fairness: every task gets to run, and a task that keeps finding the mutex free at
times gets it in the end: FreeRTOS gives a mutex to the waiter of the highest
priority, and all callers block between their calls.

### Boot

`pc` is the next call of `app_main`; the calls under `ESP_ERROR_CHECK` or
`configASSERT` are a table (`Checked`), and a failure of one is `Restart`, as is a
loss of power at any point: only the NVS partition survives. Calls whose result is
dropped may fail silently. Tasks run from their creation on, so the Wi-Fi entry
changes (`WifiBegin`, `WifiEnd`) while `app_main` is still at work, without the
mutex being held by the poll that reads it. The poll may see a new state from
`WifiBegin` on, and so a connection counts from there.

| Run | Properties | Shows |
|---|---|---|
| `boot` | `NeedsMet`, `ServedOnline`, `BootEnds` | nobody uses what is not initialised; no server before a connection; RUNNING means that the server was started; a boot that nothing disturbs gets through |

Bounds: two of the five routes. Deadlock is not checked: `app_main` returns.

Fairness: `app_main` is scheduled, and in `calm` (no failure, no loss of power, and
a link that comes and stays) the Wi-Fi entry gets to connected, which is
`Reconnects` of `WifiManager`.

### HttpServer

The class has `start`, `stop` and `is_running`, called by one task, and seven
handlers run one at a time by the server's task. It reads frames from the driver
itself, in competition with the capture task. `api` says where `start` or `stop`
is, `worker` where the handler is; `held`, `heap` and `free` say who has what.
`httpd_stop` waits for the handler under way.

| Run | Properties | Shows |
|---|---|---|
| `http` | `TypeOK`, `NothingKept`, `RunningIsTrue`, `StopNears`, `StopReturns` | no path of a handler keeps a frame or memory; the handle is truthful but after a failed undo; once the client is gone the handler only gets nearer to its end, and `stop` returns |

Bounds: one frame buffer, as configured. Fairness: the tasks run; no client has to
leave and nobody has to call `stop`.

README.md says that the web interface is served by this class and lists
`/api/health` and `/api/status`. The application never creates it: `NetworkManager`
starts a server of its own with `Controller`'s handlers, `/status` and `/hardware`
in their place.

## Findings

1. After a failed publisher creation micro-ROS is announced as connected, and
   stays so without ever publishing.
2. `/capture` serves a queued frame, not a direct one; the queue keeps the oldest.
3. HTTP handlers lose every frame copy they serve, and the next `new` on a full
   heap aborts although the code checks for null.

Seen while modelling, and visible in the models, but without a run of their own:

* A critical threshold above the warning threshold, which Kconfig allows, is ignored
  for readings between the two (`MonitorRssi` in `WifiManager`).
* `/status` waits for as long as a stream is open: the server has one task
  (`FramePipeline`; hence the premise of `StatusAnswered`), although README.md:3
  speaks of serving both simultaneously.
* With more than `SCAN_MAX_APS` access points in the air a known network can be
  among those the scan does not look at (`Truncated` in `ScanPick`).
* A network name of 32 characters, the longest allowed, is cut to 31 before joining
  (`Stored` in `ScanPick`), so that such a network is found and never joined.
* state_machine.cpp:46 logs the new state in place of the old: `old_state` is a
  reference to the string that line 45 has assigned.
* The Wi-Fi manager registers itself before the hardware is initialised
  (`Boot`), where main.cpp:53 says "after hardware init".
* main.cpp:78 logs "all tasks running" whether or not they were created
  (`Uncheckedly` in `Boot`). RUNNING itself (line 77) is announced whatever
  `startCapture` returned in line 75; no property of `boot` excludes that.
* `state_` of the camera control can be untrue (`CameraControl`, above).
* `HttpServer::start` succeeds also when some of its endpoints were not registered
  (`RegisterGets`, `RegisterOptions` in `HttpServer`).

## Proofs

All are checked by TLAPS for arbitrary constants under the stated assumptions
(`WifiAssumption`: budgets are positive, readings and thresholds are integers;
`SizesAssumption`: image lengths are positive; `CameraAssumption`: `NoTask` is not
a task; `PipelineAssumption`: the queue has a place, and the heap room for some number
of copies; `ScanAssumption`: readings have 8 bits; `StateMachineAssumption`: a state's
name has a length, which others may share; `BootAssumption`: no answer of the registry
is taken for another;
`BuffersAssumption`: the driver has a buffer).

Each module's type invariant is proved for every value of the constants. TLC checks
it again where it bounds something (`http`) and as a part of `WifiInv` and `SyncInv`.

**`WifiManagerProofs`**: `BitsFollowLink` is not inductive by itself, since it says
nothing while events are pending. `WifiInv` adds why it comes true again:

* `TornDownFirst`: a connection starts only from an idle link, so a link cannot
  change silently underneath an event that is already queued;
* `LastEventTrue`: the youngest unhandled event describes the link as it is;
* `HalfHandled`: between clearing and setting, the bit a handler cleared stays
  clear unless a switch sets it;
* `Switching`: while a switch is under way (from its own write of the bits to the
  disconnect of its *first* attempt) the bits may deny a link that is up;
  `GiveUpRound` cannot happen in that phase because `RETRIES_PER_NET` is positive.

Together with `TypeOK` and `AttemptCounted` these are preserved by every step.
Theorems: `WifiInvariant`, `WifiTypes`, `PublicBitsTellTheLink`.

`NoMissedDisconnect` needs an account of every notice under way, `NoticeInv`:

* `WaitsInPlace`: who sets a bit wakes the manager, so a blocked manager never has
  the bit it waits for behind its back;
* `JoinAwaited`: the only use of `SlowJoin`, a join is undecided before its wait;
* `LossAnnounced`: the loss of a link that the manager takes for up is in the queue,
  in the handler, in the event group, or in the result of the monitor's own wait;
  what an *earlier* wait returned does not count, and the clears of
  `disconnect_blocking` never meet it.

Theorems: `NoticeInvariant` and `NoLossUnnoticed`, with `SlowJoin` as their
hypothesis. What is true without it is `OneRaceLosesTheNotice`: the connection wait
of line 275, begun on a link that is gone already, is the only step of the whole
program after which an announced loss is announced no longer.

`MonitorSettled` needs to know who wrote last, `SettledInv`:

* `YoungestTells`: the youngest event, handled or not, describes the link;
* `NetworkInUse`: from `esp_wifi_connect` to the end of the connection nobody
  chooses another network, and the manager is out of `set_wifi_state`;
* `HandlerStates`: a handled loss has left its mark in `s_current_state`;
* `UpReported`: a used link that is up is reported as soon as the last event is;
* `InfoAgrees`: `set_wifi_state` writes nothing when `s_current_state` is right
  already, even if the other task's delayed write has left something else in
  `s_info`; such a disagreement comes only with a loss still to be handled, which
  corrects both.

Theorems: `SettledInvariant`, `MonitorTellsTheTruth`. They do not use `SlowJoin`.

The safety halves of `Reconnects` are proved as action properties, again without
`SlowJoin`. `ConnectionIsKept`: in calm air no step leads out of an established
connection (`StaysOnline`). `VariantCountsDown`: in calm air every step but the
monitor's polling lowers a variant (`CountsDown`), lexicographically the setbacks
that there can still be (losses not yet handled, in the event group, in a wait's
result, or about to be posted by the next teardown), the manager's steps to the
monitor, and the steps that the events under way will take. A late event may throw
the manager back, but each can do so once, and a teardown posts at most the one loss
that its own wait takes. What is left to `wifi_live` is that fairness makes the steps
happen.

**`MicrorosSyncProofs`**: `SyncInv` relates the mutex holder, the session flag, the
live objects and the registry entry to the phase of the task, and the buffer to
its recorded capacity. From it follow `PublishesOnLiveSession`,
`SyncTypes`, `PublishedImageFits`, `RestartsClean`, and by step simulation
`ImplementsSession`. `SessionComesNearer` is the variant behind `Connects`
(`SessionNears`): in calm conditions each step of the task lowers `StepsLeft`, the
steps to a working session, or stays in one. A session without executor stands
further away than any other phase, as it must fail `SPIN_LIMIT` times (`SpinBudget`)
and start over; no session created in calm conditions is of that kind.

**`CameraControlProofs`**: `CameraInv` joins `OneCaptureTask` and `BufferHasOneOwner`,
which need each other (a returned frame has one owner because one task at most is
alive), with `WaitsRunning`: `captureOnce` waits in the state `running`, without which
it could leave the error state by restarting the capture; and with `HalfTold`, the half
of `StateTells` that every call keeps: CAPTURING has a task and a started sensor,
STREAMING a streaming driver, and all but OFF and ERROR an initialised one. From it the
two action properties follow call by call. Theorems: `CameraInvariant`, `CameraTypes`,
`OneTaskAtMost`, `OneOwner`, `BufferLostOnlyByDelete`, `DivergesOnlyByOverlap`,
`StuckUntilStop`.

**`FramePipelineProofs`**: the types need `CopiesAccounted` (what is deleted was
counted), which in turn needs the types, so the two are one invariant (`PipeInv`). Of
the heap `PipelineTypes` says only what the allocator enforces. `AbortNeedsLeak` adds
that an abort found the heap full (`AbortedFull`): by the account, all but a full queue
and one copy in the worker's hand is then lost. Theorems: `PipelineTypes`,
`EveryCopyAccounted`, `AbortNeedsLeak`.

**`ScanPickProofs`**: `BestOfSeen` is the loop invariant and is inductive together
with `AllSlotsSeen` (an answer comes after the last slot): a comparison adds one
pair to those seen, and is kept only if it beats all of them. Theorems:
`ScanTypes`, `BestSoFar`, `PicksStrongest`, `StrongestIsJoined`, which carries the
answer on to the driver, and `StrongestInTheAir`, which carries it back from the array
to the air: the records are a prefix of the scan, or were never filled in
(`HandedOver`).

**`StateMachineProofs`**: `RegistryInv` adds to the mutual exclusion (`MutexHeld`) where
each call is and what it has written (`CallInPlace`), that every part of a string was
written for the state it had or for the one it is being given (`EntryInv`), and of each
reader (`CopyInv`) that it has seen whatever its entry can show and copied only what it
has seen, and that a read no assignment has overlapped has copied parts of the one
state the entry has, so that a torn answer betrays an overlap (`WholeAnswers`). Nothing
is assumed of the names of the states, so the theorems hold for the entries whose names
share a length as well. In the refinement a change begins with the front of the
characters and ends with the length; the step between them is invisible.
Theorems: `RegistryTypes`, `StringsWhole`, `ImplementsRegister`.

**`BootProofs`**: `BootInv` says what has been made, which tasks and entries there
can be, by the label of `app_main`, and that "connected" in the entry or among what
a poll has seen means a connection since the reset. Theorems: `BootTypes`,
`TasksFindNeeds`, `ServesOnline`.

**`HttpServerProofs`**: `HttpInv` says by the label of the handler what it holds, and
that a handle is only there with a running server. Theorems: `HttpTypes`,
`HandlersKeepNothing`, `RunningTells`, and `HandlerLetsStopReturn`, the variant behind
`StopReturns`: without a client no step of a handler, the stream's loop included,
leads away from its end.

Only model-checked: the liveness properties `Reconnects`, `Connects`, `CaptureGoesOn`,
`StatusAnswered`, `CallsReturn`, `BootEnds` and `StopReturns`, since TLAPS cannot reason
about fairness and `ENABLED`. For `Reconnects`, `Connects` and `StopReturns` what a
step does to the variant is proved, and only that the steps happen is TLC's. Every
invariant and every other action property of the passing runs is proved.

## Plan

*Done*: `WifiManager` (the core: everything else waits for it), `MicrorosSync` with
its abstract session, `FramePipeline`, `CameraControl`, `ScanPick`, `StateMachine`
with its abstract register, `Boot`, `HttpServer`, and proofs about each.

Left:

1. Variants for `BootEnds`, `CallsReturn` and `StatusAnswered`.
2. The composition of `CameraControl` with `MicrorosSync`: a capture task deleted
   while it holds `g_mutex`.
3. `CameraManager`'s own queue of two frames, which the application never fills.

## Not modelled

The HTML, JSON and log texts; driver
register configuration; `CameraManager::internalFrameCallback`;
`NetworkManager::network_task`, which nothing creates; the micro-ROS library's
internal thread safety; the internals of `std::function` and of the registry's map.
`PROJECT.json` lists every component and every hazard with the properties that
cover it.
