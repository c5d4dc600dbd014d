------------------------------ MODULE HttpServer ------------------------------
(***************************************************************************)
(* The class HttpServer (http_server.cpp): start and stop, called by one   *)
(* task, and the handlers, run one at a time by the task of the server     *)
(* while the camera's capture task uses the same driver buffers.           *)
(*                                                                         *)
(* esp_http_server and the camera driver are external.  httpd_stop sends   *)
(* the server's task a message, which may fail, and waits for the end of   *)
(* the handler under way.  A second server cannot be started: port and     *)
(* control socket are taken.  The text of the pages is left out.           *)
(***************************************************************************)
EXTENDS Integers

CONSTANT Buffers  \* fb_count of the driver

ASSUME BuffersAssumption == Buffers \in Nat \ {0}

Gets == {"/", "/capture", "/stream", "/api/health", "/api/status"}
Json == {"/api/health", "/api/status"}
Options == {"OPTIONS /api/health", "OPTIONS /api/status"}

VARIABLES
  server,   \* server_ is not null
  up,       \* the server's task runs
  api,      \* where the caller of start or stop is
  err,      \* what start has got from register_uri_handlers is an error
  routes,   \* the handlers registered
  worker,   \* where the server's task is in its handler
  req,      \* the route it handles
  client,   \* its client still reads
  free,     \* buffers in the driver
  held,     \* the handler has one (fb)
  camera,   \* the capture task has one
  heap      \* what the handler has allocated: the tree, the text

apiVars == <<server, up, api, err, routes>>
workerVars == <<worker, req, client, held, heap>>
vars == <<apiVars, workerVars, free, camera>>

TypeOK ==
  /\ server \in BOOLEAN /\ up \in BOOLEAN /\ err \in BOOLEAN
  /\ api \in {"idle", "gets", "options", "registered", "undo", "stop"}
  /\ routes \subseteq Gets \cup Options
  /\ worker \in {"idle", "start", "get", "send", "end", "print", "text"}
  /\ req \in Gets \cup Options /\ client \in BOOLEAN
  /\ free \in 0..Buffers /\ held \in BOOLEAN /\ camera \in BOOLEAN
  /\ heap \subseteq {"root", "text"}

Init ==
  /\ server = FALSE /\ up = FALSE /\ api = "idle" /\ err = FALSE /\ routes = {}
  /\ worker = "idle" /\ req = "/" /\ client = FALSE
  /\ free = Buffers /\ held = FALSE /\ camera = FALSE
  /\ heap = {}

-----------------------------------------------------------------------------
(* start and stop.  A call that returns early changes nothing and is no step. *)

Start ==
  /\ api = "idle" /\ ~server /\ ~up
  /\ server' = TRUE /\ up' = TRUE /\ routes' = {} /\ err' = FALSE
  /\ api' = "gets"
  /\ UNCHANGED <<workerVars, free, camera>>

\* Nobody looks at what these registrations return.
RegisterGets ==
  /\ api = "gets"
  /\ \E R \in SUBSET Gets : routes' = R
  /\ api' = "options"
  /\ UNCHANGED <<server, up, err, workerVars, free, camera>>

\* last_err is the result of the last registration.
RegisterOptions ==
  /\ api = "options"
  /\ \E R \in SUBSET Options :
       routes' = routes \cup R /\ err' = ("OPTIONS /api/status" \notin R)
  /\ api' = "registered"
  /\ UNCHANGED <<server, up, workerVars, free, camera>>

Started ==
  /\ api = "registered" /\ ~err
  /\ api' = "idle"
  /\ UNCHANGED <<server, up, err, routes, workerVars, free, camera>>

\* The failed start stops the server; if that fails too, the server runs on
\* and its handle is forgotten.
Undo ==
  /\ api = "registered" /\ err
  /\ \/ api' = "undo" /\ UNCHANGED server
     \/ api' = "idle" /\ server' = FALSE
  /\ UNCHANGED <<up, err, routes, workerVars, free, camera>>

Stop ==
  /\ api = "idle" /\ server
  /\ api' = "stop"
  /\ UNCHANGED <<server, up, err, routes, workerVars, free, camera>>

\* Mutant of Stopped: the handle is kept.
StoppedKeepsHandle ==
  /\ api \in {"undo", "stop"} /\ worker = "idle"
  /\ up' = FALSE /\ routes' = {} /\ api' = "idle"
  /\ UNCHANGED <<server, err, workerVars, free, camera>>

Stopped ==
  /\ api \in {"undo", "stop"} /\ worker = "idle"
  /\ up' = FALSE /\ routes' = {} /\ server' = FALSE
  /\ api' = "idle"
  /\ UNCHANGED <<err, workerVars, free, camera>>

-----------------------------------------------------------------------------
(* The server's task *)

At(l) == worker = l
Goto(l) == worker' = l

\* The message of httpd_stop comes before the next request.
Accept ==
  /\ At("idle") /\ up /\ api \notin {"undo", "stop"}
  /\ req' \in routes
  /\ client' = TRUE
  /\ Goto("start")
  /\ UNCHANGED <<apiVars, held, heap, free, camera>>

ClientLeaves ==
  /\ client /\ ~At("idle")
  /\ client' = FALSE
  /\ UNCHANGED <<apiVars, worker, req, held, heap, free, camera>>

\* root_handler and options_handler.
SendPage ==
  /\ At("start") /\ req \in {"/"} \cup Options
  /\ Goto("idle")
  /\ UNCHANGED <<apiVars, req, client, held, heap, free, camera>>

StreamHeader ==
  /\ At("start") /\ req = "/stream"
  /\ Goto("get")
  /\ UNCHANGED <<apiVars, req, client, held, heap, free, camera>>

\* esp_camera_fb_get waits for a buffer and a picture, and gives up in the end:
\* /capture answers 500, the stream is closed.
GetFrame ==
  /\ At("get") \/ (At("start") /\ req = "/capture")
  /\ \/ free > 0 /\ free' = free - 1 /\ held' = TRUE /\ Goto("send")
     \/ Goto(IF req = "/stream" THEN "end" ELSE "idle") /\ UNCHANGED <<free, held>>
  /\ UNCHANGED <<apiVars, req, client, heap, camera>>

\* Mutant of SendFrame: the frame is returned at the break as well.
SendFrameTwice ==
  /\ At("send")
  /\ free' = free + (IF req = "/stream" /\ ~client THEN 2 ELSE 1) /\ held' = FALSE
  /\ \/ client /\ Goto(IF req = "/stream" THEN "get" ELSE "idle")
     \/ Goto(IF req = "/stream" THEN "end" ELSE "idle")
  /\ UNCHANGED <<apiVars, req, client, heap, camera>>

\* Mutant of SendFrame: the break comes before the frame is returned.
SendFrameLeaks ==
  /\ At("send")
  /\ \/ /\ client /\ Goto(IF req = "/stream" THEN "get" ELSE "idle")
        /\ free' = free + 1 /\ held' = FALSE
     \/ Goto(IF req = "/stream" THEN "end" ELSE "idle") /\ UNCHANGED <<free, held>>
  /\ UNCHANGED <<apiVars, req, client, heap, camera>>

\* Mutant of SendFrame: the stream goes on after an error.
SendFrameOnAndOn ==
  /\ At("send")
  /\ free' = free + 1 /\ held' = FALSE
  /\ Goto(IF req = "/stream" THEN "get" ELSE "idle")
  /\ UNCHANGED <<apiVars, req, client, heap, camera>>

\* The frame is returned whatever the sending gives; an error ends the stream.
SendFrame ==
  /\ At("send")
  /\ free' = free + 1 /\ held' = FALSE
  /\ \/ client /\ Goto(IF req = "/stream" THEN "get" ELSE "idle")
     \/ Goto(IF req = "/stream" THEN "end" ELSE "idle")
  /\ UNCHANGED <<apiVars, req, client, heap, camera>>

StreamEnd ==
  /\ At("end")
  /\ Goto("idle")
  /\ UNCHANGED <<apiVars, req, client, held, heap, free, camera>>

\* cJSON_CreateObject may return null; adding to null does nothing.
BuildJson ==
  /\ At("start") /\ req \in Json
  /\ heap' \in {{}, {"root"}}
  /\ Goto("print")
  /\ UNCHANGED <<apiVars, req, client, held, free, camera>>

\* The text may not come about; the tree is deleted in any case.
PrintJson ==
  /\ At("print")
  /\ \/ "root" \in heap /\ heap' = {"text"} /\ Goto("text")
     \/ heap' = {} /\ Goto("idle")
  /\ UNCHANGED <<apiVars, req, client, held, free, camera>>

SendJson ==
  /\ At("text")
  /\ heap' = heap \ {"text"}
  /\ Goto("idle")
  /\ UNCHANGED <<apiVars, req, client, held, free, camera>>

-----------------------------------------------------------------------------
\* captureLoop, as in CameraControl.
CameraGets ==
  /\ ~camera /\ free > 0
  /\ free' = free - 1 /\ camera' = TRUE
  /\ UNCHANGED <<apiVars, workerVars>>

CameraReturns ==
  /\ camera
  /\ free' = free + 1 /\ camera' = FALSE
  /\ UNCHANGED <<apiVars, workerVars>>

Api == RegisterGets \/ RegisterOptions \/ Started \/ Undo \/ Stopped
Handler ==
  \/ SendPage \/ StreamHeader \/ GetFrame \/ SendFrame \/ StreamEnd
  \/ BuildJson \/ PrintJson \/ SendJson

Next ==
  \/ Start \/ Stop \/ Api
  \/ Accept \/ ClientLeaves \/ Handler
  \/ CameraGets \/ CameraReturns

Spec == Init /\ [][Next]_vars

\* Every task gets to run; nobody has to call start or stop, and no client has
\* to leave.
FairSpec == Spec /\ WF_vars(Api) /\ WF_vars(Handler) /\ WF_vars(CameraReturns)

-----------------------------------------------------------------------------
(* Properties *)

\* Every way through a handler gives back the frame and frees what it has
\* allocated (lines 189, 222, 250 and 257), or the camera, whose capture task
\* shares the buffers, and the heap run dry request by request.
NothingKept ==
  /\ worker = "idle" => ~held /\ heap = {}
  /\ free + (IF held THEN 1 ELSE 0) + (IF camera THEN 1 ELSE 0) = Buffers

\* is_running never says yes of a server that is gone; it says no of one that
\* runs only when both the registration and the stop that was to undo the start
\* have failed (line 46).  No handler runs without a server, so when stop has
\* returned ESP_OK nothing uses what the handlers use.
RunningIsTrue ==
  /\ worker # "idle" => up
  /\ server => up
  /\ api = "idle" /\ up /\ ~server => err

\* The steps a handler may still take once its client is gone.
HandlerLeft == [idle |-> 0, end |-> 1, text |-> 1, send |-> 2, print |-> 2,
                get |-> 3, start |-> 4]

\* The handler gets nearer to its end, or stays where it is.
HandlerNears ==
  UNCHANGED client /\ (worker' = worker \/ HandlerLeft[worker'] < HandlerLeft[worker])

\* While stop waits and the client is gone, the handler never starts over: neither
\* the loop of the stream nor a further request keeps httpd_stop from its end.
StopNears == [][~client /\ api \in {"stop", "undo"} => HandlerNears]_vars

\* httpd_stop waits for the handler; the stream handler has no other end than a
\* failed send or a missing frame.  Once the client is gone stop returns.
StopReturns ==
  api \in {"stop", "undo"} /\ (client => worker = "idle") ~> api = "idle"
=============================================================================
