--------------------------- MODULE HttpServerProofs ---------------------------
(* Proofs about HttpServer: every way through a handler gives back what it    *)
(* took, for any number of buffers, is_running tells the truth, and nothing   *)
(* but a client that reads on keeps stop waiting.                             *)
EXTENDS HttpServer, TLAPS

\* What a handler has, by where it is.
HandlerInv ==
  /\ held <=> worker = "send"
  /\ "root" \in heap => worker = "print"
  /\ "text" \in heap => worker = "text"
  /\ free + (IF held THEN 1 ELSE 0) + (IF camera THEN 1 ELSE 0) = Buffers

\* What the caller of start and stop may rely on, by where it is.
ServerInv ==
  /\ worker # "idle" => up
  /\ server => up
  /\ api # "idle" => server
  /\ api = "undo" => err
  /\ api = "idle" /\ up /\ ~server => err

HttpInv == TypeOK /\ HandlerInv /\ ServerInv

LEMMA InitHttp == Init => HttpInv
<1> SUFFICES ASSUME Init PROVE HttpInv
  OBVIOUS
<1>1. TypeOK
  <2>1. free \in 0..Buffers
    BY BuffersAssumption DEF Init
  <2>2. req \in Gets \cup Options
    BY DEF Init, Gets
  <2> QED BY <2>1, <2>2 DEF Init, TypeOK
<1>2. HandlerInv
  BY BuffersAssumption DEF Init, HandlerInv
<1>3. ServerInv
  BY DEF Init, ServerInv
<1> QED BY <1>1, <1>2, <1>3 DEF HttpInv

LEMMA HttpStep == HttpInv /\ [Next]_vars => HttpInv'
<1> SUFFICES ASSUME HttpInv, [Next]_vars PROVE HttpInv'
  OBVIOUS
<1> USE BuffersAssumption DEF HttpInv
<1>1. CASE UNCHANGED vars
  BY <1>1 DEF vars, apiVars, workerVars, TypeOK, HandlerInv, ServerInv
<1>2. CASE Start
  BY <1>2 DEF Start, workerVars, TypeOK, HandlerInv, ServerInv
<1>3. CASE RegisterGets
  <2>1. TypeOK'
    BY <1>3 DEF RegisterGets, workerVars, TypeOK
  <2>2. HandlerInv'
    BY <1>3 DEF RegisterGets, workerVars, TypeOK, HandlerInv
  <2>3. ServerInv'
    BY <1>3 DEF RegisterGets, workerVars, TypeOK, ServerInv, HandlerInv
  <2> QED BY <2>1, <2>2, <2>3
<1>4. CASE RegisterOptions
  <2>1. TypeOK'
    BY <1>4 DEF RegisterOptions, workerVars, TypeOK
  <2>2. HandlerInv'
    BY <1>4 DEF RegisterOptions, workerVars, TypeOK, HandlerInv
  <2>3. ServerInv'
    BY <1>4 DEF RegisterOptions, workerVars, TypeOK, ServerInv, HandlerInv
  <2> QED BY <2>1, <2>2, <2>3
<1>5. CASE Started \/ Stop
  <2>1. TypeOK'
    BY <1>5 DEF Started, Stop, workerVars, TypeOK
  <2>2. HandlerInv'
    BY <1>5 DEF Started, Stop, workerVars, HandlerInv
  <2>3. ServerInv'
    BY <1>5 DEF Started, Stop, workerVars, TypeOK, ServerInv
  <2> QED BY <2>1, <2>2, <2>3
<1>6. CASE Undo
  <2>1. TypeOK'
    BY <1>6 DEF Undo, workerVars, TypeOK
  <2>2. HandlerInv'
    BY <1>6 DEF Undo, workerVars, HandlerInv
  <2>3. ServerInv'
    <3>1. /\ api = "registered" /\ err /\ server /\ up
          /\ UNCHANGED <<up, err, worker>>
      BY <1>6 DEF Undo, workerVars, ServerInv
    <3>2. CASE api' = "undo" /\ server' = server
      BY <3>1, <3>2 DEF ServerInv
    <3>3. CASE api' = "idle" /\ server' = FALSE
      BY <3>1, <3>3 DEF ServerInv
    <3> QED BY <1>6, <3>2, <3>3 DEF Undo
  <2> QED BY <2>1, <2>2, <2>3
<1>7. CASE Stopped
  BY <1>7 DEF Stopped, workerVars, TypeOK, HandlerInv, ServerInv
<1>8. CASE Accept
  <2>1. TypeOK'
    BY <1>8 DEF Accept, At, Goto, apiVars, TypeOK
  <2>2. HandlerInv'
    BY <1>8 DEF Accept, At, Goto, apiVars, TypeOK, HandlerInv
  <2>3. ServerInv'
    BY <1>8 DEF Accept, At, Goto, apiVars, TypeOK, ServerInv, HandlerInv
  <2> QED BY <2>1, <2>2, <2>3
<1>9. CASE ClientLeaves
  BY <1>9 DEF ClientLeaves, At, apiVars, TypeOK, HandlerInv, ServerInv
<1>10. CASE SendPage \/ StreamHeader \/ StreamEnd
  <2>1. TypeOK'
    BY <1>10 DEF SendPage, StreamHeader, StreamEnd, At, Goto, apiVars, TypeOK
  <2>2. HandlerInv'
    BY <1>10 DEF SendPage, StreamHeader, StreamEnd, At, Goto, apiVars, TypeOK, HandlerInv
  <2>3. ServerInv'
    BY <1>10 DEF SendPage, StreamHeader, StreamEnd, At, Goto, apiVars, TypeOK, ServerInv, HandlerInv
  <2> QED BY <2>1, <2>2, <2>3
<1>11. CASE GetFrame
  <2>1. TypeOK'
    <3>1. free' \in 0..Buffers
      BY <1>11 DEF GetFrame, At, Goto, apiVars, TypeOK, HandlerInv
    <3>2. /\ worker' \in {"idle", "start", "get", "send", "end", "print", "text"}
          /\ held' \in BOOLEAN /\ camera' \in BOOLEAN
      BY <1>11 DEF GetFrame, At, Goto, apiVars, TypeOK
    <3> QED BY <1>11, <3>1, <3>2 DEF GetFrame, At, Goto, apiVars, TypeOK
  <2>2. HandlerInv'
    BY <1>11 DEF GetFrame, At, Goto, apiVars, TypeOK, HandlerInv
  <2>3. ServerInv'
    BY <1>11 DEF GetFrame, At, Goto, apiVars, TypeOK, ServerInv, HandlerInv
  <2> QED BY <2>1, <2>2, <2>3
<1>12. CASE SendFrame
  <2>1. TypeOK'
    <3>1. free' \in 0..Buffers
      BY <1>12 DEF SendFrame, At, Goto, apiVars, TypeOK, HandlerInv
    <3>2. /\ worker' \in {"idle", "start", "get", "send", "end", "print", "text"}
          /\ held' \in BOOLEAN /\ camera' \in BOOLEAN
      BY <1>12 DEF SendFrame, At, Goto, apiVars, TypeOK
    <3> QED BY <1>12, <3>1, <3>2 DEF SendFrame, At, Goto, apiVars, TypeOK
  <2>2. HandlerInv'
    BY <1>12 DEF SendFrame, At, Goto, apiVars, TypeOK, HandlerInv
  <2>3. ServerInv'
    BY <1>12 DEF SendFrame, At, Goto, apiVars, TypeOK, ServerInv, HandlerInv
  <2> QED BY <2>1, <2>2, <2>3
<1>13. CASE BuildJson
  BY <1>13 DEF BuildJson, At, Goto, apiVars, TypeOK, HandlerInv, ServerInv
<1>14. CASE PrintJson
  BY <1>14 DEF PrintJson, At, Goto, apiVars, TypeOK, HandlerInv, ServerInv
<1>15. CASE SendJson
  BY <1>15 DEF SendJson, At, Goto, apiVars, TypeOK, HandlerInv, ServerInv
<1>16. CASE CameraGets \/ CameraReturns
  <2>1. TypeOK'
    <3>1. free' \in 0..Buffers
      BY <1>16 DEF CameraGets, CameraReturns, apiVars, workerVars, TypeOK, HandlerInv
    <3>2. /\ worker' \in {"idle", "start", "get", "send", "end", "print", "text"}
          /\ held' \in BOOLEAN /\ camera' \in BOOLEAN
      BY <1>16 DEF CameraGets, CameraReturns, apiVars, workerVars, TypeOK
    <3> QED BY <1>16, <3>1, <3>2 DEF CameraGets, CameraReturns, apiVars, workerVars, TypeOK
  <2>2. HandlerInv'
    BY <1>16 DEF CameraGets, CameraReturns, apiVars, workerVars, TypeOK, HandlerInv
  <2>3. ServerInv'
    BY <1>16 DEF CameraGets, CameraReturns, apiVars, workerVars, TypeOK, ServerInv, HandlerInv
  <2> QED BY <2>1, <2>2, <2>3
<1> QED BY <1>1, <1>2, <1>3, <1>4, <1>5, <1>6, <1>7, <1>8, <1>9, <1>10, <1>11, <1>12,
           <1>13, <1>14, <1>15, <1>16 DEF Next, Api, Handler

LEMMA HttpInvariant == Spec => []HttpInv
BY InitHttp, HttpStep, PTL DEF Spec

\* Type correctness of the server class and its handlers.
THEOREM HttpTypes == Spec => []TypeOK
<1>1. HttpInv => TypeOK
  BY DEF HttpInv
<1> QED BY <1>1, HttpInvariant, PTL

\* A handler that is over, on whatever path, has returned its frame and freed its
\* tree and text, and no buffer is lost or doubled.
THEOREM HandlersKeepNothing == Spec => []NothingKept
<1>1. HttpInv => NothingKept
  BY DEF HttpInv, TypeOK, HandlerInv, NothingKept
<1> QED BY <1>1, HttpInvariant, PTL

\* server_ tells whether the server runs, but for a failed undoing of a failed start.
THEOREM RunningTells == Spec => []RunningIsTrue
<1>1. HttpInv => RunningIsTrue
  BY DEF HttpInv, ServerInv, RunningIsTrue
<1> QED BY <1>1, HttpInvariant, PTL

\* Every handler step that stop waits for, once the client is gone, leads closer to
\* the end of the handler: the stream's loop is left at its next send.
THEOREM HandlerLetsStopReturn == Spec => StopNears
<1>1. TypeOK /\ Next /\ ~client /\ api \in {"stop", "undo"} => HandlerNears
  <2> SUFFICES ASSUME TypeOK, Next, api \in {"stop", "undo"}, ~client
               PROVE  HandlerNears
    OBVIOUS
  <2> USE DEF At, Goto, workerVars, HandlerNears
  <2>1. /\ HandlerLeft["idle"] = 0 /\ HandlerLeft["end"] = 1 /\ HandlerLeft["text"] = 1
        /\ HandlerLeft["send"] = 2 /\ HandlerLeft["print"] = 2 /\ HandlerLeft["get"] = 3
        /\ HandlerLeft["start"] = 4
    BY DEF HandlerLeft
  <2>2. CASE Start \/ Stop \/ Api \/ CameraGets \/ CameraReturns
    BY <2>2 DEF Start, Stop, Api, RegisterGets, RegisterOptions, Started, Undo, Stopped,
       CameraGets, CameraReturns
  <2>3. CASE Accept \/ ClientLeaves
    BY <2>3 DEF Accept, ClientLeaves
  <2>4. CASE Handler
    <3>1. UNCHANGED client
      BY <2>4 DEF Handler, SendPage, StreamHeader, GetFrame, SendFrame, StreamEnd,
         BuildJson, PrintJson, SendJson
    <3>2. \/ worker = "start" /\ worker' \in {"idle", "get", "send", "end", "print"}
          \/ worker = "get" /\ worker' \in {"send", "end", "idle"}
          \/ worker = "send" /\ worker' \in {"end", "idle"}
          \/ worker = "print" /\ worker' \in {"text", "idle"}
          \/ worker \in {"end", "text"} /\ worker' = "idle"
      BY <2>4 DEF Handler, SendPage, StreamHeader, GetFrame, SendFrame, StreamEnd,
         BuildJson, PrintJson, SendJson
    <3> QED BY <2>1, <3>1, <3>2
  <2> QED BY <2>2, <2>3, <2>4 DEF Next
<1> QED BY <1>1, HttpTypes, PTL DEF Spec, StopNears
=============================================================================
