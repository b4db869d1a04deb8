------------------------------ MODULE CameraProofs ------------------------------
(***************************************************************************)
(* The destructor of CameraStream never waits for a message nobody posts,  *)
(* and MainLoop's one action for it is what it comes to, for all sequences *)
(* of video commands.                                                      *)
(***************************************************************************)
EXTENDS CameraStream, TLAPS

Pipeline ==
  [state : {"none", "changing", "playing", "failed"},
   asked : BOOLEAN, eos : BOOLEAN, bus : SUBSET {"ERROR", "EOS"}]

(* A pipeline that failed has said so; one that was asked for its state    *)
(* has a message, or plays and has been sent the end of the stream.        *)
PipelineOK(p) ==
  /\ p \in Pipeline
  /\ p.state = "none" <=> p = None
  /\ p.state = "failed" => p.bus # {}
  /\ p.asked => p.bus # {} \/ (p.state = "playing" /\ p.eos)

CameraInv == PipelineOK(camera) /\ PipelineOK(closing)

(* What GStreamer does to a pipeline keeps it in order.                    *)
LEMMA AfterOK ==
  ASSUME NEW p, PipelineOK(p), NEW q \in After(p)
  PROVE  PipelineOK(q) /\ p # None /\ q # None
<1>1. CASE q \in Changed(p)
  <2>1. p.state = "changing"
    BY <1>1 DEF Changed
  <2>2. CASE q = [p EXCEPT !.state = "playing"]
    BY <2>1, <2>2 DEF PipelineOK, Pipeline, None
  <2>3. CASE q = Post([p EXCEPT !.state = "failed"], "ERROR")
    BY <2>1, <2>3 DEF PipelineOK, Pipeline, None, Post
  <2> QED
    BY <1>1, <2>1, <2>2, <2>3 DEF Changed
<1>2. CASE q \in Broken(p)
  BY <1>2 DEF Broken, PipelineOK, Pipeline, None, Post
<1>3. CASE q \in Drained(p)
  BY <1>3 DEF Drained, PipelineOK, Pipeline, None, Post
<1> QED
  BY <1>1, <1>2, <1>3 DEF After

LEMMA FreshOK == PipelineOK(None) /\ PipelineOK(CameraStream) /\ CameraStream # None
BY DEF PipelineOK, Pipeline, None, CameraStream

LEMMA CameraStep ==
  ASSUME CameraInv, [Next]_vars
  PROVE  CameraInv'
<1>1. CASE StartVideo
  BY <1>1, FreshOK DEF StartVideo, CameraInv
<1>2. CASE StopVideo \/ Exit
  BY <1>2, FreshOK DEF StopVideo, Exit, CameraInv
<1>3. CASE GetState
  <2>1. closing.state \in {"playing", "failed"}
    BY <1>3 DEF GetState, StateKnown, CameraInv, PipelineOK, Pipeline
  <2>2. PipelineOK(closing')
    BY <1>3, <2>1 DEF GetState, SendsEos, CameraInv, PipelineOK, Pipeline, None
  <2> QED
    BY <1>3, <2>2 DEF GetState, CameraInv
<1>4. CASE PopMessage
  BY <1>4, FreshOK DEF PopMessage, CameraInv
<1>5. CASE GStreamer
  BY <1>5, AfterOK DEF GStreamer, CameraInv
<1>6. CASE Ended \/ UNCHANGED vars
  BY <1>6 DEF Ended, vars, CameraInv
<1> QED
  BY <1>1, <1>2, <1>3, <1>4, <1>5, <1>6 DEF Next, Process

THEOREM CameraInvariant == Spec => []CameraInv
<1>1. Init => CameraInv
  BY FreshOK DEF Init, CameraInv
<1> QED
  BY <1>1, CameraStep, PTL DEF Spec

(* The destructor's wait at the bus is answered: an error is there or a    *)
(* playing pipeline has been sent the end of the stream (camera_stream.h   *)
(* sends it only "if pipeline could get into playing state").              *)
THEOREM BusIsAnswered == Spec => []BusAnswers
<1>1. CameraInv => BusAnswers
  BY DEF CameraInv, PipelineOK, BusAnswers
<1> QED
  BY <1>1, CameraInvariant, PTL

-------------------------------------------------------------------------------
(* MainLoop's view of the process. *)

View == <<PipeNow, PlaceNow, AliveNow>>

(* The view is a function of what the ue has: the rest never changes.      *)
LEMMA Seen ==
  /\ PipeNow["ue"] = commands
  /\ PlaceNow["ue"] = IF left THEN IF closing = None THEN "exited" ELSE "exiting"
                      ELSE IF closing = None THEN "loop" ELSE "closing"
  /\ AliveNow["ue"] = Alive(camera) + Alive(closing)
BY DEF PipeNow, PlaceNow, AliveNow, Worker

LEMMA SeenNext ==
  /\ PipeNow' = [PipeNow EXCEPT !["ue"] = commands']
  /\ PlaceNow' = [PlaceNow EXCEPT !["ue"] =
                   IF left' THEN IF closing' = None THEN "exited" ELSE "exiting"
                   ELSE IF closing' = None THEN "loop" ELSE "closing"]
  /\ AliveNow' = [AliveNow EXCEPT !["ue"] = Alive(camera') + Alive(closing')]
<1>1. PipeNow' = [PipeNow EXCEPT !["ue"] = commands']
  BY DEF PipeNow
<1>2. PlaceNow' = [PlaceNow EXCEPT !["ue"] =
                   IF left' THEN IF closing' = None THEN "exited" ELSE "exiting"
                   ELSE IF closing' = None THEN "loop" ELSE "closing"]
  BY DEF PlaceNow
<1>3. AliveNow' = [AliveNow EXCEPT !["ue"] = Alive(camera') + Alive(closing')]
  BY DEF AliveNow, Alive
<1> QED
  BY <1>1, <1>2, <1>3

LEMMA SeenKept ==
  /\ [PlaceNow EXCEPT !["ue"] = PlaceNow["ue"]] = PlaceNow
  /\ [AliveNow EXCEPT !["ue"] = AliveNow["ue"]] = AliveNow
BY DEF PlaceNow, AliveNow

(* A step that keeps the commands, the place and the number of pipelines   *)
(* is not seen.                                                            *)
LEMMA Unseen ==
  ASSUME UNCHANGED <<commands, left>>,
         camera' = None <=> camera = None,
         closing' = None <=> closing = None
  PROVE  UNCHANGED View
BY DEF View, PipeNow, PlaceNow, AliveNow, Alive

LEMMA UsesCamera == ML!use_camera("ue")
BY DEF ML!use_camera, ML!Main, ML!Program, ML!ue_mqtt

LEMMA ViewStep ==
  ASSUME CameraInv, [Next]_vars
  PROVE  [ML!Step("ue")]_View
<1> USE DEF Alive
<1>1. ASSUME NEW type, Receives(type)
      PROVE  /\ PipeNow["ue"] # <<>> /\ Head(PipeNow["ue"]).type = type
             /\ ML!Receives("ue", Head(PipeNow["ue"]))
             /\ AliveNow["ue"] = Alive(camera)
             /\ PlaceNow["ue"] = "loop"
  BY <1>1, Seen, SeenNext DEF Receives, ML!Receives
<1>0. /\ Alive(None) = 0 /\ Alive(CameraStream) = 1
      /\ Alive(camera) \in {0, 1}
      /\ Alive(camera) > 0 <=> camera # None
  BY FreshOK
<1>2. CASE StartVideo
  <2>1. Receives("START_VIDEO") /\ camera' = CameraStream /\ closing' = camera /\ ~left'
    BY <1>2 DEF StartVideo, Receives
  <2>2. AliveNow' = [AliveNow EXCEPT !["ue"] = AliveNow["ue"] + 1]
    <3>1. AliveNow["ue"] + 1 = Alive(camera') + Alive(closing')
      BY <1>0, <1>1, <2>1
    <3> QED
      BY <3>1, SeenNext
  <2>3. PlaceNow' = [PlaceNow EXCEPT !["ue"] =
                       IF AliveNow["ue"] > 0 THEN "closing" ELSE PlaceNow["ue"]]
    <3>1. AliveNow["ue"] > 0 <=> closing' # None
      BY <1>0, <1>1, <2>1
    <3> QED
      BY <3>1, <1>1, <2>1, SeenNext
  <2>4. ML!StartVideo("ue", Head(PipeNow["ue"]))
    BY <1>1, <2>1, <2>2, <2>3, UsesCamera DEF ML!StartVideo
  <2> QED
    BY <1>1, <2>1, <2>4 DEF ML!Step, ML!Handle
<1>3. CASE StopVideo
  <2>1. Receives("STOP_VIDEO") /\ camera' = None /\ closing' = camera /\ ~left'
    BY <1>3 DEF StopVideo, Receives
  <2>2. AliveNow' = AliveNow
    BY <1>1, <2>1, SeenNext, SeenKept
  <2>3. PlaceNow' = [PlaceNow EXCEPT !["ue"] =
                       IF AliveNow["ue"] > 0 THEN "closing" ELSE PlaceNow["ue"]]
    <3>1. AliveNow["ue"] > 0 <=> closing' # None
      BY <1>0, <1>1, <2>1
    <3> QED
      BY <3>1, <1>1, <2>1, SeenNext
  <2>4. ML!StopVideo("ue", Head(PipeNow["ue"]))
    BY <1>1, <2>1, <2>2, <2>3, UsesCamera DEF ML!StopVideo
  <2> QED
    BY <1>1, <2>1, <2>4 DEF ML!Step, ML!Handle
<1>4. CASE Exit
  <2>1. Receives("EXIT") /\ camera' = None /\ closing' = camera /\ left'
    BY <1>4 DEF Exit
  <2>2. AliveNow' = AliveNow
    BY <1>1, <2>1, SeenNext, SeenKept
  <2>3. PlaceNow' = [PlaceNow EXCEPT !["ue"] =
                       IF AliveNow["ue"] > 0 THEN "exiting" ELSE "exited"]
    <3>1. AliveNow["ue"] > 0 <=> closing' # None
      BY <1>0, <1>1, <2>1
    <3> QED
      BY <3>1, <1>1, <2>1, SeenNext
  <2>4. ML!Exit("ue", Head(PipeNow["ue"]))
    BY <1>1, <2>1, <2>2, <2>3 DEF ML!Exit
  <2> QED
    BY <1>1, <2>1, <2>4 DEF ML!Step, ML!Handle
<1>5. CASE GetState
  <2>1. closing' # None
    BY <1>5 DEF GetState, CameraInv, PipelineOK, Pipeline, None
  <2> QED
    BY <1>5, <2>1, Unseen DEF GetState
<1>6. CASE PopMessage
  <2>1. closing # None
    BY <1>6 DEF PopMessage, None
  <2>2. closing' = None /\ UNCHANGED <<commands, camera, left>>
    BY <1>6 DEF PopMessage
  <2>3. AliveNow' = [AliveNow EXCEPT !["ue"] = AliveNow["ue"] - 1]
    BY <2>1, <2>2, Seen, SeenNext
  <2>4. /\ PlaceNow["ue"] \in {"closing", "exiting"}
        /\ PlaceNow' = [PlaceNow EXCEPT !["ue"] =
                          IF PlaceNow["ue"] = "closing" THEN "loop" ELSE "exited"]
    BY <2>1, <2>2, Seen, SeenNext
  <2>5. PipeNow' = PipeNow
    BY <2>2 DEF PipeNow
  <2>6. ML!CameraClosed("ue")
    BY <2>3, <2>4, <2>5 DEF ML!CameraClosed
  <2> QED
    BY <2>6 DEF ML!Step
<1>7. CASE GStreamer
  BY <1>7, AfterOK, Unseen DEF GStreamer, CameraInv
<1>8. CASE Ended \/ UNCHANGED vars
  BY <1>8, Unseen DEF Ended, vars
<1> QED
  BY <1>2, <1>3, <1>4, <1>5, <1>6, <1>7, <1>8 DEF Next, Process

(* Every step of the detailed camera is a step of the ue in MainLoop, whose*)
(* CameraClosed stands for the two waits of the destructor, or is not seen *)
(* there.                                                                  *)
THEOREM CameraRefinement == Spec => ImplementsMainLoop
<1>1. CameraInv /\ [Next]_vars => [ML!Step("ue")]_View
  BY ViewStep
<1>2. CameraInv /\ [Next]_vars => [ML!Step("ue")]_<<PipeNow, PlaceNow, AliveNow>>
  BY <1>1 DEF View
<1> QED
  BY <1>2, CameraInvariant, PTL DEF Spec, ImplementsMainLoop
===============================================================================
