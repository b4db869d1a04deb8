------------------------------ MODULE CameraStream ------------------------------
(***************************************************************************)
(* The video of a process in detail: the unique_ptr of mainLoop() and the  *)
(* GStreamer pipelines behind class CameraStream, whose destructor waits,  *)
(* without a timeout, first for the pipeline's state and then for a message*)
(* on its bus.  MainLoop has this as one action, CameraClosed.             *)
(* GStreamer is external: a state change succeeds, or fails with an ERROR  *)
(* on the bus, a playing pipeline may break, and one that plays passes on  *)
(* the EOS it is sent.                                                     *)
(***************************************************************************)
EXTENDS Commands

CONSTANT CommandSequences   \* what the process may be sent

VARIABLES
  commands,               \* in the pipe of the process
  camera,                 \* what the unique_ptr holds
  closing,                \* the pipeline whose destructor runs
  left                    \* mainLoop() has left its loop

vars == <<commands, camera, closing, left>>

None == [state |-> "none", asked |-> FALSE, eos |-> FALSE, bus |-> {}]

(* The constructor does not wait for the state it asks for.                *)
CameraStream == [None EXCEPT !.state = "changing"]

Init ==
  /\ commands \in CommandSequences
  /\ camera = None /\ closing = None
  /\ left = FALSE

-------------------------------------------------------------------------------
(* The loop: the process is not inside a destructor.                       *)
Receives(type) ==
  /\ ~left /\ closing = None
  /\ commands # <<>> /\ Head(commands).type = type
  /\ commands' = Tail(commands)

(* Mutated: the old camera is not destroyed.                               *)
StartVideo_Leaks ==
  /\ Receives("START_VIDEO")
  /\ camera' = CameraStream
  /\ UNCHANGED <<closing, left>>

(* The new pipeline is made before the old one is destroyed.               *)
StartVideo ==
  /\ Receives("START_VIDEO")
  /\ camera' = CameraStream /\ closing' = camera
  /\ UNCHANGED left

StopVideo ==
  /\ Receives("STOP_VIDEO")
  /\ camera' = None /\ closing' = camera
  /\ UNCHANGED left

Exit ==
  /\ Receives("EXIT")
  /\ camera' = None /\ closing' = camera
  /\ left' = TRUE

(* Mutated: with a timeout, after which the change goes on.                *)
StateKnown_Timeout(p) == TRUE

(* gst_element_get_state() returns once the state change is over.          *)
StateKnown(p) == p.state # "changing"

(* Mutated: the end of the stream is left to the server.                   *)
SendsEos_Never(p) == FALSE

SendsEos(p) == p.state = "playing"

GetState ==
  /\ closing # None /\ ~closing.asked
  /\ StateKnown(closing)
  /\ closing' = [closing EXCEPT !.asked = TRUE, !.eos = SendsEos(closing)]
  /\ UNCHANGED <<commands, camera, left>>

(* gst_bus_timed_pop_filtered() returns, and the pipeline is freed.        *)
PopMessage ==
  /\ closing.asked /\ closing.bus # {}
  /\ closing' = None
  /\ UNCHANGED <<commands, camera, left>>

Process == StartVideo \/ StopVideo \/ Exit \/ GetState \/ PopMessage

-------------------------------------------------------------------------------
(* GStreamer: what may become of a pipeline.                               *)
Post(p, message) == [p EXCEPT !.bus = @ \cup {message}]

Changed(p) ==
  IF p.state = "changing"
  THEN {[p EXCEPT !.state = "playing"],
        Post([p EXCEPT !.state = "failed"], "ERROR")}
  ELSE {}

Broken(p)  == IF p.state = "playing" THEN {Post(p, "ERROR")} ELSE {}
Drained(p) == IF p.state = "playing" /\ p.eos THEN {Post(p, "EOS")} ELSE {}

After(p) == Changed(p) \cup Broken(p) \cup Drained(p)

GStreamer ==
  \/ camera' \in After(camera) /\ UNCHANGED <<commands, closing, left>>
  \/ closing' \in After(closing) /\ UNCHANGED <<commands, camera, left>>

(* What GStreamer does not put off for ever.                               *)
Proceeds ==
  /\ closing' \in Changed(closing) \cup Drained(closing)
  /\ UNCHANGED <<commands, camera, left>>

Ended == left /\ closing = None /\ UNCHANGED vars

Next == Process \/ GStreamer \/ Ended

Spec == Init /\ [][Next]_vars

FairSpec == Spec /\ WF_vars(Process) /\ WF_vars(Proceeds)

-------------------------------------------------------------------------------
(* Properties. *)

(* The destructor never waits for a message that nobody will post: when it *)
(* waits at the bus, one is there, or the pipeline plays and has the EOS.  *)
BusAnswers ==
  closing.asked => closing.bus # {} \/ (closing.state = "playing" /\ closing.eos)

(* Whatever the order of the video commands, and whether the video could   *)
(* be started, is broken or runs, the process leaves with no pipeline left.*)
VideoEnds == <>(left /\ camera = None /\ closing = None)

(* The one action MainLoop makes of the destructor is what it comes to:    *)
(* seen from the loop, every step is one of MainLoop or changes nothing.   *)
Alive(p)  == IF p = None THEN 0 ELSE 1
PipeNow   == [w \in Worker |-> IF w = "ue" THEN commands ELSE <<>>]
PlaceNow  ==
  [w \in Worker |->
     IF w # "ue" THEN "starting"
     ELSE IF left THEN IF closing = None THEN "exited" ELSE "exiting"
     ELSE IF closing = None THEN "loop" ELSE "closing"]
AliveNow  == [w \in Worker |-> IF w = "ue" THEN Alive(camera) + Alive(closing)
                               ELSE 0]

ML == INSTANCE MainLoop WITH
        Setups <- {}, HighWaterMark <- 1,
        setup_ <- [stack |-> "mqtt", predeclare_publisher |-> FALSE,
                   lossy |-> FALSE],
        pipe <- PipeNow, pc <- PlaceNow, cameras <- AliveNow

ImplementsMainLoop == [][ML!Step("ue")]_<<PipeNow, PlaceNow, AliveNow>>
===============================================================================
