------------------------------- MODULE MainLoop -------------------------------
(***************************************************************************)
(* The UE and Base processes: mainLoop() of utils/main_loop.cpp with what  *)
(* its callers pass to it, and the ZeroMQ pipe a process reads.  The       *)
(* processes differ in the client they publish with, the publishers it     *)
(* declared, and whether they use the camera.                              *)
(***************************************************************************)
EXTENDS Programs

CONSTANTS
  Setups,                 \* the builds and settings a run may use
  HighWaterMark           \* commands a pipe holds before send() blocks

(* ue_mqtt and base_mqtt, or ue_zenoh and base_zenoh; for Zenoh the        *)
(* setting predeclare_publisher of ue.yaml and base.yaml; for MQTT whether *)
(* the connection to the broker may be missing.                            *)
Setup ==
  [stack : {"mqtt", "zenoh"}, predeclare_publisher : BOOLEAN, lossy : BOOLEAN]

SetupsAssumption == Setups \subseteq Setup /\ HighWaterMark \in Nat \ {0}

VARIABLES
  setup_,                 \* the setup; never changes
  pipe,                   \* pipe[w]: commands sent to w and not received
  pc,                     \* pc[w]: where w is
  cameras                 \* cameras[w]: the video pipelines of w alive

(* "closing" and "exiting": inside ~CameraStream(), in the loop or after   *)
(* it.  "exited": mainLoop() has returned, "crashed": the process has      *)
(* ended with an exception.  What main() does after mainLoop(), and that   *)
(* stopping a client may throw, too, is in Recording.                      *)
Location == {"starting", "loop", "closing", "exiting", "exited", "crashed"}

TypeOK ==
  /\ setup_ \in Setups
  /\ pipe \in [Worker -> Seq(Command)]
  /\ \A w \in Worker : Len(pipe[w]) <= HighWaterMark
  /\ pc \in [Worker -> Location]
  /\ cameras \in [Worker -> Nat]

Init ==
  /\ setup_ \in Setups
  /\ pipe = [w \in Worker |-> <<>>]
  /\ pc = [w \in Worker |-> "starting"]
  /\ cameras = [w \in Worker |-> 0]

Main(w) == Program(w, setup_.stack)

(* The topics for which the client behind send_vda or send_teleop has      *)
(* declared a publisher.                                                   *)
Declared(w, type) ==
  {p[2] : p \in {q \in Main(w).publishers :
                   /\ setup_.predeclare_publisher
                   /\ q[1] = Main(w).sends[type]}}

(* Zenoh::publish: with any publisher declared the topic's has to be there *)
(* (publisher_.at() throws), with none the session puts it.                *)
Publishable(w, c) ==
  Declared(w, c.type) # {} => c.topic \in Declared(w, c.type)

(* Mutated: the UE is started without its camera.                          *)
use_camera_Off(w) == FALSE

use_camera(w) == Main(w).use_camera

-------------------------------------------------------------------------------
(* The process has connected its PULL socket.                              *)
Start(w) ==
  /\ pc[w] = "starting"
  /\ pc' = [pc EXCEPT ![w] = "loop"]
  /\ UNCHANGED <<setup_, pipe, cameras>>

(* The client cannot be connected: its constructor throws in main().       *)
StartFails(w) ==
  /\ pc[w] = "starting"
  /\ setup_.lossy
  /\ pc' = [pc EXCEPT ![w] = "crashed"]
  /\ UNCHANGED <<setup_, pipe, cameras>>

(* ZeroMQ takes a command for w: there is a peer and its pipe has room.    *)
(* Otherwise send() blocks.                                                *)
Accept(w, c) ==
  /\ pc[w] \in {"loop", "closing"}
  /\ Len(pipe[w]) < HighWaterMark
  /\ pipe' = [pipe EXCEPT ![w] = Append(@, c)]
  /\ UNCHANGED <<setup_, pc, cameras>>

(* recv() has returned the command c.                                      *)
Receives(w, c) ==
  /\ pc[w] = "loop"
  /\ pipe[w] # <<>>
  /\ c = Head(pipe[w])
  /\ pipe' = [pipe EXCEPT ![w] = Tail(@)]
  /\ UNCHANGED setup_

Publishes(c) == c.type \in {"PUBLISH_VDA", "PUBLISH_TELEOP"}

Publish(w, c) ==
  /\ Receives(w, c)
  /\ Publishes(c) /\ Publishable(w, c)
  /\ UNCHANGED <<pc, cameras>>

(* The new CameraStream is made before the old one is destroyed.           *)
StartVideo(w, c) ==
  /\ Receives(w, c)
  /\ use_camera(w) /\ c.type = "START_VIDEO"
  /\ cameras' = [cameras EXCEPT ![w] = @ + 1]
  /\ pc' = [pc EXCEPT ![w] = IF cameras[w] > 0 THEN "closing" ELSE @]

(* Mutated: reset() is taken to destroy a camera though there is none.     *)
StopVideo_NoCheck(w, c) ==
  /\ Receives(w, c)
  /\ use_camera(w) /\ c.type = "STOP_VIDEO"
  /\ pc' = [pc EXCEPT ![w] = "closing"]
  /\ UNCHANGED cameras

(* Mutated: the camera is kept.                                            *)
StopVideo_Keeps(w, c) ==
  /\ Receives(w, c)
  /\ use_camera(w) /\ c.type = "STOP_VIDEO"
  /\ UNCHANGED <<pc, cameras>>

StopVideo(w, c) ==
  /\ Receives(w, c)
  /\ use_camera(w) /\ c.type = "STOP_VIDEO"
  /\ pc' = [pc EXCEPT ![w] = IF cameras[w] > 0 THEN "closing" ELSE @]
  /\ UNCHANGED cameras

(* Mutated: the process ends without destroying its camera.                *)
Exit_Abrupt(w, c) ==
  /\ Receives(w, c)
  /\ c.type = "EXIT"
  /\ pc' = [pc EXCEPT ![w] = "exited"]
  /\ UNCHANGED cameras

(* Mutated: the loop is not left.                                          *)
Exit_Continues(w, c) ==
  /\ Receives(w, c)
  /\ c.type = "EXIT"
  /\ UNCHANGED <<pc, cameras>>

(* The loop is left, and with it the scope of the camera.                  *)
Exit(w, c) ==
  /\ Receives(w, c)
  /\ c.type = "EXIT"
  /\ pc' = [pc EXCEPT ![w] = IF cameras[w] > 0 THEN "exiting" ELSE "exited"]
  /\ UNCHANGED cameras

(* An exception no caller of mainLoop() catches: a topic without its       *)
(* publisher, a client that is not connected, a video command to a process *)
(* without camera.  The process ends, and what its pipe held is lost.      *)
Throws(w, c) ==
  \/ Publishes(c) /\ (~Publishable(w, c) \/ setup_.lossy)
  \/ ~use_camera(w) /\ c.type \in {"START_VIDEO", "STOP_VIDEO"}

Crash(w, c) ==
  /\ pc[w] = "loop"
  /\ pipe[w] # <<>>
  /\ c = Head(pipe[w])
  /\ Throws(w, c)
  /\ pc' = [pc EXCEPT ![w] = "crashed"]
  /\ pipe' = [pipe EXCEPT ![w] = <<>>]
  /\ cameras' = [cameras EXCEPT ![w] = 0]
  /\ UNCHANGED setup_

(* ~CameraStream() has seen the end of the stream, or an error.            *)
CameraClosed(w) ==
  /\ pc[w] \in {"closing", "exiting"}
  /\ cameras' = [cameras EXCEPT ![w] = @ - 1]
  /\ pc' = [pc EXCEPT ![w] = IF @ = "closing" THEN "loop" ELSE "exited"]
  /\ UNCHANGED <<setup_, pipe>>

Handle(w, c) ==
  \/ Publish(w, c)
  \/ StartVideo(w, c)
  \/ StopVideo(w, c)
  \/ Exit(w, c)
  \/ Crash(w, c)

Step(w) ==
  \/ Start(w)
  \/ StartFails(w)
  \/ pipe[w] # <<>> /\ Handle(w, Head(pipe[w]))
  \/ CameraClosed(w)
===============================================================================
