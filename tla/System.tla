-------------------------------- MODULE System --------------------------------
(***************************************************************************)
(* The Controller, the two pipes, and the UE and Base processes together:  *)
(* every interleaving of three processes that share nothing but the pipes. *)
(***************************************************************************)
EXTENDS Controller

CONSTANTS Setups, HighWaterMark

VARIABLES setup_, pipe, pc, cameras

W == INSTANCE MainLoop

ASSUME WorkersAssumption == W!SetupsAssumption

workerVars == <<setup_, pipe, pc, cameras>>
sysVars    == <<vars, workerVars>>

SysInit == Init /\ W!Init

(* The Controller's thread, outside send().                                *)
Simulate ==
  /\ \E e \in events : Handler(e)
  /\ UNCHANGED workerVars

(* ControllerInterfaceZmq::executeCommand: send() returns when the pipe of *)
(* the command's process has taken it.                                     *)
executeCommand ==
  /\ Send
  /\ W!Accept(Head(out).to, Head(out))

Execute(w) ==
  /\ W!Step(w)
  /\ UNCHANGED vars

Done == Finished /\ \A w \in Worker : pc[w] = "exited"

SysTerminated == Done /\ UNCHANGED sysVars

SysNext ==
  \/ Simulate
  \/ executeCommand
  \/ \E w \in Worker : Execute(w)
  \/ SysTerminated

SysSpec == SysInit /\ [][SysNext]_sysVars

(* Each process keeps running; ~CameraStream() returns.                    *)
SysFairSpec ==
  /\ SysSpec
  /\ WF_sysVars(Simulate)
  /\ WF_sysVars(executeCommand)
  /\ \A w \in Worker : WF_sysVars(Execute(w))

-------------------------------------------------------------------------------
(* Properties. *)

(* The types.  What is not the shape of the model: no pipe overflows and   *)
(* no camera is destroyed that is not there.                               *)
WorkersTypeOK == W!TypeOK

(* No command ends a process: every topic published has its publisher, and *)
(* video commands go to a process with a camera only.  README: "The Base   *)
(* and UE execute these commands".                                         *)
NoCrash == \A w \in Worker : pc[w] # "crashed"

(* What can end a process all the same: a missing MQTT connection, or      *)
(* publishers that Zenoh declares ahead in a run with teleoperation.       *)
(* Without teleoperation the programs' lists of topics have all that       *)
(* agv.cpp publishes.                                                      *)
CrashHasCause ==
  \/ NoCrash
  \/ setup_.lossy
  \/ /\ setup_.stack = "zenoh" /\ setup_.predeclare_publisher
     /\ cfg_.scenario = "TELEOP"

(* A process leaves only when the Controller is through with the           *)
(* simulation, nothing is left unexecuted, and its video is off.           *)
CleanExit ==
  \A w \in Worker : pc[w] = "exited" =>
    /\ ~running
    /\ pipe[w] = <<>>
    /\ cameras[w] = 0
    /\ \A i \in 1..Len(out) : out[i].to # w

(* There is never a second video pipeline, though START_VIDEO would make   *)
(* one while the first still runs: the delayed sendTeleoperationState of a *)
(* start and that of a stop never both find teleoperation on.              *)
OneCamera == \A w \in Worker : cameras[w] <= 1

(* Base commands the robot only between asking for teleoperation and       *)
(* ending it, however far it is behind: of what is still ahead of it, in   *)
(* its pipe or not yet sent, no command follows the end, and none comes    *)
(* before the request.                                                     *)
ControlBracketed ==
  LET todo == pipe["base"] \o out
  IN  \A i, j \in DOMAIN todo : i < j =>
        /\ ~(Said(todo[i]) = "stopTeleoperation" /\ Said(todo[j]) = "control")
        /\ ~(Said(todo[i]) = "control" /\ Said(todo[j]) = "startTeleoperation")

(* When the UE has caught up (no teleoperation state pending, nothing      *)
(* unsent or in the pipe) its video runs exactly while teleoperating,      *)
(* also when teleoperation stopped before its start was announced.         *)
UeCaughtUp ==
  /\ EventsOf("sendTeleoperationState") = {}
  /\ out = <<>> /\ pipe["ue"] = <<>> /\ pc["ue"] = "loop"

VideoFollowsTeleoperation ==
  UeCaughtUp => (cameras["ue"] = 1 <=> teleoperating_)

(* Everything ends: both processes are told to exit, and do.               *)
AllExit == <>Done

(* When a process fails the run either ends all the same (the process had  *)
(* its EXIT) or the Controller stands in the next send() to that process:  *)
(* it never runs on without it, and no third way of standing still exists. *)
Over    == Finished /\ \A w \in Worker : pc[w] \in {"exited", "crashed"}
Stalled == out # <<>> /\ pc[Head(out).to] = "crashed"

EndsOrStalls == <>(Over \/ Stalled)

(* What each can do next: the Controller run its next event, send() return *)
(* as its peer is there with room in its pipe, a process go on.            *)
Simulates == out = <<>> /\ running /\ \E e \in events : IsNext(e, events)

Returns ==
  /\ out # <<>>
  /\ pc[Head(out).to] \in {"loop", "closing"}
  /\ Len(pipe[Head(out).to]) < HighWaterMark

Moves(w) ==
  \/ pc[w] \in {"starting", "closing", "exiting"}
  \/ pc[w] = "loop" /\ pipe[w] # <<>>

(* Nobody waits for ever: unless the run is over, or stalled by a process  *)
(* that failed, the Controller does not wait in send() for a process that  *)
(* waits for it in recv(), and no process waits for an EXIT that was taken *)
(* by another or never sent.                                               *)
NoStandstill ==
  Over \/ Stalled \/ Simulates \/ Returns \/ \E w \in Worker : Moves(w)
===============================================================================
