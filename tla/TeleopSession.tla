----------------------------- MODULE TeleopSession -----------------------------
(***************************************************************************)
(* What teleoperation promises, message by message: it is requested,       *)
(* announced together with its video, the robot is commanded, and it is    *)
(* withdrawn, which is announced, too.  A withdrawal may come before the   *)
(* announcement; then both announcements deny it.                          *)
(***************************************************************************)

VARIABLES
  phase,        \* "before", "requested", "controlled", "stopping", "after"
  said          \* the message being sent, "" if none of teleoperation

vars == <<phase, said>>

Init == phase = "before" /\ said = ""

Request ==
  phase = "before" /\ phase' = "requested" /\ said' = "startTeleoperation"

Announce ==
  phase = "requested" /\ phase' = "controlled" /\ said' = "teleoperating"

Command ==
  phase = "controlled" /\ said' = "control" /\ UNCHANGED phase

Withdraw ==
  /\ phase \in {"requested", "controlled"}
  /\ phase' = "stopping"
  /\ said' = "stopTeleoperation"

Conclude ==
  /\ phase = "stopping"
  /\ phase' \in {"stopping", "after"}
  /\ said' = "not teleoperating"

(* The robot's video follows at once what it has announced.                *)
Video ==
  /\ \/ said = "teleoperating" /\ said' = "START_VIDEO"
     \/ said = "not teleoperating" /\ said' = "STOP_VIDEO"
  /\ UNCHANGED phase

Quiet ==
  /\ said \notin {"teleoperating", "not teleoperating"}
  /\ said' = ""
  /\ UNCHANGED phase

Next ==
  \/ said = "" /\ (Request \/ Announce \/ Command \/ Withdraw \/ Conclude)
  \/ Video
  \/ Quiet

Spec == Init /\ [][Next]_vars
===============================================================================
