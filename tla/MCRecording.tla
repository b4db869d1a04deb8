------------------------------ MODULE MCRecording ------------------------------
(* Both stacks, the exclusion of teleop_state on both machines, on one of  *)
(* them and on none, and MQTT connections that break; a topic for each     *)
(* client, and the one that is excluded.                                   *)
EXTENDS Recording

BuildOf(stack, ue, base, lossy) ==
  [stack |-> stack,
   EXCLUDE_TIMESTAMP_IN_TELEOP_STATE |->
     [w \in Worker |-> IF w = "ue" THEN ue ELSE base],
   lossy |-> lossy]

SomeBuilds ==
  {BuildOf("mqtt", TRUE, TRUE, TRUE), BuildOf("mqtt", TRUE, FALSE, FALSE),
   BuildOf("mqtt", FALSE, FALSE, FALSE), BuildOf("zenoh", TRUE, TRUE, FALSE)}

SomeTopics == {"instantActions", "control", "state", "teleop_state"}
===============================================================================
