-------------------------------- MODULE Programs --------------------------------
(***************************************************************************)
(* The programs ue_mqtt, ue_zenoh, base_mqtt and base_zenoh: what main()   *)
(* of each sets up before it calls mainLoop().                             *)
(*   clients      its connections or sessions, in the order it stops them  *)
(*   publishers   declared if predeclare_publisher is set (Zenoh only)     *)
(*   subscribers  and of which client                                      *)
(*   sends        the clients behind send_vda and send_teleop              *)
(***************************************************************************)
EXTENDS Commands

Client == {"ue vda", "ue teleop", "base"}

Of(client, topics) == {client} \X topics

ue_mqtt ==
  [clients     |-> <<"ue vda", "ue teleop">>,
   publishers  |-> {},
   subscribers |-> Of("ue vda", {"instantActions", "order"})
                     \cup Of("ue teleop", {"control"}),
   sends       |-> [PUBLISH_VDA |-> "ue vda", PUBLISH_TELEOP |-> "ue teleop"],
   use_camera  |-> TRUE]

(* Mutated: a topic of the robot's is missing from its publishers.         *)
ue_zenoh_Forgets ==
  [ue_mqtt EXCEPT !.publishers =
     Of("ue vda", {"connection", "state", "factsheet"})
       \cup Of("ue teleop", {"teleop_capabilities", "teleop_state"})]

ue_zenoh ==
  [clients     |-> <<"ue vda", "ue teleop">>,
   publishers  |-> Of("ue vda", {"connection", "state", "factsheet",
                                 "visualization"})
                     \cup Of("ue teleop", {"teleop_capabilities", "teleop_state"}),
   subscribers |-> Of("ue vda", {"instantActions", "order"})
                     \cup Of("ue teleop", {"control"}),
   sends       |-> [PUBLISH_VDA |-> "ue vda", PUBLISH_TELEOP |-> "ue teleop"],
   use_camera  |-> TRUE]

base_mqtt ==
  [clients     |-> <<"base">>,
   publishers  |-> {},
   subscribers |-> Of("base", {"connection", "factsheet", "visualization",
                               "state", "teleop_state"}),
   sends       |-> [PUBLISH_VDA |-> "base", PUBLISH_TELEOP |-> "base"],
   use_camera  |-> FALSE]

base_zenoh ==
  [clients     |-> <<"base">>,
   publishers  |-> Of("base", {"instantActions", "order", "control"}),
   subscribers |-> Of("base", {"connection", "factsheet", "visualization",
                               "state"}),
   sends       |-> [PUBLISH_VDA |-> "base", PUBLISH_TELEOP |-> "base"],
   use_camera  |-> TRUE]

Program(w, stack) ==
  IF w = "ue" THEN IF stack = "mqtt" THEN ue_mqtt ELSE ue_zenoh
  ELSE IF stack = "mqtt" THEN base_mqtt ELSE base_zenoh
===============================================================================
