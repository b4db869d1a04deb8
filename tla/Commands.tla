------------------------------- MODULE Commands -------------------------------
(***************************************************************************)
(* The commands the Controller hands to the Base and UE processes: struct  *)
(* Command of utils/command.h, with the payloads agv.cpp puts in them.     *)
(* A payload is kept down to what tells two messages apart: a tag for the  *)
(* fixed JSON text, and the node and edge lists of order and state.        *)
(***************************************************************************)
EXTENDS Naturals, Sequences

CommandType ==
  {"PUBLISH_VDA", "PUBLISH_TELEOP", "START_VIDEO", "STOP_VIDEO", "EXIT"}

(* The processes at the other end of the two ZeroMQ sockets. *)
Worker == {"ue", "base"}

(* The last level of the topics; "" for a command that publishes nothing. *)
Topic == {"connection", "instantActions", "factsheet", "order", "state",
          "visualization", "control", "teleop_state",
          "teleoperationCapabilities", "Test", ""}

(* What the fixed part of a payload says. *)
Text == {"ONLINE", "factsheet", "order", "state", "visualization", "speeds",
         "requestFactsheet", "requestTeleoperationCapability",
         "startTeleoperation", "stopTeleoperation", "capabilities",
         "teleoperating", "not teleoperating", "Test", ""}

(* The JSON array the code renders for a deque: "[", every item followed   *)
(* by ",", then pop_back() and "]".  pop_back() removes the comma behind   *)
(* the last item; when the deque is empty it removes the "[" instead.      *)
JsonList(deque) == [opened |-> deque # <<>>, items |-> deque]

NoList == [opened |-> TRUE, items |-> <<>>]

Payload == [text  : Text,
            nodes : [opened : BOOLEAN, items : Seq(Nat)],
            edges : [opened : BOOLEAN, items : Seq(Nat)]]

Plain(text) == [text |-> text, nodes |-> NoList, edges |-> NoList]

Lists(text, nodes, edges) ==
  [text |-> text, nodes |-> JsonList(nodes), edges |-> JsonList(edges)]

Command == [to : Worker, type : CommandType, topic : Topic, msg : Payload]

CommandFor(worker, type, topic, msg) ==
  [to |-> worker, type |-> type, topic |-> topic, msg |-> msg]
===============================================================================
