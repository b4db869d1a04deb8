------------------------------ MODULE Controller ------------------------------
(***************************************************************************)
(* The Controller process: main() of controller.cpp, the simulated mobile  *)
(* robot (class Agv, agv.cpp) and the part of ns-3 that runs its handlers. *)
(* It is one thread: ns-3 takes the earliest pending event, runs its       *)
(* handler to the end, and the handler schedules further events.  Each     *)
(* handler below is one action; its parameter e is the event it runs for.  *)
(*                                                                         *)
(* All times are in one unit; length_s, start_s and stop_s are converted.  *)
(***************************************************************************)
EXTENDS Commands, EventQueue, Configuration

CONSTANT Configs            \* the configurations a run may be started with

(* What the code relies on and parseConfig does not check: orders are not  *)
(* empty and the length bounds are ordered.                                *)
ConfigsAssumption ==
  /\ Configs \subseteq Config
  /\ \A c \in Configs :
       /\ 1 <= c.vda5050_cfg.order_len_min
       /\ c.vda5050_cfg.order_len_min <= c.vda5050_cfg.order_len_max

ASSUME ConfigsAssumption

VARIABLES
  cfg_,                   \* the configuration; never changes
  now,                    \* Simulator::Now()
  events,                 \* the pending, not cancelled events
  uid,                    \* the number the next scheduled event gets
  next_state_, next_order_, next_control_,        \* the EventIds kept
  planned_node_states_, planned_edge_states_,     \* not yet released ...
  node_states_, edge_states_,                     \* ... released, not done
  order_update_id_,
  teleoperating_,
  running,                \* Simulator::Run() has not returned
  out                     \* commands of this step still to be sent

queue     == <<events, uid>>
ids       == <<next_state_, next_order_, next_control_>>
planned   == <<planned_node_states_, planned_edge_states_>>
released  == <<node_states_, edge_states_>>
vars      == <<cfg_, now, queue, ids, planned, released, order_update_id_,
               teleoperating_, running, out>>

V == cfg_.vda5050_cfg
T == V.teleop_cfg

-------------------------------------------------------------------------------
(* The event that runs: the handlers' common guard.  The thread is inside  *)
(* the previous handler until that handler's commands have been sent.      *)
Runs(e, kind) ==
  /\ running
  /\ out = <<>>
  /\ e.kind = kind
  /\ IsNext(e, events)
  /\ now' = e.at
  /\ UNCHANGED <<cfg_, running>>

(* Mutated: the delay taken for a time.                                    *)
Later_Absolute(e, kind, delay, nth) == Event(kind, delay, uid + nth)

(* Simulator::Schedule from e's handler; nth counts its calls from 0.  A   *)
(* call the handler skips leaves its number unused.                        *)
Later(e, kind, delay, nth) == Event(kind, e.at + delay, uid + nth)

executeCommandUe(type, topic, msg)   == CommandFor("ue", type, topic, msg)
executeCommandBase(type, topic, msg) == CommandFor("base", type, topic, msg)

instantActions(action) ==
  executeCommandBase("PUBLISH_VDA", "instantActions", Plain(action))

-------------------------------------------------------------------------------
(* Agv::Agv and main: the events scheduled before the simulation runs, in  *)
(* the order of the calls.                                                 *)
VdaEvents(v) ==
  {Event("sendConnection", v.send_connection_after_ms, 1),
   Event("sendState", v.send_state_after_ms, 2),
   Event("sendFactsheetRequest", v.send_factsheet_request_after_ms, 3),
   Event("sendOrder", v.send_order_after_ms, 4),
   Event("sendVisualization", v.start_visualization_after_ms, 5)}

TeleopEvents(t) ==
  {Event("requestTeleoperationCapabilities",
         t.request_teleoperation_capabilities_after_ms, 6),
   Event("startTeleoperation", t.start_s, 7),
   Event("stopTeleoperation", t.stop_s, 8)}

InitialEvents(c) ==
  VdaEvents(c.vda5050_cfg)
  \cup (IF c.scenario = "TELEOP" THEN TeleopEvents(c.vda5050_cfg.teleop_cfg)
        ELSE {})
  \cup {Event("Stop", c.length_s, 9)}

Init ==
  /\ cfg_ \in Configs
  /\ now = 0
  /\ events = InitialEvents(cfg_)
  /\ uid = 10
  /\ next_state_ = 2 /\ next_order_ = 4 /\ next_control_ = NoEvent
  /\ planned_node_states_ = <<>> /\ planned_edge_states_ = <<>>
  /\ node_states_ = <<>> /\ edge_states_ = <<>>
  /\ order_update_id_ = 0
  /\ teleoperating_ = FALSE
  /\ running = TRUE
  /\ out = <<>>

-------------------------------------------------------------------------------
(* Handlers that publish and keep no state.                                *)
sendConnection(e) ==
  /\ Runs(e, "sendConnection")
  /\ out' = <<executeCommandUe("PUBLISH_VDA", "connection", Plain("ONLINE"))>>
  /\ events' = events \ {e}
  /\ UNCHANGED <<uid, ids, planned, released, order_update_id_, teleoperating_>>

sendFactsheetRequest(e) ==
  /\ Runs(e, "sendFactsheetRequest")
  /\ out' = <<instantActions("requestFactsheet")>>
  /\ events' = (events \ {e})
                 \cup {Later(e, "sendFactsheet", V.factsheet_response_time_ms, 0)}
  /\ uid' = uid + 1
  /\ UNCHANGED <<ids, planned, released, order_update_id_, teleoperating_>>

sendFactsheet(e) ==
  /\ Runs(e, "sendFactsheet")
  /\ out' = <<executeCommandUe("PUBLISH_VDA", "factsheet", Plain("factsheet"))>>
  /\ events' = events \ {e}
  /\ UNCHANGED <<uid, ids, planned, released, order_update_id_, teleoperating_>>

sendVisualization(e) ==
  /\ Runs(e, "sendVisualization")
  /\ out' = <<executeCommandUe("PUBLISH_VDA", "visualization",
                               Plain("visualization"))>>
  /\ events' = (events \ {e})
                 \cup {Later(e, "sendVisualization", V.visualization_period_ms, 0)}
  /\ uid' = uid + 1
  /\ UNCHANGED <<ids, planned, released, order_update_id_, teleoperating_>>

requestTeleoperationCapabilities(e) ==
  /\ Runs(e, "requestTeleoperationCapabilities")
  /\ out' = <<instantActions("requestTeleoperationCapability")>>
  /\ events' = (events \ {e})
                 \cup {Later(e, "sendTeleoperationCapabilities",
                             T.send_teleoperation_capability_after_request_ms, 0)}
  /\ uid' = uid + 1
  /\ UNCHANGED <<ids, planned, released, order_update_id_, teleoperating_>>

sendTeleoperationCapabilities(e) ==
  /\ Runs(e, "sendTeleoperationCapabilities")
  /\ out' = <<executeCommandUe("PUBLISH_TELEOP", "teleoperationCapabilities",
                               Plain("capabilities"))>>
  /\ events' = events \ {e}
  /\ UNCHANGED <<uid, ids, planned, released, order_update_id_, teleoperating_>>

-------------------------------------------------------------------------------
(* Orders and states.  Only the sequenceIds of nodes and edges are kept;   *)
(* their random names and positions decide nothing.                        *)
Route(n) == [i \in 1..n |-> i - 1]

NothingPlanned == planned_node_states_ = <<>> /\ planned_edge_states_ = <<>>
NothingReleased == node_states_ = <<>> /\ edge_states_ = <<>>

(* Move a random, not empty prefix of the planned route to the released    *)
(* one.                                                                    *)
Release(nodes, edges) ==
  \E num \in 1..Len(nodes) :
    /\ node_states_' = node_states_ \o SubSeq(nodes, 1, num)
    /\ edge_states_' = edge_states_ \o SubSeq(edges, 1, num)
    /\ planned_node_states_' = SubSeq(nodes, num + 1, Len(nodes))
    /\ planned_edge_states_' = SubSeq(edges, num + 1, Len(edges))

(* A new order of a random length when nothing is planned, otherwise the   *)
(* continuation of the current one.                                        *)
PlanAndRelease ==
  \/ /\ NothingPlanned
     /\ order_update_id_' = 0
     /\ \E n \in V.order_len_min .. V.order_len_max : Release(Route(n), Route(n))
  \/ /\ ~NothingPlanned
     /\ order_update_id_' = order_update_id_ + 1
     /\ Release(planned_node_states_, planned_edge_states_)

(* Mutated: the continuation is scheduled though all is released.          *)
AfterOrder_Always(e) ==
  {Later(e, "sendOrder", V.send_order_continuation_ms, 0),
   Later(e, "sendState", V.send_state_after_order_ms, 1)}

AfterOrder(e) ==
  (IF planned_node_states_' # <<>>
   THEN {Later(e, "sendOrder", V.send_order_continuation_ms, 0)}
   ELSE {})
  \cup {Later(e, "sendState", V.send_state_after_order_ms, 1)}

(* Mutated: the pending sendState is left alone.                           *)
OrderEvents_NoCancel(e) == (events \ {e}) \cup AfterOrder(e)

(* The continuation's EventId is not kept; the pending sendState is        *)
(* replaced by one that follows the order.                                 *)
OrderEvents(e) == Cancel(events \ {e}, next_state_) \cup AfterOrder(e)

sendOrder(e) ==
  /\ Runs(e, "sendOrder")
  /\ PlanAndRelease
  /\ out' = <<executeCommandBase("PUBLISH_VDA", "order",
                                 Lists("order", node_states_', edge_states_'))>>
  /\ events' = OrderEvents(e)
  /\ next_state_' = uid + 1
  /\ uid' = uid + 2
  /\ UNCHANGED <<next_order_, next_control_, teleoperating_>>

(* Mutated: the node is done before the edge that leads to it.             *)
Advance_NodeFirst ==
  IF Len(node_states_) = Len(edge_states_)
  THEN node_states_' = Tail(node_states_) /\ UNCHANGED edge_states_
  ELSE edge_states_' = Tail(edge_states_) /\ UNCHANGED node_states_

(* Mutated: edge and node are done in one step.                            *)
Advance_Both ==
  node_states_' = Tail(node_states_) /\ edge_states_' = Tail(edge_states_)

(* One step of the route: the edge to the next node, then that node.       *)
Advance ==
  IF Len(node_states_) = Len(edge_states_)
  THEN edge_states_' = Tail(edge_states_) /\ UNCHANGED node_states_
  ELSE node_states_' = Tail(node_states_) /\ UNCHANGED edge_states_

(* Mutated: the next order does not wait for the planned nodes.            *)
NextOrderDue_IgnoresPlan == NothingReleased'

(* Mutated: the next order does not wait for the released nodes.           *)
NextOrderDue_EveryStep == NothingPlanned

(* This step has finished the order.                                       *)
NextOrderDue == NothingReleased' /\ NothingPlanned

sendState(e) ==
  /\ Runs(e, "sendState")
  /\ out' = <<executeCommandUe("PUBLISH_VDA", "state",
                               Lists("state", node_states_, edge_states_))>>
  /\ next_state_' = uid
  /\ UNCHANGED <<planned, next_control_, order_update_id_, teleoperating_>>
  /\ \/ /\ NothingReleased
        /\ events' = (events \ {e})
                       \cup {Later(e, "sendState", V.idle_state_interval_ms, 0)}
        /\ uid' = uid + 1
        /\ UNCHANGED <<released, next_order_>>
     \/ /\ ~NothingReleased
        /\ Advance
        /\ events' = (events \ {e})
             \cup {Later(e, "sendState", V.order_finish_step_ms, 0)}
             \cup (IF NextOrderDue
                   THEN {Later(e, "sendOrder", V.next_order_after_finish_ms, 1)}
                   ELSE {})
        /\ next_order_' = IF NextOrderDue THEN uid + 1 ELSE next_order_
        /\ uid' = uid + 2

-------------------------------------------------------------------------------
(* Teleoperation.                                                          *)
AfterToggle(e) ==
  {Later(e, "sendTeleoperationState",
         T.teleoperation_state_after_toggle_teleop_ms, 0),
   Later(e, "sendState", T.state_after_toggle_teleop_ms, 1)}

StartEvents(e) ==
  Cancel(Cancel(events \ {e}, next_order_), next_state_) \cup AfterToggle(e)

RestartOrder(e) ==
  Later(e, "sendOrder",
        T.restart_order_simulation_after_teleoperation_stop_ms, 2)

(* Mutated: the control stream is not cancelled.                           *)
StopEvents_KeepsControl(e) ==
  Cancel(events \ {e}, next_state_) \cup AfterToggle(e) \cup {RestartOrder(e)}

(* Mutated: the order simulation is not restarted.                         *)
StopEvents_NoRestart(e) ==
  Cancel(Cancel(events \ {e}, next_state_), next_control_) \cup AfterToggle(e)

StopEvents(e) ==
  Cancel(Cancel(events \ {e}, next_state_), next_control_)
    \cup AfterToggle(e) \cup {RestartOrder(e)}

startTeleoperation(e) ==
  /\ Runs(e, "startTeleoperation")
  /\ planned_node_states_' = <<>> /\ planned_edge_states_' = <<>>
  /\ node_states_' = <<>> /\ edge_states_' = <<>>
  /\ out' = <<instantActions("startTeleoperation")>>
  /\ teleoperating_' = TRUE
  /\ events' = StartEvents(e)
  /\ next_state_' = uid + 1
  /\ uid' = uid + 2
  /\ UNCHANGED <<next_order_, next_control_, order_update_id_>>

stopTeleoperation(e) ==
  /\ Runs(e, "stopTeleoperation")
  /\ out' = <<instantActions("stopTeleoperation")>>
  /\ teleoperating_' = FALSE
  /\ events' = StopEvents(e)
  /\ next_state_' = uid + 1
  /\ next_order_' = uid + 2
  /\ uid' = uid + 3
  /\ UNCHANGED <<next_control_, planned, released, order_update_id_>>

(* Mutated: what is announced is always a start.                           *)
VideoCommand_Start == "START_VIDEO"

VideoCommand == IF teleoperating_ THEN "START_VIDEO" ELSE "STOP_VIDEO"

(* Mutated: every announcement starts a control stream.                    *)
ControlDue_Always == TRUE

ControlDue == teleoperating_

(* Publishes the state and tells the UE to start or stop its video.        *)
sendTeleoperationState(e) ==
  /\ Runs(e, "sendTeleoperationState")
  /\ out' = <<executeCommandUe("PUBLISH_TELEOP", "teleop_state",
                Plain(IF teleoperating_ THEN "teleoperating"
                      ELSE "not teleoperating")),
              executeCommandUe(VideoCommand, "", Plain(""))>>
  /\ \/ /\ ControlDue
        /\ events' = (events \ {e})
             \cup {Later(e, "sendControl",
                         T.control_stream_start_after_teleop_state_ms, 0)}
        /\ next_control_' = uid
        /\ uid' = uid + 1
     \/ /\ ~ControlDue
        /\ events' = events \ {e}
        /\ UNCHANGED <<next_control_, uid>>
  /\ UNCHANGED <<next_state_, next_order_, planned, released, order_update_id_,
                 teleoperating_>>

sendControl(e) ==
  /\ Runs(e, "sendControl")
  /\ out' = <<executeCommandBase("PUBLISH_TELEOP", "control", Plain("speeds"))>>
  /\ events' = (events \ {e})
                 \cup {Later(e, "sendControl", T.control_command_period_ms, 0)}
  /\ next_control_' = uid
  /\ uid' = uid + 1
  /\ UNCHANGED <<next_state_, next_order_, planned, released, order_update_id_,
                 teleoperating_>>

-------------------------------------------------------------------------------
(* main() after Simulator::Run(): both processes are told to exit.         *)
Stop(e) ==
  /\ running
  /\ out = <<>>
  /\ e.kind = "Stop"
  /\ IsNext(e, events)
  /\ now' = e.at
  /\ events' = events \ {e}
  /\ running' = FALSE
  /\ out' = <<executeCommandUe("EXIT", "", Plain("")),
              executeCommandBase("EXIT", "Test", Plain("Test"))>>
  /\ UNCHANGED <<cfg_, uid, ids, planned, released, order_update_id_,
                 teleoperating_>>

Handler(e) ==
  \/ sendConnection(e)
  \/ sendFactsheetRequest(e)
  \/ sendFactsheet(e)
  \/ sendVisualization(e)
  \/ requestTeleoperationCapabilities(e)
  \/ sendTeleoperationCapabilities(e)
  \/ sendOrder(e)
  \/ sendState(e)
  \/ startTeleoperation(e)
  \/ stopTeleoperation(e)
  \/ sendTeleoperationState(e)
  \/ sendControl(e)
  \/ Stop(e)

(* Mutated: the command that was sent is queued again.                     *)
Send_Again ==
  /\ out # <<>>
  /\ out' = Append(Tail(out), Head(out))
  /\ UNCHANGED <<cfg_, now, queue, ids, planned, released, order_update_id_,
                 teleoperating_, running>>

(* ControllerInterfaceZmq::executeCommand: send() has taken the command.   *)
Send ==
  /\ out # <<>>
  /\ out' = Tail(out)
  /\ UNCHANGED <<cfg_, now, queue, ids, planned, released, order_update_id_,
                 teleoperating_, running>>

Finished == ~running /\ out = <<>>

Terminated == Finished /\ UNCHANGED vars

Next ==
  \/ \E e \in events : Handler(e)
  \/ Send
  \/ Terminated

Spec == Init /\ [][Next]_vars

(* The thread keeps running and every send() returns.                      *)
FairSpec == Spec /\ WF_vars(Next)

-------------------------------------------------------------------------------
(* Properties. *)

(* Teleoperation is configured to stop no earlier than it starts, which    *)
(* parseConfig does not check.  What depends on it says so.                *)
StopsAfterStart ==
  \A c \in Configs :
    LET t == c.vda5050_cfg.teleop_cfg
    IN  c.scenario = "TELEOP" => t.start_s <= t.stop_s

EventsOf(kind) == {e \in events : e.kind = kind}
AtMostOne(S)   == \A a, b \in S : a = b
AtMostTwo(S)   == \A a, b, c \in S : a = b \/ b = c \/ a = c

EventKind ==
  {"sendConnection", "sendFactsheetRequest", "sendFactsheet",
   "sendVisualization", "requestTeleoperationCapabilities",
   "sendTeleoperationCapabilities", "sendOrder", "sendState",
   "startTeleoperation", "stopTeleoperation", "sendTeleoperationState",
   "sendControl", "Stop"}

(* Pending events lie in the future and bear distinct numbers that were    *)
(* given out.                                                              *)
QueueOK(q, time, next) ==
  /\ time \in Nat
  /\ next \in Nat \ {0}
  /\ q \subseteq [kind : EventKind, at : Nat, uid : Nat]
  /\ \A e \in q : time <= e.at /\ NoEvent < e.uid /\ e.uid < next
  /\ \A e, f \in q : e.uid = f.uid => e = f

(* The types.  What is not the shape of the model: no handler schedules    *)
(* into the past or reuses a number, and the EventIds kept were given out. *)
TypeOK ==
  /\ cfg_ \in Configs
  /\ QueueOK(events, now, uid)
  /\ next_state_ \in 0 .. uid - 1
  /\ next_order_ \in 0 .. uid - 1
  /\ next_control_ \in 0 .. uid - 1
  /\ planned_node_states_ \in Seq(Nat) /\ planned_edge_states_ \in Seq(Nat)
  /\ node_states_ \in Seq(Nat) /\ edge_states_ \in Seq(Nat)
  /\ order_update_id_ \in Nat
  /\ teleoperating_ \in BOOLEAN
  /\ running \in BOOLEAN
  /\ out \in Seq(Command)

(* The robot keeps reporting, in one stream: as long as the simulation     *)
(* runs exactly one sendState is pending and next_state_ names it, whatever*)
(* orders and teleoperation do to it (agv.cpp cancels and replaces it in   *)
(* four handlers).                                                         *)
OneStateStream ==
  running => \E e \in events : /\ EventsOf("sendState") = {e}
                               /\ e.uid = next_state_

(* Nodes and edges stay in step: the planned route has one edge for every  *)
(* node, and the released edges are those of the released nodes but for    *)
(* the edge already travelled.  It is what makes every front() and         *)
(* pop_front() of sendOrder and sendState hit a non-empty deque.           *)
NodesAndEdgesInStep ==
  /\ planned_edge_states_ = planned_node_states_
  /\ \/ edge_states_ = node_states_
     \/ node_states_ # <<>> /\ edge_states_ = Tail(node_states_)

(* The route is released in full and not yet travelled: the next sendOrder *)
(* has to be scheduled by the sendState that finishes it.                  *)
LastLeg == NothingPlanned /\ ~NothingReleased

TakenOver == /\ cfg_.scenario = "TELEOP"
             /\ EventsOf("startTeleoperation") = {}
HandedBack == TakenOver /\ EventsOf("stopTeleoperation") = {}

(* Teleoperation has been neither started nor stopped, or is not configured.*)
Untouched ==
  cfg_.scenario = "TELEOP" =>
    EventsOf("startTeleoperation") # {} /\ EventsOf("stopTeleoperation") # {}

(* The stop has come, which restarts the orders.                           *)
Restarted == /\ cfg_.scenario = "TELEOP"
             /\ EventsOf("stopTeleoperation") = {}

(* Orders keep coming, one at a time, until teleoperation is toggled:      *)
(* exactly one sendOrder is pending, and none on the last leg of an order. *)
OneOrderStream ==
  running /\ Untouched =>
    IF LastLeg THEN EventsOf("sendOrder") = {}
    ELSE \E e \in events : EventsOf("sendOrder") = {e}

(* Order handling survives teleoperation, with at most one stray stream:   *)
(* startTeleoperation leaves at most one sendOrder (a continuation, which  *)
(* no EventId names), stopTeleoperation adds one, so afterwards there are  *)
(* one or two, one less on a last leg, and never none off it.              *)
OrderStreamsBounded ==
  running /\ TakenOver =>
    LET orders == EventsOf("sendOrder")
    IN  IF HandedBack
        THEN IF LastLeg THEN AtMostOne(orders)
             ELSE orders # {} /\ AtMostTwo(orders)
        ELSE AtMostOne(orders) /\ (LastLeg => orders = {})

(* Before teleoperation two orders never mix: what is released and what is *)
(* planned form one run of consecutive sequenceIds.                        *)
RouteInOrder ==
  Untouched =>
    LET route == node_states_ \o planned_node_states_
    IN  \A i \in 1 .. Len(route) - 1 : route[i + 1] = route[i] + 1

(* The deques are bounded though stray streams add to them: one order at a *)
(* time, two once the stop has restarted them.                             *)
BacklogBounded ==
  Len(node_states_) + Len(planned_node_states_)
    <= V.order_len_max * (IF Restarted THEN 2 ELSE 1)

(* The control stream belongs to teleoperation: while teleoperating either *)
(* the teleoperation state is still to be announced or exactly one         *)
(* sendControl, named by next_control_, is pending; otherwise none is.     *)
(* Needs startTeleoperation and stopTeleoperation to cancel and schedule   *)
(* in step with the delayed sendTeleoperationState.                        *)
ControlOnlyWhileTeleoperating ==
  LET controls == EventsOf("sendControl")
  IN  IF ~teleoperating_ THEN controls = {}
      ELSE \/ /\ controls = {}
              /\ \E e \in events : EventsOf("sendTeleoperationState") = {e}
           \/ /\ EventsOf("sendTeleoperationState") = {}
              /\ \E e \in events : controls = {e} /\ e.uid = next_control_

(* Whatever the order of the toggles, also when teleoperation is configured*)
(* to stop before it starts: stop and start may each leave a stray stream, *)
(* but never more than two of orders or of control commands, and none of   *)
(* control commands while the robot is not teleoperated.                   *)
StrayStreamsBounded ==
  /\ running => AtMostTwo(EventsOf("sendOrder"))
  /\ AtMostTwo(EventsOf("sendControl") \cup EventsOf("sendTeleoperationState"))
  /\ EventsOf("sendControl") # {} => teleoperating_

(* Without teleoperation the controller implements OrderExecution: every   *)
(* sendOrder starts an order when the last one is travelled to its end or  *)
(* extends the current one, every sendState travels one element at most.   *)
OE == INSTANCE OrderExecution WITH
        Lengths <- UNION {c.vda5050_cfg.order_len_min ..
                            c.vda5050_cfg.order_len_max : c \in Configs},
        horizon <- Len(planned_node_states_),
        base    <- Len(node_states_) + Len(edge_states_)

ImplementsOrderExecution == OE!Spec

(* A message of the teleoperation's protocol, "" for any other.            *)
Said(c) ==
  CASE c.topic = "control" -> "control"
    [] c.type \in {"START_VIDEO", "STOP_VIDEO"} -> c.type
    [] c.msg.text \in {"startTeleoperation", "stopTeleoperation",
                       "teleoperating", "not teleoperating"} -> c.msg.text
    [] OTHER -> ""

Saying == IF out = <<>> THEN "" ELSE Said(Head(out))

Phase ==
  LET unannounced == EventsOf("sendTeleoperationState") # {}
  IN  CASE ~TakenOver -> "before"
        [] TakenOver /\ teleoperating_ ->
             IF unannounced THEN "requested" ELSE "controlled"
        [] TakenOver /\ ~teleoperating_ ->
             IF unannounced THEN "stopping" ELSE "after"

(* If it is configured to stop after it starts, the controller implements  *)
(* TeleopSession: no control command outside a teleoperation announced and *)
(* not withdrawn, every announcement followed by its video command, and    *)
(* none that contradicts the last toggle, whatever the delays.             *)
TS == INSTANCE TeleopSession WITH
        phase <- Phase,
        said  <- Saying

ImplementsTeleopSession == TS!Spec

(* The run ends: length_s is reached and both exit commands are sent.      *)
Termination == <>Finished

-------------------------------------------------------------------------------
(* What comments of agv.cpp say and the code does not do.                  *)

(* "Restart order simulation" in stopTeleoperation, and startTeleoperation *)
(* cancelling next_order_ and clearing the route: no order is sent while   *)
(* the robot is teleoperated.                                              *)
NoOrderWhileTeleoperating ==
  teleoperating_ => \A i \in 1..Len(out) : out[i].topic # "order"

(* "Remove trailing ,": pop_back() strips a comma, so that every JSON list *)
(* that was opened stays open until its "]".                               *)
ListsWellFormed ==
  \A i \in 1..Len(out) : out[i].msg.nodes.opened /\ out[i].msg.edges.opened
===============================================================================
