--------------------------- MODULE ControllerProofs ---------------------------
(***************************************************************************)
(* Proofs about the Controller, for every set of configurations that meets *)
(* ConfigsAssumption.                                                      *)
(***************************************************************************)
EXTENDS Controller, SequenceTheorems, TLAPS

-------------------------------------------------------------------------------
(* Lemmas about configurations, the event queue and commands.              *)

(* Every delay of the configuration is a natural number.                   *)
LEMMA Delays ==
  ASSUME cfg_ \in Configs
  PROVE  /\ cfg_.scenario \in Scenario
         /\ cfg_.length_s \in Nat
         /\ V \in Vda5050Config
         /\ T \in TeleopConfig
<1>1. cfg_ \in Config
  BY ConfigsAssumption DEF ConfigsAssumption
<1> QED
  BY <1>1 DEF Config, V, T, Vda5050Config, Scenario

(* A handler that runs for e drops events and schedules events that are    *)
(* not earlier and bear new numbers.                                       *)
EventType == [kind : EventKind, at : Nat, uid : Nat]

Schedules(e) ==
  /\ uid' \in Nat /\ uid <= uid'
  /\ \A f \in events' : \/ f \in events
                        \/ /\ f \in EventType
                           /\ e.at <= f.at /\ uid <= f.uid /\ f.uid < uid'
  /\ \A f, g \in events' : \/ f \in events \/ g \in events
                           \/ f.uid = g.uid => f = g

(* Then the queue stays well-formed.                                       *)
LEMMA QueueStep ==
  ASSUME TypeOK, NEW e \in events, IsNext(e, events), now' = e.at, Schedules(e)
  PROVE  QueueOK(events', now', uid')
<1>1. /\ events \subseteq EventType /\ e \in EventType
      /\ uid \in Nat \ {0} /\ uid' \in Nat \ {0}
  BY DEF TypeOK, QueueOK, Schedules, EventType
<1>2. events' \subseteq EventType
  BY <1>1 DEF Schedules
<1>3. \A f \in events : e.at <= f.at /\ 0 < f.uid /\ f.uid < uid
  <2>1. \A f \in events : 0 < f.uid /\ f.uid < uid
    BY DEF TypeOK, QueueOK, NoEvent
  <2>2. \A f \in events : e.at <= f.at
    BY <1>1 DEF IsNext, EventType
  <2> QED
    BY <2>1, <2>2
<1>4. \A f \in events' : e.at <= f.at /\ 0 < f.uid /\ f.uid < uid'
  BY <1>1, <1>2, <1>3 DEF Schedules, EventType
<1>5. \A f, g \in events : f.uid = g.uid => f = g
  BY DEF TypeOK, QueueOK
<1>6. \A f, g \in events' : f.uid = g.uid => f = g
  BY <1>1, <1>2, <1>3, <1>5 DEF Schedules, EventType
<1>7. e.at \in Nat
  BY <1>1 DEF EventType
<1> QED
  BY <1>1, <1>2, <1>4, <1>6, <1>7 DEF QueueOK, EventType, NoEvent

(* The commands the handlers build are commands.                           *)
LEMMA PlainCommand ==
  ASSUME NEW to \in Worker, NEW type \in CommandType, NEW topic \in Topic,
         NEW text \in Text
  PROVE  CommandFor(to, type, topic, Plain(text)) \in Command
<1>1. <<>> \in Seq(Nat)
  OBVIOUS
<1>2. Plain(text) \in Payload
  BY <1>1 DEF Plain, Payload, NoList
<1> QED
  BY <1>2 DEF CommandFor, Command

LEMMA ListCommand ==
  ASSUME NEW to \in Worker, NEW type \in CommandType, NEW topic \in Topic,
         NEW text \in Text, NEW nodes \in Seq(Nat), NEW edges \in Seq(Nat)
  PROVE  CommandFor(to, type, topic, Lists(text, nodes, edges)) \in Command
<1>1. Lists(text, nodes, edges) \in Payload
  BY DEF Lists, JsonList, Payload
<1> QED
  BY <1>1 DEF CommandFor, Command
-------------------------------------------------------------------------------
(* Type correctness.                                                       *)

(* Both parts of a list of sequenceIds.                                    *)
LEMMA Split ==
  ASSUME NEW s \in Seq(Nat), NEW num \in 1 .. Len(s)
  PROVE  /\ SubSeq(s, 1, num) \in Seq(Nat)
         /\ SubSeq(s, num + 1, Len(s)) \in Seq(Nat)
<1>1. \A i \in 1 .. num : s[i] \in Nat
  OBVIOUS
<1>2. \A i \in num + 1 .. Len(s) : s[i] \in Nat
  OBVIOUS
<1> QED
  BY <1>1, <1>2, SubSeqProperties

(* The lists stay lists of sequenceIds when a prefix is released.          *)
LEMMA ReleaseTypes ==
  ASSUME node_states_ \in Seq(Nat), edge_states_ \in Seq(Nat),
         NEW route \in Seq(Nat), Release(route, route)
  PROVE  /\ planned_node_states_' \in Seq(Nat)
         /\ planned_edge_states_' \in Seq(Nat)
         /\ node_states_' \in Seq(Nat) /\ edge_states_' \in Seq(Nat)
<1>1. PICK num \in 1..Len(route) :
        /\ node_states_' = node_states_ \o SubSeq(route, 1, num)
        /\ edge_states_' = edge_states_ \o SubSeq(route, 1, num)
        /\ planned_node_states_' = SubSeq(route, num + 1, Len(route))
        /\ planned_edge_states_' = SubSeq(route, num + 1, Len(route))
  BY DEF Release
<1>2. /\ SubSeq(route, 1, num) \in Seq(Nat)
      /\ SubSeq(route, num + 1, Len(route)) \in Seq(Nat)
  BY Split
<1> QED
  BY <1>1, <1>2, ConcatProperties

LEMMA RouteType == ASSUME NEW n \in Nat
                   PROVE  Route(n) \in Seq(Nat) /\ Len(Route(n)) = n
  BY DEF Route

(* The initial events are well-formed and numbered 1 to 9.                 *)
LEMMA InitialQueue == Init => QueueOK(events, now, uid)
<1> SUFFICES ASSUME Init
             PROVE  QueueOK(events, now, uid)
  OBVIOUS
<1> USE DEF Event
<1>1. cfg_ \in Configs
  BY DEF Init
<1>2. /\ V \in Vda5050Config /\ T \in TeleopConfig /\ cfg_.length_s \in Nat
  BY <1>1, Delays
<1>3. InitialEvents(cfg_) =
        VdaEvents(V) \cup {Event("Stop", cfg_.length_s, 9)}
        \cup (IF cfg_.scenario = "TELEOP" THEN TeleopEvents(T) ELSE {})
  BY DEF InitialEvents, V, T
<1>4. \A e \in VdaEvents(V) :
        /\ e \in [kind : EventKind, at : Nat, uid : Nat]
        /\ e.uid \in 1..5
  BY <1>2 DEF VdaEvents, Vda5050Config, EventKind
<1>5. \A e, f \in VdaEvents(V) : e.uid = f.uid => e = f
  BY <1>2 DEF VdaEvents
<1>6. \A e \in TeleopEvents(T) :
        /\ e \in [kind : EventKind, at : Nat, uid : Nat]
        /\ e.uid \in 6..8
  BY <1>2 DEF TeleopEvents, TeleopConfig, EventKind
<1>7. \A e, f \in TeleopEvents(T) : e.uid = f.uid => e = f
  BY <1>2 DEF TeleopEvents
<1>8. Event("Stop", cfg_.length_s, 9) \in [kind : EventKind, at : Nat, uid : Nat]
  BY <1>2 DEF EventKind
<1>9. /\ events \subseteq [kind : EventKind, at : Nat, uid : Nat]
      /\ \A e \in events : e.uid \in 1..9
      /\ \A e, f \in events : e.uid = f.uid => e = f
  <2>1. \A e \in events : \/ e \in VdaEvents(V)
                          \/ e \in TeleopEvents(T)
                          \/ e = Event("Stop", cfg_.length_s, 9)
    BY <1>3 DEF Init
  <2> QED
    BY <2>1, <1>4, <1>5, <1>6, <1>7, <1>8
<1> QED
  BY <1>9 DEF Init, QueueOK, NoEvent

LEMMA InitType == Init => TypeOK
<1> SUFFICES ASSUME Init
             PROVE  TypeOK
  OBVIOUS
<1>1. QueueOK(events, now, uid)
  BY InitialQueue
<1>2. <<>> \in Seq(Nat) /\ <<>> \in Seq(Command)
  BY EmptySeq
<1>3. /\ next_state_ \in 0 .. uid - 1
      /\ next_order_ \in 0 .. uid - 1
      /\ next_control_ \in 0 .. uid - 1
  BY DEF Init, NoEvent
<1> QED
  BY <1>1, <1>2, <1>3 DEF Init, TypeOK
(* What every handler finds: an event of the queue, the next to run.       *)
LEMMA RunsFacts ==
  ASSUME TypeOK, NEW e \in events, NEW kind, Runs(e, kind)
  PROVE  /\ e \in [kind : EventKind, at : Nat, uid : Nat]
         /\ e.kind = kind /\ IsNext(e, events) /\ out = <<>> /\ running
         /\ now' = e.at /\ cfg_' = cfg_ /\ running' = running
  BY DEF TypeOK, QueueOK, Runs

(* Every step preserves the types.  Of each handler: its queue, and the    *)
(* rest.                                                                   *)
LEMMA TypeStep == TypeOK /\ NodesAndEdgesInStep /\ [Next]_vars => TypeOK'
<1> SUFFICES ASSUME TypeOK, NodesAndEdgesInStep, [Next]_vars
             PROVE  TypeOK'
  OBVIOUS
<1> USE DEF queue, ids, planned, released
<1>1. /\ V \in Vda5050Config /\ T \in TeleopConfig
      /\ uid \in Nat /\ NoEvent = 0
  BY Delays DEF TypeOK, QueueOK, NoEvent
<1>2. <<>> \in Seq(Nat) /\ <<>> \in Seq(Command)
  BY EmptySeq
<1>3. ASSUME NEW e \in events, sendConnection(e)
      PROVE  TypeOK'
  <2>1. Runs(e, "sendConnection")
    BY <1>3 DEF sendConnection
  <2>2. Schedules(e)
    BY <1>1, <1>3 DEF Schedules, sendConnection
  <2>3. QueueOK(events', now', uid')
    BY <2>1, <2>2, RunsFacts, QueueStep
  <2>4. executeCommandUe("PUBLISH_VDA", "connection", Plain("ONLINE")) \in Command
    BY PlainCommand DEF executeCommandUe, Worker, CommandType, Topic, Text
  <2> QED
    BY <1>3, <2>1, <2>3, <2>4, RunsFacts DEF sendConnection, TypeOK
<1>4. ASSUME NEW e \in events, sendFactsheetRequest(e)
      PROVE  TypeOK'
  <2>1. Runs(e, "sendFactsheetRequest")
    BY <1>4 DEF sendFactsheetRequest
  <2>2. V.factsheet_response_time_ms \in Nat /\ "sendFactsheet" \in EventKind
    BY <1>1 DEF Vda5050Config, EventKind
  <2>3. e \in EventType
    BY <2>1, RunsFacts DEF EventType
  <2>4. Schedules(e)
    BY <1>1, <1>4, <2>2, <2>3 DEF Schedules, sendFactsheetRequest, Later, Event, EventType
  <2>5. QueueOK(events', now', uid')
    BY <2>1, <2>4, RunsFacts, QueueStep
  <2>6. instantActions("requestFactsheet") \in Command
    BY PlainCommand DEF instantActions, executeCommandBase, Worker, CommandType, Topic, Text
  <2> QED
    BY <1>1, <1>4, <2>1, <2>5, <2>6, RunsFacts DEF sendFactsheetRequest, TypeOK
<1>5. ASSUME NEW e \in events, sendFactsheet(e)
      PROVE  TypeOK'
  <2>1. Runs(e, "sendFactsheet")
    BY <1>5 DEF sendFactsheet
  <2>2. Schedules(e)
    BY <1>1, <1>5 DEF Schedules, sendFactsheet
  <2>3. QueueOK(events', now', uid')
    BY <2>1, <2>2, RunsFacts, QueueStep
  <2>4. executeCommandUe("PUBLISH_VDA", "factsheet", Plain("factsheet")) \in Command
    BY PlainCommand DEF executeCommandUe, Worker, CommandType, Topic, Text
  <2> QED
    BY <1>5, <2>1, <2>3, <2>4, RunsFacts DEF sendFactsheet, TypeOK
<1>6. ASSUME NEW e \in events, sendVisualization(e)
      PROVE  TypeOK'
  <2>1. Runs(e, "sendVisualization")
    BY <1>6 DEF sendVisualization
  <2>2. V.visualization_period_ms \in Nat /\ "sendVisualization" \in EventKind
    BY <1>1 DEF Vda5050Config, EventKind
  <2>3. e \in EventType
    BY <2>1, RunsFacts DEF EventType
  <2>4. Schedules(e)
    BY <1>1, <1>6, <2>2, <2>3 DEF Schedules, sendVisualization, Later, Event, EventType
  <2>5. QueueOK(events', now', uid')
    BY <2>1, <2>4, RunsFacts, QueueStep
  <2>6. executeCommandUe("PUBLISH_VDA", "visualization", Plain("visualization")) \in Command
    BY PlainCommand DEF executeCommandUe, Worker, CommandType, Topic, Text
  <2> QED
    BY <1>1, <1>6, <2>1, <2>5, <2>6, RunsFacts DEF sendVisualization, TypeOK
<1>7. ASSUME NEW e \in events, requestTeleoperationCapabilities(e)
      PROVE  TypeOK'
  <2>1. Runs(e, "requestTeleoperationCapabilities")
    BY <1>7 DEF requestTeleoperationCapabilities
  <2>2. T.send_teleoperation_capability_after_request_ms \in Nat /\ "sendTeleoperationCapabilities" \in EventKind
    BY <1>1 DEF TeleopConfig, EventKind
  <2>3. e \in EventType
    BY <2>1, RunsFacts DEF EventType
  <2>4. Schedules(e)
    BY <1>1, <1>7, <2>2, <2>3 DEF Schedules, requestTeleoperationCapabilities, Later, Event, EventType
  <2>5. QueueOK(events', now', uid')
    BY <2>1, <2>4, RunsFacts, QueueStep
  <2>6. instantActions("requestTeleoperationCapability") \in Command
    BY PlainCommand DEF instantActions, executeCommandBase, Worker, CommandType, Topic, Text
  <2> QED
    BY <1>1, <1>7, <2>1, <2>5, <2>6, RunsFacts DEF requestTeleoperationCapabilities, TypeOK
<1>8. ASSUME NEW e \in events, sendTeleoperationCapabilities(e)
      PROVE  TypeOK'
  <2>1. Runs(e, "sendTeleoperationCapabilities")
    BY <1>8 DEF sendTeleoperationCapabilities
  <2>2. Schedules(e)
    BY <1>1, <1>8 DEF Schedules, sendTeleoperationCapabilities
  <2>3. QueueOK(events', now', uid')
    BY <2>1, <2>2, RunsFacts, QueueStep
  <2>4. executeCommandUe("PUBLISH_TELEOP", "teleoperationCapabilities",
                         Plain("capabilities")) \in Command
    BY PlainCommand DEF executeCommandUe, Worker, CommandType, Topic, Text
  <2> QED
    BY <1>8, <2>1, <2>3, <2>4, RunsFacts DEF sendTeleoperationCapabilities, TypeOK
<1>9. ASSUME NEW e \in events, sendControl(e)
      PROVE  TypeOK'
  <2>1. Runs(e, "sendControl")
    BY <1>9 DEF sendControl
  <2>2. T.control_command_period_ms \in Nat /\ "sendControl" \in EventKind
    BY <1>1 DEF TeleopConfig, EventKind
  <2>3. e \in EventType
    BY <2>1, RunsFacts DEF EventType
  <2>4. Schedules(e)
    BY <1>1, <1>9, <2>2, <2>3 DEF Schedules, sendControl, Later, Event, EventType
  <2>5. QueueOK(events', now', uid')
    BY <2>1, <2>4, RunsFacts, QueueStep
  <2>6. executeCommandBase("PUBLISH_TELEOP", "control", Plain("speeds")) \in Command
    BY PlainCommand DEF executeCommandBase, Worker, CommandType, Topic, Text
  <2> QED
    BY <1>1, <1>9, <2>1, <2>5, <2>6, RunsFacts DEF sendControl, TypeOK
<1>10. ASSUME NEW e \in events, Stop(e)
       PROVE  TypeOK'
  <2>1. /\ IsNext(e, events) /\ now' = e.at
        /\ events' = events \ {e} /\ uid' = uid
    BY <1>10 DEF Stop
  <2>2. Schedules(e)
    BY <1>1, <2>1 DEF Schedules
  <2>3. QueueOK(events', now', uid')
    BY <2>1, <2>2, QueueStep
  <2>4. /\ executeCommandUe("EXIT", "", Plain("")) \in Command
        /\ executeCommandBase("EXIT", "Test", Plain("Test")) \in Command
    BY PlainCommand
    DEF executeCommandUe, executeCommandBase, Worker, CommandType, Topic, Text
  <2>5. out' \in Seq(Command)
    <3> DEFINE a == executeCommandUe("EXIT", "", Plain(""))
               b == executeCommandBase("EXIT", "Test", Plain("Test"))
    <3>1. out' = <<a, b>>
      BY <1>10 DEF Stop
    <3>2. a \in Command /\ b \in Command
      BY <2>4
    <3> HIDE DEF a, b
    <3> QED
      BY <3>1, <3>2
  <2>6. /\ UNCHANGED <<cfg_, uid, ids, planned, released, order_update_id_,
                       teleoperating_>>
        /\ running' = FALSE
    BY <1>10 DEF Stop
  <2> QED
    BY <2>3, <2>5, <2>6 DEF TypeOK
<1>11. CASE Send
  <2>1. Tail(out) \in Seq(Command)
    BY <1>11 DEF Send, TypeOK
  <2>2. QueueOK(events', now', uid')
    BY <1>11 DEF Send, TypeOK
  <2> QED
    BY <1>11, <2>1, <2>2 DEF Send, TypeOK
<1>12. CASE Terminated \/ UNCHANGED vars
  <2>1. UNCHANGED vars
    BY <1>12 DEF Terminated
  <2>2. QueueOK(events', now', uid')
    BY <2>1 DEF vars, TypeOK
  <2> QED
    BY <2>1, <2>2 DEF vars, TypeOK<1>13. ASSUME NEW e \in events, sendOrder(e)
       PROVE  TypeOK'
  <2>1. Runs(e, "sendOrder")
    BY <1>13 DEF sendOrder
  <2>2. /\ V.send_order_continuation_ms \in Nat /\ "sendOrder" \in EventKind
        /\ V.send_state_after_order_ms \in Nat /\ "sendState" \in EventKind
    BY <1>1 DEF Vda5050Config, EventKind
  <2>3. e \in EventType
    BY <2>1, RunsFacts DEF EventType
  <2>4. Schedules(e)
    BY <1>1, <1>13, <2>2, <2>3
    DEF Schedules, sendOrder, OrderEvents, AfterOrder, Cancel, Later, Event, EventType
  <2>5. QueueOK(events', now', uid')
    BY <2>1, <2>4, RunsFacts, QueueStep
  <2>6. /\ planned_node_states_' \in Seq(Nat) /\ planned_edge_states_' \in Seq(Nat)
        /\ node_states_' \in Seq(Nat) /\ edge_states_' \in Seq(Nat)
        /\ order_update_id_' \in Nat
    <3>1. PlanAndRelease
      BY <1>13 DEF sendOrder
    <3>2. ASSUME NEW n \in V.order_len_min .. V.order_len_max,
                 Release(Route(n), Route(n))
          PROVE  /\ planned_node_states_' \in Seq(Nat)
                 /\ planned_edge_states_' \in Seq(Nat)
                 /\ node_states_' \in Seq(Nat) /\ edge_states_' \in Seq(Nat)
      <4>1. n \in Nat
        BY <1>1 DEF Vda5050Config
      <4> QED
        BY <3>2, <4>1, RouteType, ReleaseTypes DEF TypeOK
    <3>3. ASSUME Release(planned_node_states_, planned_edge_states_)
          PROVE  /\ planned_node_states_' \in Seq(Nat)
                 /\ planned_edge_states_' \in Seq(Nat)
                 /\ node_states_' \in Seq(Nat) /\ edge_states_' \in Seq(Nat)
      <4>1. planned_edge_states_ = planned_node_states_
        BY DEF NodesAndEdgesInStep
      <4> QED
        BY <3>3, <4>1, ReleaseTypes DEF TypeOK
    <3> QED
      BY <3>1, <3>2, <3>3 DEF PlanAndRelease, TypeOK
  <2>7. executeCommandBase("PUBLISH_VDA", "order",
                           Lists("order", node_states_', edge_states_')) \in Command
    BY <2>6, ListCommand DEF executeCommandBase, Worker, CommandType, Topic, Text
  <2>8. next_state_' \in 0 .. uid' - 1
    BY <1>1, <1>13 DEF sendOrder
  <2> QED
    BY <1>1, <1>13, <2>1, <2>5, <2>6, <2>7, <2>8, RunsFacts DEF sendOrder, TypeOK
<1>14. ASSUME NEW e \in events, sendState(e)
       PROVE  TypeOK'
  <2>1. Runs(e, "sendState")
    BY <1>14 DEF sendState
  <2>2. /\ V.idle_state_interval_ms \in Nat /\ V.order_finish_step_ms \in Nat
        /\ V.next_order_after_finish_ms \in Nat
        /\ "sendOrder" \in EventKind /\ "sendState" \in EventKind
    BY <1>1 DEF Vda5050Config, EventKind
  <2>3. e \in EventType
    BY <2>1, RunsFacts DEF EventType
  <2>4. Schedules(e)
    BY <1>1, <1>14, <2>2, <2>3 DEF Schedules, sendState, Later, Event, EventType
  <2>5. QueueOK(events', now', uid')
    BY <2>1, <2>4, RunsFacts, QueueStep
  <2>6. node_states_' \in Seq(Nat) /\ edge_states_' \in Seq(Nat)
    <3>1. CASE NothingReleased /\ UNCHANGED released
      BY <3>1 DEF TypeOK
    <3>2. CASE ~NothingReleased /\ Advance
      <4>1. /\ node_states_ # <<>>
            /\ Len(node_states_) = Len(edge_states_) => edge_states_ # <<>>
        BY <3>2 DEF NodesAndEdgesInStep, NothingReleased
      <4>2. node_states_ \in Seq(Nat) /\ edge_states_ \in Seq(Nat)
        BY DEF TypeOK
      <4>3. CASE Len(node_states_) = Len(edge_states_)
        BY <3>2, <4>1, <4>2, <4>3, HeadTailProperties DEF Advance
      <4>4. CASE Len(node_states_) # Len(edge_states_)
        BY <3>2, <4>1, <4>2, <4>4, HeadTailProperties DEF Advance
      <4> QED
        BY <4>3, <4>4
    <3>3. \/ NothingReleased /\ UNCHANGED <<released, next_order_>>
          \/ ~NothingReleased /\ Advance
      BY <1>14 DEF sendState
    <3> QED
      BY <3>1, <3>2, <3>3
  <2>7. executeCommandUe("PUBLISH_VDA", "state",
                         Lists("state", node_states_, edge_states_)) \in Command
    BY ListCommand DEF executeCommandUe, Worker, CommandType, Topic, Text, TypeOK
  <2>8. next_state_' \in 0 .. uid' - 1 /\ next_order_' \in 0 .. uid' - 1
    BY <1>1, <1>14 DEF sendState, TypeOK
  <2>9. UNCHANGED <<planned, next_control_, order_update_id_, teleoperating_>>
    BY <1>14 DEF sendState
  <2>10. next_control_' \in 0 .. uid' - 1
    <3>1. uid' = uid + 1 \/ uid' = uid + 2
      BY <1>14 DEF sendState
    <3> QED
      BY <1>1, <2>9, <3>1 DEF TypeOK
  <2>11. out' \in Seq(Command)
    BY <1>14, <2>7 DEF sendState
  <2> QED
    BY <2>1, <2>5, <2>6, <2>8, <2>9, <2>10, <2>11, RunsFacts DEF TypeOK
<1>15. ASSUME NEW e \in events, startTeleoperation(e)
       PROVE  TypeOK'
  <2>1. Runs(e, "startTeleoperation")
    BY <1>15 DEF startTeleoperation
  <2>2. /\ T.teleoperation_state_after_toggle_teleop_ms \in Nat
        /\ T.state_after_toggle_teleop_ms \in Nat
        /\ "sendTeleoperationState" \in EventKind /\ "sendState" \in EventKind
    BY <1>1 DEF TeleopConfig, EventKind
  <2>3. e \in EventType
    BY <2>1, RunsFacts DEF EventType
  <2>4. Schedules(e)
    BY <1>1, <1>15, <2>2, <2>3
    DEF Schedules, startTeleoperation, StartEvents, AfterToggle, Cancel, Later,
        Event, EventType
  <2>5. QueueOK(events', now', uid')
    BY <2>1, <2>4, RunsFacts, QueueStep
  <2>6. instantActions("startTeleoperation") \in Command
    BY PlainCommand
    DEF instantActions, executeCommandBase, Worker, CommandType, Topic, Text
  <2>7. /\ next_state_' \in 0 .. uid' - 1 /\ next_order_' \in 0 .. uid' - 1
        /\ next_control_' \in 0 .. uid' - 1
    BY <1>1, <1>15 DEF startTeleoperation, TypeOK
  <2> QED
    BY <1>2, <1>15, <2>1, <2>5, <2>6, <2>7, RunsFacts DEF startTeleoperation, TypeOK
<1>16. ASSUME NEW e \in events, stopTeleoperation(e)
       PROVE  TypeOK'
  <2>1. Runs(e, "stopTeleoperation")
    BY <1>16 DEF stopTeleoperation
  <2>2. /\ T.teleoperation_state_after_toggle_teleop_ms \in Nat
        /\ T.state_after_toggle_teleop_ms \in Nat
        /\ T.restart_order_simulation_after_teleoperation_stop_ms \in Nat
        /\ "sendTeleoperationState" \in EventKind /\ "sendState" \in EventKind
        /\ "sendOrder" \in EventKind
    BY <1>1 DEF TeleopConfig, EventKind
  <2>3. e \in EventType
    BY <2>1, RunsFacts DEF EventType
  <2>4. Schedules(e)
    BY <1>1, <1>16, <2>2, <2>3
    DEF Schedules, stopTeleoperation, StopEvents, AfterToggle, RestartOrder,
        Cancel, Later, Event, EventType
  <2>5. QueueOK(events', now', uid')
    BY <2>1, <2>4, RunsFacts, QueueStep
  <2>6. instantActions("stopTeleoperation") \in Command
    BY PlainCommand
    DEF instantActions, executeCommandBase, Worker, CommandType, Topic, Text
  <2>7. /\ next_state_' \in 0 .. uid' - 1 /\ next_order_' \in 0 .. uid' - 1
        /\ next_control_' \in 0 .. uid' - 1
    BY <1>1, <1>16 DEF stopTeleoperation, TypeOK
  <2>8. /\ UNCHANGED <<planned, released, order_update_id_>>
        /\ teleoperating_' = FALSE /\ out' \in Seq(Command)
    BY <1>16, <2>6 DEF stopTeleoperation
  <2> QED
    BY <2>1, <2>5, <2>7, <2>8, RunsFacts DEF TypeOK
<1>17. ASSUME NEW e \in events, sendTeleoperationState(e)
       PROVE  TypeOK'
  <2>1. Runs(e, "sendTeleoperationState")
    BY <1>17 DEF sendTeleoperationState, ControlDue
  <2>2. /\ T.control_stream_start_after_teleop_state_ms \in Nat
        /\ "sendControl" \in EventKind
    BY <1>1 DEF TeleopConfig, EventKind
  <2>3. e \in EventType
    BY <2>1, RunsFacts DEF EventType
  <2>4. Schedules(e)
    <3>1. /\ \/ /\ events' = (events \ {e})
                     \cup {Later(e, "sendControl",
                             T.control_stream_start_after_teleop_state_ms, 0)}
                /\ uid' = uid + 1
             \/ events' = events \ {e} /\ uid' = uid
      BY <1>17 DEF sendTeleoperationState, ControlDue
    <3> QED
      BY <1>1, <2>2, <2>3, <3>1 DEF Schedules, Later, Event, EventType
  <2>5. QueueOK(events', now', uid')
    BY <2>1, <2>4, RunsFacts, QueueStep
  <2>6. out' \in Seq(Command)
    <3>1. \A text \in Text :
            executeCommandUe("PUBLISH_TELEOP", "teleop_state", Plain(text)) \in Command
      BY PlainCommand DEF executeCommandUe, Worker, CommandType, Topic
    <3>2. executeCommandUe(VideoCommand, "", Plain("")) \in Command
      BY PlainCommand
      DEF executeCommandUe, VideoCommand, Worker, CommandType, Topic, Text
    <3>3. PICK text \in Text :
            out' = <<executeCommandUe("PUBLISH_TELEOP", "teleop_state",
                                      Plain(text)),
                     executeCommandUe(VideoCommand, "", Plain(""))>>
      <4>1. (IF teleoperating_ THEN "teleoperating" ELSE "not teleoperating")
              \in Text
        BY DEF Text
      <4> QED
        BY <1>17, <4>1 DEF sendTeleoperationState, ControlDue
    <3>4. \E a, b \in Command : out' = <<a, b>>
      BY <3>1, <3>2, <3>3
    <3> QED
      BY <3>4
  <2>7. /\ next_state_' \in 0 .. uid' - 1 /\ next_order_' \in 0 .. uid' - 1
        /\ next_control_' \in 0 .. uid' - 1
    <3>1. /\ \/ next_control_' = uid /\ uid' = uid + 1
             \/ next_control_' = next_control_ /\ uid' = uid
          /\ next_state_' = next_state_ /\ next_order_' = next_order_
      BY <1>17 DEF sendTeleoperationState, ControlDue
    <3> QED
      BY <1>1, <3>1 DEF TypeOK
  <2> QED
    BY <1>17, <2>1, <2>5, <2>6, <2>7, RunsFacts DEF sendTeleoperationState, TypeOK
<1> QED
  BY <1>3, <1>4, <1>5, <1>6, <1>7, <1>8, <1>9, <1>10, <1>11, <1>12, <1>13,
     <1>14, <1>15, <1>16, <1>17
  DEF Next, Handler
-------------------------------------------------------------------------------
(* Nodes and edges stay in step.                                           *)

(* Releasing the same part of the route on both sides keeps them in step.  *)
LEMMA ReleaseInStep ==
  ASSUME node_states_ \in Seq(Nat), edge_states_ \in Seq(Nat),
         NodesAndEdgesInStep, NEW route \in Seq(Nat), Release(route, route)
  PROVE  NodesAndEdgesInStep' /\ node_states_' # <<>>
<1>1. PICK num \in 1..Len(route) :
        /\ node_states_' = node_states_ \o SubSeq(route, 1, num)
        /\ edge_states_' = edge_states_ \o SubSeq(route, 1, num)
        /\ planned_node_states_' = SubSeq(route, num + 1, Len(route))
        /\ planned_edge_states_' = SubSeq(route, num + 1, Len(route))
  BY DEF Release
<1> DEFINE part == SubSeq(route, 1, num)
<1>2. part \in Seq(Nat) /\ part # <<>>
  <2>1. \A i \in 1..num : route[i] \in Nat
    OBVIOUS
  <2>2. part \in Seq(Nat) /\ Len(part) = num
    BY <2>1, SubSeqProperties
  <2> HIDE DEF part
  <2> QED
    BY <2>2, EmptySeq
<1> HIDE DEF part
<1>3. node_states_ \o part # <<>>
  BY <1>2, ConcatProperties
<1>4. CASE edge_states_ = node_states_
  BY <1>1, <1>3, <1>4 DEF NodesAndEdgesInStep, part
<1>5. CASE node_states_ # <<>> /\ edge_states_ = Tail(node_states_)
  <2>1. Tail(node_states_ \o part) = Tail(node_states_) \o part
    <3>1. Tail(node_states_) \in Seq(Nat) /\ Tail(node_states_ \o part) \in Seq(Nat)
      BY <1>2, <1>3, <1>5, ConcatProperties, HeadTailProperties
    <3>2. Len(Tail(node_states_ \o part)) = Len(Tail(node_states_) \o part)
      BY <1>2, <1>3, <1>5, <3>1, ConcatProperties, HeadTailProperties
    <3>3. \A i \in 1 .. Len(Tail(node_states_) \o part) :
            Tail(node_states_ \o part)[i] = (Tail(node_states_) \o part)[i]
      BY <1>2, <1>3, <1>5, <3>1, <3>2, ConcatProperties, HeadTailProperties
    <3> QED
      BY <1>2, <3>1, <3>2, <3>3, ConcatProperties, SeqEqual
  <2> QED
    BY <1>1, <1>3, <1>5, <2>1 DEF NodesAndEdgesInStep, part
<1> QED
  BY <1>4, <1>5 DEF NodesAndEdgesInStep

LEMMA InStepStep ==
  TypeOK /\ NodesAndEdgesInStep /\ [Next]_vars => NodesAndEdgesInStep'
<1> SUFFICES ASSUME TypeOK, NodesAndEdgesInStep, [Next]_vars
             PROVE  NodesAndEdgesInStep'
  OBVIOUS
<1> USE DEF queue, ids, planned, released
<1>1. /\ planned_node_states_ \in Seq(Nat)
      /\ node_states_ \in Seq(Nat) /\ edge_states_ \in Seq(Nat)
  BY DEF TypeOK
<1>2. ASSUME NEW e \in events, sendOrder(e)
      PROVE  NodesAndEdgesInStep'
  <2>1. PlanAndRelease
    BY <1>2 DEF sendOrder
  <2>2. CASE \E n \in V.order_len_min .. V.order_len_max : Release(Route(n), Route(n))
    <3>1. PICK n \in V.order_len_min .. V.order_len_max : Release(Route(n), Route(n))
      BY <2>2
    <3>2. V \in Vda5050Config
      BY Delays DEF TypeOK
    <3>3. n \in Nat
      BY <3>2 DEF Vda5050Config
    <3> QED
      BY <1>1, <3>1, <3>3, RouteType, ReleaseInStep
  <2>3. CASE Release(planned_node_states_, planned_edge_states_)
    <3>1. planned_edge_states_ = planned_node_states_
      BY DEF NodesAndEdgesInStep
    <3> QED
      BY <1>1, <2>3, <3>1, ReleaseInStep
  <2> QED
    BY <2>1, <2>2, <2>3 DEF PlanAndRelease
<1>3. ASSUME NEW e \in events, sendState(e)
      PROVE  NodesAndEdgesInStep'
  <2>1. UNCHANGED planned
    BY <1>3 DEF sendState
  <2>2. \/ UNCHANGED <<released, next_order_>>
        \/ ~NothingReleased /\ Advance
    BY <1>3 DEF sendState
  <2>3. CASE UNCHANGED <<released, next_order_>>
    BY <2>1, <2>3 DEF NodesAndEdgesInStep
  <2>4. CASE ~NothingReleased /\ Advance
    <3>1. CASE edge_states_ = node_states_
      BY <2>1, <2>4, <3>1 DEF NodesAndEdgesInStep, Advance, NothingReleased
    <3>2. CASE node_states_ # <<>> /\ edge_states_ = Tail(node_states_)
      <4>1. Len(node_states_) # Len(edge_states_)
        BY <1>1, <3>2, HeadTailProperties
      <4> QED
        BY <2>1, <2>4, <3>2, <4>1 DEF NodesAndEdgesInStep, Advance
    <3> QED
      BY <3>1, <3>2 DEF NodesAndEdgesInStep
  <2> QED
    BY <2>2, <2>3, <2>4
<1>4. ASSUME NEW e \in events, startTeleoperation(e)
      PROVE  NodesAndEdgesInStep'
  BY <1>4 DEF startTeleoperation, NodesAndEdgesInStep
<1>5. CASE UNCHANGED <<planned, released>>
  BY <1>5 DEF NodesAndEdgesInStep
<1> QED
  BY <1>2, <1>3, <1>4, <1>5
  DEF Next, Handler, sendConnection, sendFactsheetRequest, sendFactsheet,
      sendVisualization, requestTeleoperationCapabilities,
      sendTeleoperationCapabilities, stopTeleoperation, sendTeleoperationState,
      sendControl, Stop, Send, Terminated, vars

(* The types and the lockstep hold each other up: a release takes as many  *)
(* edges as nodes, which is a list only when there are as many.            *)
Lockstep == TypeOK /\ NodesAndEdgesInStep

THEOREM LockstepInvariant == Spec => []Lockstep
<1>1. Init => Lockstep
  BY InitType DEF Init, NodesAndEdgesInStep, Lockstep
<1>2. Lockstep /\ [Next]_vars => Lockstep'
  BY TypeStep, InStepStep DEF Lockstep
<1> QED
  BY <1>1, <1>2, PTL DEF Spec

(* TypeOK, and with it that no handler of agv.cpp schedules into the past  *)
(* or lets two pending events share a number.                              *)
THEOREM TypeCorrect == Spec => []TypeOK
<1>1. Lockstep => TypeOK
  BY DEF Lockstep
<1> QED
  BY <1>1, LockstepInvariant, PTL

(* Every front() and pop_front() of sendOrder and sendState finds a        *)
(* non-empty deque: nodes and edges are released and travelled in step.    *)
THEOREM InStep == Spec => []NodesAndEdgesInStep
<1>1. Lockstep => NodesAndEdgesInStep
  BY DEF Lockstep
<1> QED
  BY <1>1, LockstepInvariant, PTL
===============================================================================
