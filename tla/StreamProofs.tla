----------------------------- MODULE StreamProofs -----------------------------
(***************************************************************************)
(* Proofs about the Controller's streams of states, orders and control     *)
(* commands: which events are pending for them, through orders and         *)
(* teleoperation, for every set of configurations.                         *)
(***************************************************************************)
EXTENDS ControllerProofs

(* The kinds of events the streams are made of.                            *)
StreamKind ==
  {"sendOrder", "sendState", "startTeleoperation", "stopTeleoperation",
   "sendTeleoperationState", "sendControl"}

(* An EventId kept names an event of its own handler, or none any more:    *)
(* Cancel() never hits another stream.                                     *)
NamesOK ==
  \A f \in events :
    /\ f.uid = next_state_ => f.kind = "sendState"
    /\ f.uid = next_order_ => f.kind = "sendOrder"
    /\ f.uid = next_control_ => f.kind = "sendControl"

(* The events that toggle teleoperation are those main() scheduled.        *)
TogglesOK ==
  \A f \in events :
    /\ f.kind = "startTeleoperation" =>
         cfg_.scenario = "TELEOP" /\ f.uid = 7 /\ f.at = T.start_s
    /\ f.kind = "stopTeleoperation" =>
         cfg_.scenario = "TELEOP" /\ f.uid = 8 /\ f.at = T.stop_s

(* What is to be started is to be stopped.                                 *)
StopPending ==
  EventsOf("startTeleoperation") # {} => EventsOf("stopTeleoperation") # {}

(* Nothing of teleoperation is pending before it starts.                   *)
QuietBefore ==
  ~TakenOver => /\ ~teleoperating_
                /\ EventsOf("sendTeleoperationState") = {}
                /\ EventsOf("sendControl") = {}

-------------------------------------------------------------------------------
(* What each step does to the streams.                                     *)

(* Handlers that keep no state, the sending of a command and stuttering    *)
(* leave every stream alone.                                               *)
Bystander(e) ==
  \/ sendConnection(e) \/ sendFactsheetRequest(e) \/ sendFactsheet(e)
  \/ sendVisualization(e) \/ requestTeleoperationCapabilities(e)
  \/ sendTeleoperationCapabilities(e)

LEMMA BystanderEffect ==
  ASSUME TypeOK, NEW e \in events, Bystander(e), NEW k \in StreamKind
  PROVE  EventsOf(k)' = EventsOf(k)
<1>1. e.kind \notin StreamKind
  BY DEF Bystander, sendConnection, sendFactsheetRequest, sendFactsheet,
         sendVisualization, requestTeleoperationCapabilities,
         sendTeleoperationCapabilities, Runs, StreamKind
<1>2. \/ events' = events \ {e}
      \/ \E kind, delay : /\ kind \notin StreamKind
                          /\ events' = (events \ {e}) \cup {Later(e, kind, delay, 0)}
  BY DEF Bystander, sendConnection, sendFactsheetRequest, sendFactsheet,
         sendVisualization, requestTeleoperationCapabilities,
         sendTeleoperationCapabilities, StreamKind
<1> QED
  BY <1>1, <1>2 DEF EventsOf, Later, Event

LEMMA BystanderFrame ==
  ASSUME NEW e \in events, Bystander(e)
  PROVE  UNCHANGED <<cfg_, ids, planned, released, teleoperating_, running>>
  BY DEF Bystander, sendConnection, sendFactsheetRequest, sendFactsheet,
         sendVisualization, requestTeleoperationCapabilities,
         sendTeleoperationCapabilities, Runs, ids, planned, released

(* An order cancels the pending state report and schedules its own.        *)
LEMMA OrderEffect ==
  ASSUME TypeOK, NamesOK, NEW e \in events, sendOrder(e)
  PROVE  /\ e \in EventsOf("sendOrder")
         /\ EventsOf("sendOrder")' =
              (EventsOf("sendOrder") \ {e})
              \cup (IF planned_node_states_' # <<>>
                    THEN {Later(e, "sendOrder", V.send_order_continuation_ms, 0)}
                    ELSE {})
         /\ EventsOf("sendState")' =
              {f \in EventsOf("sendState") : f.uid # next_state_}
              \cup {Later(e, "sendState", V.send_state_after_order_ms, 1)}
         /\ \A k \in StreamKind \ {"sendOrder", "sendState"} :
              EventsOf(k)' = EventsOf(k)
<1>1. e.kind = "sendOrder"
  BY DEF sendOrder, Runs
<1>2. events' = Cancel(events \ {e}, next_state_) \cup AfterOrder(e)
  BY DEF sendOrder, OrderEvents
<1> QED
  BY <1>1, <1>2
  DEF EventsOf, StreamKind, Cancel, AfterOrder, Later, Event, NamesOK
(* A state report schedules the next one, and the next order when it has   *)
(* finished the last leg.                                                  *)
LEMMA StateEffect ==
  ASSUME TypeOK, NamesOK, NEW e \in events, sendState(e)
  PROVE  /\ e \in EventsOf("sendState")
         /\ \E n : /\ n.uid = next_state_'
                   /\ EventsOf("sendState")' = (EventsOf("sendState") \ {e}) \cup {n}
         /\ \/ /\ ~(~NothingReleased /\ NextOrderDue)
               /\ EventsOf("sendOrder")' = EventsOf("sendOrder")
            \/ /\ ~NothingReleased /\ NextOrderDue
               /\ \E n : EventsOf("sendOrder")' = EventsOf("sendOrder") \cup {n}
         /\ \A k \in StreamKind \ {"sendOrder", "sendState"} :
              EventsOf(k)' = EventsOf(k)
<1>1. e.kind = "sendState"
  BY DEF sendState, Runs
<1>2. \/ /\ NothingReleased /\ next_state_' = uid
         /\ events' = (events \ {e})
                        \cup {Later(e, "sendState", V.idle_state_interval_ms, 0)}
      \/ /\ ~NothingReleased /\ next_state_' = uid
         /\ events' = (events \ {e})
              \cup {Later(e, "sendState", V.order_finish_step_ms, 0)}
              \cup (IF NextOrderDue
                    THEN {Later(e, "sendOrder", V.next_order_after_finish_ms, 1)}
                    ELSE {})
  BY DEF sendState
<1>3. e \in EventsOf("sendState")
  BY <1>1 DEF EventsOf
<1>4. uid + 0 = uid
  BY DEF TypeOK, QueueOK
<1>5. ASSUME NEW d, next_state_' = uid,
             \A f : f \in events' /\ f.kind = "sendState"
                      <=> \/ f \in events \ {e} /\ f.kind = "sendState"
                          \/ f = Later(e, "sendState", d, 0)
      PROVE  \E n : /\ n.uid = next_state_'
                    /\ EventsOf("sendState")' = (EventsOf("sendState") \ {e}) \cup {n}
  BY <1>4, <1>5 DEF EventsOf, Later, Event
<1>6. CASE NothingReleased
  BY <1>1, <1>2, <1>3, <1>5, <1>6 DEF EventsOf, StreamKind, Later, Event
<1>7. CASE ~NothingReleased /\ ~NextOrderDue
  BY <1>1, <1>2, <1>3, <1>5, <1>7 DEF EventsOf, StreamKind, Later, Event
<1>8. CASE ~NothingReleased /\ NextOrderDue
  <2>1. /\ next_state_' = uid
        /\ events' = (events \ {e})
             \cup {Later(e, "sendState", V.order_finish_step_ms, 0),
                   Later(e, "sendOrder", V.next_order_after_finish_ms, 1)}
    BY <1>2, <1>8
  <2>2. EventsOf("sendOrder")' = EventsOf("sendOrder")
          \cup {Later(e, "sendOrder", V.next_order_after_finish_ms, 1)}
    BY <1>1, <2>1 DEF EventsOf, Later, Event
  <2>3. \E n : /\ n.uid = next_state_'
               /\ EventsOf("sendState")' = (EventsOf("sendState") \ {e}) \cup {n}
    BY <1>5, <2>1 DEF Later, Event
  <2>4. \A k \in StreamKind \ {"sendOrder", "sendState"} :
          EventsOf(k)' = EventsOf(k)
    BY <1>1, <2>1 DEF EventsOf, StreamKind, Later, Event
  <2> QED
    BY <1>3, <1>8, <2>2, <2>3, <2>4
<1> QED
  BY <1>6, <1>7, <1>8
(* Taking over drops the next order and replaces the state report.         *)
LEMMA StartEffect ==
  ASSUME TypeOK, NamesOK, NEW e \in events, startTeleoperation(e)
  PROVE  /\ e \in EventsOf("startTeleoperation")
         /\ EventsOf("startTeleoperation")' = EventsOf("startTeleoperation") \ {e}
         /\ EventsOf("sendOrder")' =
              {f \in EventsOf("sendOrder") : f.uid # next_order_}
         /\ \E n : EventsOf("sendTeleoperationState")' =
                     EventsOf("sendTeleoperationState") \cup {n}
         /\ \E n : /\ n.uid = next_state_'
                   /\ EventsOf("sendState")' =
                        {f \in EventsOf("sendState") : f.uid # next_state_} \cup {n}
         /\ \A k \in {"stopTeleoperation", "sendControl"} :
              EventsOf(k)' = EventsOf(k)
<1>1. e.kind = "startTeleoperation"
  BY DEF startTeleoperation, Runs
<1>2. /\ events' = Cancel(Cancel(events \ {e}, next_order_), next_state_)
                     \cup AfterToggle(e)
      /\ next_state_' = uid + 1
  BY DEF startTeleoperation, StartEvents
<1>3. /\ e \in EventsOf("startTeleoperation")
      /\ EventsOf("startTeleoperation")' = EventsOf("startTeleoperation") \ {e}
      /\ EventsOf("sendOrder")' =
           {f \in EventsOf("sendOrder") : f.uid # next_order_}
  BY <1>1, <1>2 DEF EventsOf, Cancel, AfterToggle, Later, Event, NamesOK
<1>4. EventsOf("sendTeleoperationState")' =
        EventsOf("sendTeleoperationState")
          \cup {Later(e, "sendTeleoperationState",
                      T.teleoperation_state_after_toggle_teleop_ms, 0)}
  BY <1>1, <1>2 DEF EventsOf, Cancel, AfterToggle, Later, Event, NamesOK
<1>5. EventsOf("sendState")' =
        {f \in EventsOf("sendState") : f.uid # next_state_}
          \cup {Later(e, "sendState", T.state_after_toggle_teleop_ms, 1)}
  BY <1>1, <1>2 DEF EventsOf, Cancel, AfterToggle, Later, Event, NamesOK
<1>6. Later(e, "sendState", T.state_after_toggle_teleop_ms, 1).uid = next_state_'
  BY <1>2 DEF Later, Event
<1>7. \A k \in {"stopTeleoperation", "sendControl"} : EventsOf(k)' = EventsOf(k)
  BY <1>1, <1>2 DEF EventsOf, Cancel, AfterToggle, Later, Event, NamesOK
<1> QED
  BY <1>3, <1>4, <1>5, <1>6, <1>7

(* Handing back drops the control stream, replaces the state report and    *)
(* adds an order.                                                          *)
LEMMA StopEffect ==
  ASSUME TypeOK, NamesOK, NEW e \in events, stopTeleoperation(e)
  PROVE  /\ e \in EventsOf("stopTeleoperation")
         /\ EventsOf("stopTeleoperation")' = EventsOf("stopTeleoperation") \ {e}
         /\ EventsOf("startTeleoperation")' = EventsOf("startTeleoperation")
         /\ EventsOf("sendControl")' =
              {f \in EventsOf("sendControl") : f.uid # next_control_}
         /\ \E n : EventsOf("sendTeleoperationState")' =
                     EventsOf("sendTeleoperationState") \cup {n}
         /\ \E n : EventsOf("sendOrder")' = EventsOf("sendOrder") \cup {n}
         /\ \E n : /\ n.uid = next_state_'
                   /\ EventsOf("sendState")' =
                        {f \in EventsOf("sendState") : f.uid # next_state_} \cup {n}
<1>1. e.kind = "stopTeleoperation"
  BY DEF stopTeleoperation, Runs
<1>2. /\ events' = Cancel(Cancel(events \ {e}, next_state_), next_control_)
                     \cup AfterToggle(e) \cup {RestartOrder(e)}
      /\ next_state_' = uid + 1
  BY DEF stopTeleoperation, StopEvents
<1>3. /\ e \in EventsOf("stopTeleoperation")
      /\ EventsOf("stopTeleoperation")' = EventsOf("stopTeleoperation") \ {e}
      /\ EventsOf("startTeleoperation")' = EventsOf("startTeleoperation")
  BY <1>1, <1>2
  DEF EventsOf, Cancel, AfterToggle, RestartOrder, Later, Event, NamesOK
<1>4. EventsOf("sendControl")' =
        {f \in EventsOf("sendControl") : f.uid # next_control_}
  BY <1>1, <1>2
  DEF EventsOf, Cancel, AfterToggle, RestartOrder, Later, Event, NamesOK
<1>5. EventsOf("sendOrder")' = EventsOf("sendOrder") \cup {RestartOrder(e)}
  BY <1>1, <1>2
  DEF EventsOf, Cancel, AfterToggle, RestartOrder, Later, Event, NamesOK
<1>6. EventsOf("sendState")' =
        {f \in EventsOf("sendState") : f.uid # next_state_}
          \cup {Later(e, "sendState", T.state_after_toggle_teleop_ms, 1)}
  BY <1>1, <1>2
  DEF EventsOf, Cancel, AfterToggle, RestartOrder, Later, Event, NamesOK
<1>7. Later(e, "sendState", T.state_after_toggle_teleop_ms, 1).uid = next_state_'
  BY <1>2 DEF Later, Event
<1>8. EventsOf("sendTeleoperationState")' =
        EventsOf("sendTeleoperationState")
          \cup {Later(e, "sendTeleoperationState",
                      T.teleoperation_state_after_toggle_teleop_ms, 0)}
  BY <1>1, <1>2
  DEF EventsOf, Cancel, AfterToggle, RestartOrder, Later, Event, NamesOK
<1> QED
  BY <1>3, <1>4, <1>5, <1>6, <1>7, <1>8

(* Announcing teleoperation starts the control stream while it lasts.      *)
LEMMA AnnounceEffect ==
  ASSUME TypeOK, NamesOK, NEW e \in events, sendTeleoperationState(e)
  PROVE  /\ e \in EventsOf("sendTeleoperationState")
         /\ EventsOf("sendTeleoperationState")' =
              EventsOf("sendTeleoperationState") \ {e}
         /\ \/ /\ teleoperating_
               /\ \E n : /\ n.uid = next_control_'
                         /\ EventsOf("sendControl")' =
                              EventsOf("sendControl") \cup {n}
            \/ ~teleoperating_ /\ EventsOf("sendControl")' = EventsOf("sendControl")
         /\ \A k \in StreamKind \ {"sendTeleoperationState", "sendControl"} :
              EventsOf(k)' = EventsOf(k)
<1> DEFINE n == Later(e, "sendControl",
                      T.control_stream_start_after_teleop_state_ms, 0)
<1>1. e.kind = "sendTeleoperationState"
  BY DEF sendTeleoperationState, Runs
<1>2. \/ /\ teleoperating_
         /\ events' = (events \ {e}) \cup {n}
         /\ next_control_' = uid
      \/ ~teleoperating_ /\ events' = events \ {e}
  BY DEF sendTeleoperationState, ControlDue
<1>3. n.kind = "sendControl" /\ n.uid = uid
  BY DEF Later, Event, TypeOK, QueueOK
<1> HIDE DEF n
<1>4. /\ e \in EventsOf("sendTeleoperationState")
      /\ EventsOf("sendTeleoperationState")' =
           EventsOf("sendTeleoperationState") \ {e}
      /\ \A k \in StreamKind \ {"sendTeleoperationState", "sendControl"} :
           EventsOf(k)' = EventsOf(k)
  BY <1>1, <1>2, <1>3 DEF EventsOf, StreamKind
<1>5. \/ teleoperating_ /\ EventsOf("sendControl")' = EventsOf("sendControl") \cup {n}
                        /\ next_control_' = uid
      \/ ~teleoperating_ /\ EventsOf("sendControl")' = EventsOf("sendControl")
  BY <1>1, <1>2, <1>3 DEF EventsOf
<1> QED
  BY <1>3, <1>4, <1>5

(* A control command schedules the next one.                               *)
LEMMA ControlEffect ==
  ASSUME TypeOK, NamesOK, NEW e \in events, sendControl(e)
  PROVE  /\ e \in EventsOf("sendControl")
         /\ \E n : /\ n.uid = next_control_'
                   /\ EventsOf("sendControl")' = (EventsOf("sendControl") \ {e}) \cup {n}
         /\ \A k \in StreamKind \ {"sendControl"} : EventsOf(k)' = EventsOf(k)
<1> DEFINE n == Later(e, "sendControl", T.control_command_period_ms, 0)
<1>1. e.kind = "sendControl" /\ next_control_' = uid
  BY DEF sendControl, Runs
<1>2. events' = (events \ {e}) \cup {n}
  BY DEF sendControl
<1>3. n.kind = "sendControl" /\ n.uid = uid
  BY DEF Later, Event, TypeOK, QueueOK
<1> HIDE DEF n
<1>4. EventsOf("sendControl")' = (EventsOf("sendControl") \ {e}) \cup {n}
  BY <1>1, <1>2, <1>3 DEF EventsOf
<1>5. \A k \in StreamKind \ {"sendControl"} : EventsOf(k)' = EventsOf(k)
  BY <1>1, <1>2, <1>3 DEF EventsOf, StreamKind
<1>6. e \in EventsOf("sendControl")
  BY <1>1 DEF EventsOf
<1> QED
  BY <1>1, <1>3, <1>4, <1>5, <1>6

(* The end of the simulation ends no stream.                               *)
LEMMA ExitEffect ==
  ASSUME NEW e \in events, Stop(e), NEW k \in StreamKind
  PROVE  EventsOf(k)' = EventsOf(k)
  BY DEF Stop, EventsOf, StreamKind
-------------------------------------------------------------------------------
(* The EventIds kept and the toggles.                                      *)

(* A number given out in this step is new to every EventId.                *)
LEMMA Fresh ==
  ASSUME TypeOK
  PROVE  /\ uid \in Nat
         /\ \A f \in events : f.uid # uid /\ f.uid # uid + 1 /\ f.uid # uid + 2
         /\ next_state_ \in Nat /\ next_state_ < uid
         /\ next_order_ \in Nat /\ next_order_ < uid
         /\ next_control_ \in Nat /\ next_control_ < uid
<1>1. \A f \in events : f.uid \in Nat /\ f.uid < uid
  BY DEF TypeOK, QueueOK
<1>2. uid \in Nat
  BY DEF TypeOK, QueueOK
<1> QED
  BY <1>1, <1>2 DEF TypeOK

LEMMA NamesStep == TypeOK /\ NamesOK /\ [Next]_vars => NamesOK'
<1> SUFFICES ASSUME TypeOK, NamesOK, [Next]_vars
             PROVE  NamesOK'
  OBVIOUS
<1> USE Fresh DEF queue, ids, Cancel, Later, Event
<1>1. ASSUME NEW e \in events, Bystander(e)
      PROVE  NamesOK'
  <2>1. \/ events' = events \ {e}
        \/ \E kind, delay : events' = (events \ {e}) \cup {Later(e, kind, delay, 0)}
    BY <1>1
    DEF Bystander, sendConnection, sendFactsheetRequest, sendFactsheet,
        sendVisualization, requestTeleoperationCapabilities,
        sendTeleoperationCapabilities
  <2>2. UNCHANGED <<next_state_, next_order_, next_control_>>
    BY <1>1, BystanderFrame
  <2> QED
    BY <2>1, <2>2 DEF NamesOK
<1>2. ASSUME NEW e \in events, sendOrder(e)
      PROVE  NamesOK'
  BY <1>2 DEF sendOrder, OrderEvents, AfterOrder, NamesOK
<1>3. ASSUME NEW e \in events, sendState(e)
      PROVE  NamesOK'
  BY <1>3 DEF sendState, NamesOK
<1>4. ASSUME NEW e \in events, startTeleoperation(e)
      PROVE  NamesOK'
  BY <1>4 DEF startTeleoperation, StartEvents, AfterToggle, NamesOK
<1>5. ASSUME NEW e \in events, stopTeleoperation(e)
      PROVE  NamesOK'
  BY <1>5 DEF stopTeleoperation, StopEvents, AfterToggle, RestartOrder, NamesOK
<1>6. ASSUME NEW e \in events, sendTeleoperationState(e)
      PROVE  NamesOK'
  <2>1. /\ \/ /\ next_control_' = uid
              /\ events' = (events \ {e})
                   \cup {Later(e, "sendControl",
                           T.control_stream_start_after_teleop_state_ms, 0)}
           \/ next_control_' = next_control_ /\ events' = events \ {e}
        /\ UNCHANGED <<next_state_, next_order_>>
    BY <1>6 DEF sendTeleoperationState, ControlDue
  <2> QED
    BY <2>1 DEF NamesOK
<1>7. ASSUME NEW e \in events, sendControl(e)
      PROVE  NamesOK'
  BY <1>7 DEF sendControl, NamesOK
<1>8. ASSUME NEW e \in events, Stop(e)
      PROVE  NamesOK'
  BY <1>8 DEF Stop, NamesOK
<1>9. CASE Send \/ Terminated \/ UNCHANGED vars
  BY <1>9 DEF Send, Terminated, vars, NamesOK
<1> QED
  BY <1>1, <1>2, <1>3, <1>4, <1>5, <1>6, <1>7, <1>8, <1>9
  DEF Next, Handler, Bystander
LEMMA ConfigFixed == [Next]_vars => cfg_' = cfg_
  BY DEF Next, Handler, sendConnection, sendFactsheetRequest, sendFactsheet,
         sendVisualization, requestTeleoperationCapabilities,
         sendTeleoperationCapabilities, sendOrder, sendState, startTeleoperation,
         stopTeleoperation, sendTeleoperationState, sendControl, Runs, Stop,
         Send, Terminated, vars

(* Every step is a handler's or leaves the queue alone.                    *)
LEMMA Steps ==
  [Next]_vars =>
    \/ \E e \in events :
         \/ Bystander(e) \/ sendOrder(e) \/ sendState(e)
         \/ startTeleoperation(e) \/ stopTeleoperation(e)
         \/ sendTeleoperationState(e) \/ sendControl(e) \/ Stop(e)
    \/ /\ UNCHANGED events
       /\ UNCHANGED <<next_state_, next_order_, next_control_>>
       /\ UNCHANGED <<planned, released, teleoperating_, running>>
  BY DEF Next, Handler, Bystander, Send, Terminated, vars, queue, ids, planned,
         released

(* No handler schedules a toggle, and none but stopTeleoperation takes the *)
(* one that stops.                                                         *)
NoNewToggle ==
  /\ EventsOf("startTeleoperation")' \subseteq EventsOf("startTeleoperation")
  /\ EventsOf("stopTeleoperation")' \subseteq EventsOf("stopTeleoperation")
  /\ \/ EventsOf("stopTeleoperation")' = EventsOf("stopTeleoperation")
     \/ \E e \in events : stopTeleoperation(e)

LEMMA TogglesShrink == TypeOK /\ NamesOK /\ [Next]_vars => NoNewToggle
<1> SUFFICES ASSUME TypeOK, NamesOK, [Next]_vars
             PROVE  NoNewToggle
  OBVIOUS
<1>1. ASSUME NEW e \in events, Bystander(e) \/ Stop(e)
      PROVE  NoNewToggle
  BY <1>1, BystanderEffect, ExitEffect DEF StreamKind, NoNewToggle
<1>2. ASSUME NEW e \in events, sendOrder(e)
      PROVE  NoNewToggle
  BY <1>2, OrderEffect DEF StreamKind, NoNewToggle
<1>3. ASSUME NEW e \in events, sendState(e)
      PROVE  NoNewToggle
  BY <1>3, StateEffect DEF StreamKind, NoNewToggle
<1>4. ASSUME NEW e \in events, startTeleoperation(e)
      PROVE  NoNewToggle
  BY <1>4, StartEffect DEF NoNewToggle
<1>5. ASSUME NEW e \in events, stopTeleoperation(e)
      PROVE  NoNewToggle
  BY <1>5, StopEffect DEF NoNewToggle
<1>6. ASSUME NEW e \in events, sendTeleoperationState(e)
      PROVE  NoNewToggle
  BY <1>6, AnnounceEffect DEF StreamKind, NoNewToggle
<1>7. ASSUME NEW e \in events, sendControl(e)
      PROVE  NoNewToggle
  BY <1>7, ControlEffect DEF StreamKind, NoNewToggle
<1>8. CASE UNCHANGED events
  BY <1>8 DEF EventsOf, NoNewToggle
<1> QED
  BY <1>1, <1>2, <1>3, <1>4, <1>5, <1>6, <1>7, <1>8, Steps

LEMMA TogglesStep == TypeOK /\ NamesOK /\ TogglesOK /\ [Next]_vars => TogglesOK'
<1> SUFFICES ASSUME TypeOK, NamesOK, TogglesOK, [Next]_vars
             PROVE  TogglesOK'
  OBVIOUS
<1>1. cfg_' = cfg_
  BY ConfigFixed
<1>2. T' = T
  BY <1>1 DEF T, V
<1> QED
  BY <1>1, <1>2, TogglesShrink DEF NoNewToggle, TogglesOK, EventsOf

(* Teleoperation is stopped after it has started: main() schedules the two *)
(* in that order and start_s <= stop_s.                                    *)
LEMMA StartBeforeStop ==
  ASSUME StopsAfterStart, TypeOK, TogglesOK, NEW e \in events, stopTeleoperation(e)
  PROVE  TakenOver
<1>1. /\ e.kind = "stopTeleoperation" /\ IsNext(e, events)
      /\ cfg_.scenario = "TELEOP" /\ e.uid = 8 /\ e.at = T.stop_s
  BY DEF stopTeleoperation, Runs, TogglesOK
<1>2. T.start_s \in Nat /\ T.stop_s \in Nat /\ T.start_s <= T.stop_s
  <2>1. cfg_ \in Configs /\ T \in TeleopConfig
    BY Delays DEF TypeOK
  <2> QED
    BY <1>1, <2>1 DEF TeleopConfig, T, V, StopsAfterStart
<1>3. ASSUME NEW f \in EventsOf("startTeleoperation")
      PROVE  FALSE
  <2>1. f \in events /\ f.uid = 7 /\ f.at = T.start_s
    BY DEF EventsOf, TogglesOK
  <2> QED
    BY <1>1, <1>2, <2>1 DEF IsNext
<1> QED
  BY <1>1, <1>3 DEF TakenOver
LEMMA StopPendingStep ==
  ASSUME StopsAfterStart
  PROVE  TypeOK /\ NamesOK /\ TogglesOK /\ StopPending /\ [Next]_vars => StopPending'
<1> SUFFICES ASSUME TypeOK, NamesOK, TogglesOK, StopPending, [Next]_vars,
                    EventsOf("startTeleoperation")' # {}
             PROVE  EventsOf("stopTeleoperation")' # {}
  BY DEF StopPending
<1>1. EventsOf("startTeleoperation") # {} /\ EventsOf("stopTeleoperation") # {}
  BY TogglesShrink DEF NoNewToggle, StopPending
<1>2. ASSUME NEW e \in events, stopTeleoperation(e)
      PROVE  FALSE
  BY <1>1, <1>2, StartBeforeStop DEF TakenOver
<1> QED
  BY <1>1, <1>2, TogglesShrink DEF NoNewToggle

(* Teleoperation is taken over by startTeleoperation only, and once.       *)
LEMMA TakeOver ==
  ASSUME TypeOK, NamesOK, TogglesOK, NEW e \in events, startTeleoperation(e)
  PROVE  ~TakenOver /\ TakenOver'
<1>1. e \in EventsOf("startTeleoperation") /\ cfg_.scenario = "TELEOP"
  BY StartEffect DEF EventsOf, TogglesOK
<1>2. EventsOf("startTeleoperation") = {e}
  <2>1. \A f \in EventsOf("startTeleoperation") : f \in events /\ f.uid = e.uid
    BY <1>1 DEF EventsOf, TogglesOK
  <2> QED
    BY <1>1, <2>1 DEF TypeOK, QueueOK
<1>3. cfg_' = cfg_
  BY DEF startTeleoperation, Runs
<1> QED
  BY <1>1, <1>2, <1>3, StartEffect DEF TakenOver

(* A step that leaves the start event alone changes no phase.              *)
LEMMA SamePhase ==
  ASSUME cfg_' = cfg_,
         EventsOf("startTeleoperation")' = EventsOf("startTeleoperation")
  PROVE  TakenOver' = TakenOver
  BY DEF TakenOver

-------------------------------------------------------------------------------
(* The state stream.                                                       *)

LEMMA StateStreamStep ==
  TypeOK /\ NamesOK /\ OneStateStream /\ [Next]_vars => OneStateStream'
<1> SUFFICES ASSUME TypeOK, NamesOK, OneStateStream, [Next]_vars
             PROVE  OneStateStream'
  OBVIOUS
<1> USE DEF OneStateStream
(* As long as the simulation runs, the one pending report is next_state_.  *)
<1>1. ASSUME running
      PROVE  /\ {f \in EventsOf("sendState") : f.uid # next_state_} = {}
             /\ \A f \in EventsOf("sendState") : EventsOf("sendState") \ {f} = {}
  BY <1>1
(* The replacement every such handler schedules is pending.                *)
<1>2. ASSUME EventsOf("sendState")' \subseteq events',
             NEW n, n.uid = next_state_', EventsOf("sendState")' = {n}
      PROVE  OneStateStream'
  BY <1>2
<1>3. EventsOf("sendState")' \subseteq events'
  BY DEF EventsOf
<1>4. ASSUME EventsOf("sendState")' = EventsOf("sendState"),
             next_state_' = next_state_, running' => running
      PROVE  OneStateStream'
  BY <1>3, <1>4 DEF EventsOf
<1>5. ASSUME NEW e \in events, Bystander(e)
      PROVE  OneStateStream'
  BY <1>4, <1>5, BystanderEffect, BystanderFrame DEF StreamKind, ids
<1>6. ASSUME NEW e \in events, sendOrder(e)
      PROVE  OneStateStream'
  <2>1. running /\ next_state_' = uid + 1
    BY <1>6 DEF sendOrder, Runs
  <2>2. Later(e, "sendState", V.send_state_after_order_ms, 1).uid = next_state_'
    BY <2>1 DEF Later, Event
  <2> QED
    BY <1>1, <1>2, <1>3, <1>6, <2>1, <2>2, OrderEffect
<1>7. ASSUME NEW e \in events, sendState(e)
      PROVE  OneStateStream'
  <2>1. running
    BY <1>7 DEF sendState, Runs
  <2> QED
    BY <1>1, <1>2, <1>3, <1>7, <2>1, StateEffect
<1>8. ASSUME NEW e \in events, startTeleoperation(e)
      PROVE  OneStateStream'
  <2>1. running
    BY <1>8 DEF startTeleoperation, Runs
  <2> QED
    BY <1>1, <1>2, <1>3, <1>8, <2>1, StartEffect
<1>9. ASSUME NEW e \in events, stopTeleoperation(e)
      PROVE  OneStateStream'
  <2>1. running
    BY <1>9 DEF stopTeleoperation, Runs
  <2> QED
    BY <1>1, <1>2, <1>3, <1>9, <2>1, StopEffect
<1>10. ASSUME NEW e \in events, sendTeleoperationState(e)
       PROVE  OneStateStream'
  <2>1. next_state_' = next_state_ /\ running' = running
    BY <1>10 DEF sendTeleoperationState, Runs
  <2> QED
    BY <1>4, <1>10, <2>1, AnnounceEffect DEF StreamKind
<1>11. ASSUME NEW e \in events, sendControl(e)
       PROVE  OneStateStream'
  <2>1. next_state_' = next_state_ /\ running' = running
    BY <1>11 DEF sendControl, Runs
  <2> QED
    BY <1>4, <1>11, <2>1, ControlEffect DEF StreamKind
<1>12. ASSUME NEW e \in events, Stop(e)
       PROVE  OneStateStream'
  BY <1>12 DEF Stop
<1>13. CASE UNCHANGED events /\ UNCHANGED <<next_state_, next_order_, next_control_>>
            /\ UNCHANGED <<planned, released, teleoperating_, running>>
  BY <1>13 DEF EventsOf
<1> QED
  BY <1>5, <1>6, <1>7, <1>8, <1>9, <1>10, <1>11, <1>12, <1>13, Steps
-------------------------------------------------------------------------------
(* The control stream.                                                     *)

(* The strengthening: the control stream's invariant, and silence before   *)
(* teleoperation starts.                                                   *)
ControlInv == ControlOnlyWhileTeleoperating /\ QuietBefore

(* Steps of other streams.                                                 *)
LEMMA ControlFrame ==
  ASSUME ControlInv, cfg_' = cfg_, UNCHANGED <<teleoperating_, next_control_>>,
         EventsOf("sendControl")' = EventsOf("sendControl"),
         EventsOf("sendTeleoperationState")' = EventsOf("sendTeleoperationState"),
         EventsOf("startTeleoperation")' = EventsOf("startTeleoperation")
  PROVE  ControlInv'
<1>1. TakenOver' = TakenOver
  BY SamePhase
<1>2. /\ EventsOf("sendControl")' \subseteq events'
      /\ EventsOf("sendTeleoperationState")' \subseteq events'
  BY DEF EventsOf
<1>3. ControlOnlyWhileTeleoperating'
  BY <1>2 DEF ControlInv, ControlOnlyWhileTeleoperating
<1>4. QuietBefore'
  BY <1>1 DEF ControlInv, QuietBefore
<1> QED
  BY <1>3, <1>4 DEF ControlInv

LEMMA ControlStep ==
  ASSUME StopsAfterStart
  PROVE  TypeOK /\ NamesOK /\ TogglesOK /\ ControlInv /\ [Next]_vars => ControlInv'
<1> SUFFICES ASSUME TypeOK, NamesOK, TogglesOK, ControlInv, [Next]_vars
             PROVE  ControlInv'
  OBVIOUS
<1>1. cfg_' = cfg_
  BY ConfigFixed
<1>2. /\ EventsOf("sendControl")' \subseteq events'
      /\ EventsOf("sendTeleoperationState")' \subseteq events'
  BY DEF EventsOf
<1>3. ASSUME NEW e \in events, Bystander(e)
      PROVE  ControlInv'
  BY <1>1, <1>3, BystanderEffect, BystanderFrame, ControlFrame DEF StreamKind, ids
<1>4. ASSUME NEW e \in events, sendOrder(e)
      PROVE  ControlInv'
  <2>1. UNCHANGED <<teleoperating_, next_control_>>
    BY <1>4 DEF sendOrder
  <2> QED
    BY <1>1, <1>4, <2>1, OrderEffect, ControlFrame DEF StreamKind
<1>5. ASSUME NEW e \in events, sendState(e)
      PROVE  ControlInv'
  <2>1. UNCHANGED <<teleoperating_, next_control_>>
    BY <1>5 DEF sendState
  <2> QED
    BY <1>1, <1>5, <2>1, StateEffect, ControlFrame DEF StreamKind
<1>6. ASSUME NEW e \in events, startTeleoperation(e)
      PROVE  ControlInv'
  <2>1. ~TakenOver /\ TakenOver'
    BY <1>6, TakeOver
  <2>2. teleoperating_' = TRUE
    BY <1>6 DEF startTeleoperation
  <2>3. /\ EventsOf("sendControl")' = {}
        /\ \E n : EventsOf("sendTeleoperationState")' = {n}
    BY <1>6, <2>1, StartEffect DEF ControlInv, QuietBefore
  <2> QED
    BY <1>2, <2>1, <2>2, <2>3
    DEF ControlInv, ControlOnlyWhileTeleoperating, QuietBefore
<1>7. ASSUME NEW e \in events, stopTeleoperation(e)
      PROVE  ControlInv'
  <2>1. TakenOver /\ TakenOver' = TakenOver
    BY <1>1, <1>7, StartBeforeStop, StopEffect, SamePhase
  <2>2. teleoperating_' = FALSE
    BY <1>7 DEF stopTeleoperation
  <2>3. EventsOf("sendControl")' = {}
    BY <1>7, StopEffect DEF ControlInv, ControlOnlyWhileTeleoperating
  <2> QED
    BY <2>1, <2>2, <2>3 DEF ControlInv, ControlOnlyWhileTeleoperating, QuietBefore
<1>8. ASSUME NEW e \in events, sendTeleoperationState(e)
      PROVE  ControlInv'
  <2>1. TakenOver' = TakenOver /\ teleoperating_' = teleoperating_
    BY <1>1, <1>8, AnnounceEffect, SamePhase DEF StreamKind, sendTeleoperationState
  <2>2. TakenOver
    BY <1>8, AnnounceEffect DEF ControlInv, QuietBefore
  <2>3. QuietBefore'
    BY <2>1, <2>2 DEF QuietBefore
  <2>4. CASE teleoperating_
    <3>1. /\ EventsOf("sendTeleoperationState")' = {}
          /\ \E n : n.uid = next_control_' /\ EventsOf("sendControl")' = {n}
      BY <1>8, <2>4, AnnounceEffect DEF ControlInv, ControlOnlyWhileTeleoperating
    <3> QED
      BY <1>2, <2>1, <2>3, <2>4, <3>1 DEF ControlInv, ControlOnlyWhileTeleoperating
  <2>5. CASE ~teleoperating_
    BY <1>8, <2>1, <2>3, <2>5, AnnounceEffect
    DEF ControlInv, ControlOnlyWhileTeleoperating
  <2> QED
    BY <2>4, <2>5
<1>9. ASSUME NEW e \in events, sendControl(e)
      PROVE  ControlInv'
  <2>1. TakenOver' = TakenOver /\ teleoperating_' = teleoperating_
    BY <1>1, <1>9, ControlEffect, SamePhase DEF StreamKind, sendControl
  <2>2. TakenOver /\ teleoperating_
    BY <1>9, ControlEffect DEF ControlInv, ControlOnlyWhileTeleoperating, QuietBefore
  <2>3. /\ EventsOf("sendTeleoperationState")' = {}
        /\ \E n : n.uid = next_control_' /\ EventsOf("sendControl")' = {n}
    BY <1>9, <2>2, ControlEffect
    DEF StreamKind, ControlInv, ControlOnlyWhileTeleoperating
  <2> QED
    BY <1>2, <2>1, <2>2, <2>3
    DEF ControlInv, ControlOnlyWhileTeleoperating, QuietBefore
<1>10. ASSUME NEW e \in events, Stop(e)
       PROVE  ControlInv'
  <2>1. UNCHANGED <<teleoperating_, next_control_>>
    BY <1>10 DEF Stop, ids
  <2> QED
    BY <1>1, <1>10, <2>1, ExitEffect, ControlFrame DEF StreamKind
<1>11. CASE UNCHANGED events /\ UNCHANGED <<next_state_, next_order_, next_control_>>
            /\ UNCHANGED <<planned, released, teleoperating_, running>>
  BY <1>1, <1>11, ControlFrame DEF EventsOf
<1> QED
  BY <1>3, <1>4, <1>5, <1>6, <1>7, <1>8, <1>9, <1>10, <1>11, Steps
-------------------------------------------------------------------------------
(* The order streams.                                                      *)

(* The lengths of an order before and after a release.                     *)
LEMMA ReleaseLengths ==
  ASSUME node_states_ \in Seq(Nat), edge_states_ \in Seq(Nat),
         NEW route \in Seq(Nat), Release(route, route)
  PROVE  \E k \in 1 .. Len(route) :
           /\ Len(planned_node_states_') = Len(route) - k
           /\ Len(node_states_') + Len(edge_states_') =
                Len(node_states_) + Len(edge_states_) + 2 * k
<1>1. PICK k \in 1..Len(route) :
        /\ node_states_' = node_states_ \o SubSeq(route, 1, k)
        /\ edge_states_' = edge_states_ \o SubSeq(route, 1, k)
        /\ planned_node_states_' = SubSeq(route, k + 1, Len(route))
  BY DEF Release
<1>2. /\ \A i \in 1 .. k : route[i] \in Nat
      /\ \A i \in k + 1 .. Len(route) : route[i] \in Nat
  OBVIOUS
<1>3. SubSeq(route, 1, k) \in Seq(Nat) /\ Len(SubSeq(route, 1, k)) = k
  BY <1>2, SubSeqProperties
<1>4. Len(SubSeq(route, k + 1, Len(route))) = Len(route) - k
  BY <1>2, SubSeqProperties
<1>5. /\ Len(node_states_') = Len(node_states_) + k
      /\ Len(edge_states_') = Len(edge_states_) + k
  BY <1>1, <1>3, ConcatProperties
<1>6. Len(node_states_) \in Nat /\ Len(edge_states_) \in Nat
  OBVIOUS
<1> QED
  BY <1>1, <1>4, <1>5, <1>6

(* An order leaves the last leg to come exactly when it has released all.  *)
LEMMA LegAfterOrder ==
  ASSUME Lockstep, [Next]_vars, NEW e \in events, sendOrder(e)
  PROVE  LastLeg' <=> planned_node_states_' = <<>>
<1>1. /\ planned_node_states_ \in Seq(Nat)
      /\ node_states_ \in Seq(Nat) /\ edge_states_ \in Seq(Nat)
  BY DEF Lockstep, TypeOK
<1>2. NodesAndEdgesInStep'
  BY InStepStep DEF Lockstep
<1>3. node_states_' # <<>>
  <2>1. CASE \E n \in V.order_len_min .. V.order_len_max : Release(Route(n), Route(n))
    <3>1. PICK n \in V.order_len_min .. V.order_len_max : Release(Route(n), Route(n))
      BY <2>1
    <3>2. V \in Vda5050Config
      BY Delays DEF Lockstep, TypeOK
    <3>3. n \in Nat
      BY <3>2 DEF Vda5050Config
    <3> QED
      BY <1>1, <3>1, <3>3, RouteType, ReleaseInStep DEF Lockstep
  <2>2. CASE Release(planned_node_states_, planned_edge_states_)
    <3>1. planned_edge_states_ = planned_node_states_
      BY DEF Lockstep, NodesAndEdgesInStep
    <3> QED
      BY <1>1, <2>2, <3>1, ReleaseInStep DEF Lockstep
  <2> QED
    BY <2>1, <2>2 DEF sendOrder, PlanAndRelease
<1> QED
  BY <1>2, <1>3 DEF LastLeg, NothingPlanned, NothingReleased, NodesAndEdgesInStep

(* A state report ends the last leg exactly when the next order is due.    *)
LEMMA LegAfterState ==
  ASSUME NEW e \in events, sendState(e)
  PROVE  IF ~NothingReleased /\ NextOrderDue THEN LastLeg /\ ~LastLeg'
         ELSE LastLeg' = LastLeg
<1>1. UNCHANGED planned
  BY DEF sendState
<1>2. NothingReleased => UNCHANGED released
  BY DEF sendState, released
<1> QED
  BY <1>1, <1>2
  DEF LastLeg, NothingPlanned, NothingReleased, NextOrderDue, planned, released

(* The phases of a run, from the events alone.                             *)
OrderInv ==
  running =>
    LET orders == EventsOf("sendOrder")
    IN  /\ ~TakenOver => IF LastLeg THEN orders = {} ELSE \E n : orders = {n}
        /\ TakenOver /\ ~HandedBack => AtMostOne(orders) /\ (LastLeg => orders = {})
        /\ HandedBack => IF LastLeg THEN AtMostOne(orders)
                         ELSE orders # {} /\ AtMostTwo(orders)

LEMMA OrderInvMeaning == OrderInv => OrderStreamsBounded
  BY DEF OrderInv, OrderStreamsBounded, HandedBack

(* Steps that leave orders, legs and phases alone.                         *)
LEMMA OrderFrame ==
  ASSUME OrderInv, cfg_' = cfg_, running' => running, LastLeg' = LastLeg,
         EventsOf("sendOrder")' = EventsOf("sendOrder"),
         EventsOf("startTeleoperation")' = EventsOf("startTeleoperation"),
         EventsOf("stopTeleoperation")' = EventsOf("stopTeleoperation")
  PROVE  OrderInv'
  BY DEF OrderInv, TakenOver, HandedBack, AtMostOne, AtMostTwo

LEMMA SameLeg ==
  ASSUME UNCHANGED <<planned, released>>
  PROVE  LastLeg' = LastLeg
  BY DEF LastLeg, NothingPlanned, NothingReleased, planned, released
LEMMA OrderStep ==
  ASSUME StopsAfterStart
  PROVE  /\ Lockstep /\ NamesOK /\ TogglesOK /\ StopPending /\ OrderInv
         /\ [Next]_vars
         => OrderInv'
<1> SUFFICES ASSUME Lockstep, NamesOK, TogglesOK, StopPending, OrderInv, [Next]_vars
             PROVE  OrderInv'
  OBVIOUS
<1>1. TypeOK
  BY DEF Lockstep
<1>2. cfg_' = cfg_
  BY ConfigFixed
<1>3. ASSUME NEW e \in events, Bystander(e)
      PROVE  OrderInv'
  <2>1. LastLeg' = LastLeg /\ running' = running
    BY <1>3, BystanderFrame, SameLeg
  <2> QED
    BY <1>1, <1>2, <1>3, <2>1, BystanderEffect, OrderFrame DEF StreamKind
<1>4. ASSUME NEW e \in events, sendOrder(e)
      PROVE  OrderInv'
  <2>1. running
    BY <1>4 DEF sendOrder, Runs
  <2>2. TakenOver' = TakenOver /\ HandedBack' = HandedBack
    BY <1>1, <1>2, <1>4, OrderEffect DEF StreamKind, TakenOver, HandedBack
  <2>3. e \in EventsOf("sendOrder")
    BY <1>1, <1>4, OrderEffect
  <2>4. \/ LastLeg' /\ EventsOf("sendOrder")' = EventsOf("sendOrder") \ {e}
        \/ /\ ~LastLeg'
           /\ \E n : EventsOf("sendOrder")' = (EventsOf("sendOrder") \ {e}) \cup {n}
    BY <1>1, <1>4, OrderEffect, LegAfterOrder
  <2>5. CASE ~TakenOver
    BY <2>1, <2>2, <2>3, <2>4, <2>5 DEF OrderInv, HandedBack
  <2>6. CASE TakenOver /\ ~HandedBack
    BY <2>1, <2>2, <2>3, <2>4, <2>6 DEF OrderInv, AtMostOne
  <2>7. CASE HandedBack
    BY <2>1, <2>2, <2>3, <2>4, <2>7 DEF OrderInv, AtMostOne, AtMostTwo, HandedBack
  <2> QED
    BY <2>5, <2>6, <2>7
<1>5. ASSUME NEW e \in events, sendState(e)
      PROVE  OrderInv'
  <2>1. running /\ running' = running
    BY <1>5 DEF sendState, Runs
  <2>2. TakenOver' = TakenOver /\ HandedBack' = HandedBack
    BY <1>1, <1>2, <1>5, StateEffect DEF StreamKind, TakenOver, HandedBack
  <2>3. CASE ~(~NothingReleased /\ NextOrderDue)
    <3>1. LastLeg' = LastLeg
      BY <1>5, <2>3, LegAfterState
    <3>2. EventsOf("sendOrder")' = EventsOf("sendOrder")
      BY <1>1, <1>5, <2>3, StateEffect
    <3>3. /\ EventsOf("startTeleoperation")' = EventsOf("startTeleoperation")
          /\ EventsOf("stopTeleoperation")' = EventsOf("stopTeleoperation")
      BY <1>1, <1>5, StateEffect DEF StreamKind
    <3> QED
      BY <1>2, <2>1, <3>1, <3>2, <3>3, OrderFrame
  <2>4. CASE ~NothingReleased /\ NextOrderDue
    <3>1. LastLeg /\ ~LastLeg'
      BY <1>5, <2>4, LegAfterState
    <3>2. \E n : EventsOf("sendOrder")' = EventsOf("sendOrder") \cup {n}
      BY <1>1, <1>5, <2>4, StateEffect
    <3> QED
      BY <2>1, <2>2, <3>1, <3>2 DEF OrderInv, AtMostOne, AtMostTwo, HandedBack
  <2> QED
    BY <2>3, <2>4
<1>6. ASSUME NEW e \in events, startTeleoperation(e)
      PROVE  OrderInv'
  <2>1. running
    BY <1>6 DEF startTeleoperation, Runs
  <2>2. ~TakenOver /\ TakenOver'
    BY <1>1, <1>6, TakeOver
  <2>3. EventsOf("stopTeleoperation")' # {}
    BY <1>1, <1>6, StartEffect DEF StopPending
  <2>4. ~HandedBack'
    BY <2>3 DEF HandedBack
  <2>5. ~LastLeg'
    BY <1>6 DEF startTeleoperation, LastLeg, NothingReleased
  <2>6. EventsOf("sendOrder")' \subseteq EventsOf("sendOrder")
    BY <1>1, <1>6, StartEffect
  <2>7. AtMostOne(EventsOf("sendOrder"))
    BY <2>1, <2>2 DEF OrderInv, AtMostOne
  <2>8. AtMostOne(EventsOf("sendOrder"))'
    BY <2>6, <2>7 DEF AtMostOne
  <2> QED
    BY <2>2, <2>4, <2>5, <2>8 DEF OrderInv
<1>7. ASSUME NEW e \in events, stopTeleoperation(e)
      PROVE  OrderInv'
  <2>1. running
    BY <1>7 DEF stopTeleoperation, Runs
  <2>2. TakenOver /\ TakenOver'
    BY <1>1, <1>2, <1>7, StartBeforeStop, StopEffect DEF TakenOver
  <2>3. LastLeg' = LastLeg
    BY <1>7, SameLeg DEF stopTeleoperation
  <2>4. ~HandedBack /\ HandedBack'
    <3>1. e \in EventsOf("stopTeleoperation")
      BY <1>1, <1>7, StopEffect
    <3>2. EventsOf("stopTeleoperation") = {e}
      <4>1. \A f \in EventsOf("stopTeleoperation") : f \in events /\ f.uid = e.uid
        BY <3>1 DEF EventsOf, TogglesOK
      <4> QED
        BY <1>1, <3>1, <4>1 DEF TypeOK, QueueOK
    <3> QED
      BY <1>1, <1>7, <2>2, <3>1, <3>2, StopEffect DEF HandedBack
  <2>5. \E n : EventsOf("sendOrder")' = EventsOf("sendOrder") \cup {n}
    BY <1>1, <1>7, StopEffect
  <2> QED
    BY <2>1, <2>2, <2>3, <2>4, <2>5 DEF OrderInv, AtMostOne, AtMostTwo
<1>8. ASSUME NEW e \in events, sendTeleoperationState(e)
      PROVE  OrderInv'
  <2>1. LastLeg' = LastLeg /\ running' = running
    BY <1>8, SameLeg DEF sendTeleoperationState, Runs
  <2> QED
    BY <1>1, <1>2, <1>8, <2>1, AnnounceEffect, OrderFrame DEF StreamKind
<1>9. ASSUME NEW e \in events, sendControl(e)
      PROVE  OrderInv'
  <2>1. LastLeg' = LastLeg /\ running' = running
    BY <1>9, SameLeg DEF sendControl, Runs
  <2> QED
    BY <1>1, <1>2, <1>9, <2>1, ControlEffect, OrderFrame DEF StreamKind
<1>10. ASSUME NEW e \in events, Stop(e)
       PROVE  OrderInv'
  BY <1>10 DEF Stop, OrderInv
<1>11. CASE UNCHANGED events /\ UNCHANGED <<next_state_, next_order_, next_control_>>
            /\ UNCHANGED <<planned, released, teleoperating_, running>>
  <2>1. LastLeg' = LastLeg /\ running' = running
    BY <1>11, SameLeg
  <2>2. \A k : EventsOf(k)' = EventsOf(k)
    BY <1>11 DEF EventsOf
  <2> QED
    BY <1>2, <2>1, <2>2, OrderFrame
<1> QED
  BY <1>3, <1>4, <1>5, <1>6, <1>7, <1>8, <1>9, <1>10, <1>11, Steps
-------------------------------------------------------------------------------
(* The one order stream there is until the first toggle, which may be the  *)
(* stop.                                                                   *)
OneOrder ==
  IF LastLeg THEN EventsOf("sendOrder") = {}
  ELSE \E n : EventsOf("sendOrder") = {n}

LEMMA OneOrderMeaning == OneOrderStream <=> (running /\ Untouched => OneOrder)
<1>1. EventsOf("sendOrder") \subseteq events
  BY DEF EventsOf
<1> QED
  BY <1>1 DEF OneOrderStream, OneOrder

(* What a toggle has touched stays touched, for nobody schedules another.  *)
LEMMA TouchedStays ==
  ASSUME TypeOK, NamesOK, [Next]_vars, Untouched'
  PROVE  Untouched
<1>1. cfg_' = cfg_ /\ NoNewToggle
  BY ConfigFixed, TogglesShrink
<1> QED
  BY <1>1 DEF Untouched, NoNewToggle

LEMMA Touches ==
  ASSUME TypeOK, NamesOK, TogglesOK,
         NEW e \in events, startTeleoperation(e) \/ stopTeleoperation(e)
  PROVE  ~Untouched'
<1>1. cfg_' = cfg_
  BY DEF startTeleoperation, stopTeleoperation, Runs
<1>2. ASSUME NEW k \in {"startTeleoperation", "stopTeleoperation"},
             e \in EventsOf(k), EventsOf(k)' = EventsOf(k) \ {e}
      PROVE  EventsOf(k)' = {} /\ cfg_.scenario = "TELEOP"
  <2>1. /\ \A f \in EventsOf(k) : f \in events /\ f.uid = e.uid
        /\ cfg_.scenario = "TELEOP"
    BY <1>2 DEF EventsOf, TogglesOK
  <2> QED
    BY <1>2, <2>1 DEF TypeOK, QueueOK
<1>3. \E k \in {"startTeleoperation", "stopTeleoperation"} :
        e \in EventsOf(k) /\ EventsOf(k)' = EventsOf(k) \ {e}
  BY StartEffect, StopEffect
<1> QED
  BY <1>1, <1>2, <1>3 DEF Untouched

LEMMA OneOrderStep ==
  Lockstep /\ NamesOK /\ TogglesOK /\ OneOrderStream /\ [Next]_vars
    => OneOrderStream'
<1> SUFFICES ASSUME Lockstep, NamesOK, TogglesOK, OneOrderStream, [Next]_vars,
                    running', Untouched'
             PROVE  OneOrder'
  <2>1. (running' /\ Untouched' => OneOrder') => OneOrderStream'
    BY OneOrderMeaning, PTL
  <2> QED
    BY <2>1
<1>1. TypeOK /\ Untouched
  BY TouchedStays DEF Lockstep
<1>2. ASSUME running
      PROVE  OneOrder
  BY <1>1, <1>2, OneOrderMeaning
<1>3. ASSUME running, LastLeg' = LastLeg,
             EventsOf("sendOrder")' = EventsOf("sendOrder")
      PROVE  OneOrder'
  BY <1>2, <1>3 DEF OneOrder
<1>4. ASSUME NEW e \in events, Bystander(e)
      PROVE  OneOrder'
  <2>1. LastLeg' = LastLeg /\ running
    BY <1>4, BystanderFrame, SameLeg
  <2> QED
    BY <1>1, <1>3, <1>4, <2>1, BystanderEffect DEF StreamKind
<1>5. ASSUME NEW e \in events, sendOrder(e)
      PROVE  OneOrder'
  <2>1. OneOrder
    BY <1>2, <1>5 DEF sendOrder, Runs
  <2>2. e \in EventsOf("sendOrder")
    BY <1>1, <1>5, OrderEffect
  <2>3. \/ LastLeg' /\ EventsOf("sendOrder")' = EventsOf("sendOrder") \ {e}
        \/ /\ ~LastLeg'
           /\ \E n : EventsOf("sendOrder")' = (EventsOf("sendOrder") \ {e}) \cup {n}
    BY <1>1, <1>5, OrderEffect, LegAfterOrder
  <2> QED
    BY <2>1, <2>2, <2>3 DEF OneOrder
<1>6. ASSUME NEW e \in events, sendState(e)
      PROVE  OneOrder'
  <2>1. running
    BY <1>6 DEF sendState, Runs
  <2>2. CASE ~(~NothingReleased /\ NextOrderDue)
    <3>1. LastLeg' = LastLeg
      BY <1>6, <2>2, LegAfterState
    <3> QED
      BY <1>1, <1>3, <1>6, <2>1, <2>2, <3>1, StateEffect
  <2>3. CASE ~NothingReleased /\ NextOrderDue
    <3>1. LastLeg /\ ~LastLeg'
      BY <1>6, <2>3, LegAfterState
    <3>2. \E n : EventsOf("sendOrder")' = EventsOf("sendOrder") \cup {n}
      BY <1>1, <1>6, <2>3, StateEffect
    <3> QED
      BY <1>2, <2>1, <3>1, <3>2 DEF OneOrder
  <2> QED
    BY <2>2, <2>3
<1>7. ASSUME NEW e \in events, startTeleoperation(e) \/ stopTeleoperation(e)
      PROVE  FALSE
  BY <1>1, <1>7, Touches
<1>8. ASSUME NEW e \in events, sendTeleoperationState(e) \/ sendControl(e)
      PROVE  OneOrder'
  <2>1. LastLeg' = LastLeg /\ running
    BY <1>8, SameLeg DEF sendTeleoperationState, sendControl, Runs
  <2>2. EventsOf("sendOrder")' = EventsOf("sendOrder")
    BY <1>1, <1>8, AnnounceEffect, ControlEffect DEF StreamKind
  <2> QED
    BY <1>3, <2>1, <2>2
<1>9. ASSUME NEW e \in events, Stop(e)
      PROVE  FALSE
  BY <1>9 DEF Stop
<1>10. CASE UNCHANGED events /\ UNCHANGED <<planned, released, teleoperating_, running>>
  <2>1. LastLeg' = LastLeg /\ running
    BY <1>10, SameLeg
  <2>2. EventsOf("sendOrder")' = EventsOf("sendOrder")
    BY <1>10 DEF EventsOf
  <2> QED
    BY <1>3, <2>1, <2>2
<1> QED
  BY <1>4, <1>5, <1>6, <1>7, <1>8, <1>9, <1>10, Steps

-------------------------------------------------------------------------------
(* Stray streams, whatever the order of the toggles.                       *)

(* What can still become an order, and what a control stream: a pending    *)
(* stop adds an order, a toggle an announcement, an announcement a stream. *)
OrderTokens == EventsOf("sendOrder") \cup EventsOf("stopTeleoperation")

ControlTokens ==
  EventsOf("startTeleoperation") \cup EventsOf("stopTeleoperation")
    \cup EventsOf("sendTeleoperationState") \cup EventsOf("sendControl")

(* A token for the last leg, too, which the next sendOrder follows.        *)
StrayOrders ==
  running => AtMostTwo(OrderTokens) /\ (LastLeg => AtMostOne(OrderTokens))

(* Until the stop there is one control stream at most, and the stop knows  *)
(* its name.                                                               *)
StrayControls ==
  /\ AtMostTwo(ControlTokens)
  /\ EventsOf("sendControl") # {} => teleoperating_
  /\ EventsOf("stopTeleoperation") # {} =>
       \A f \in EventsOf("sendControl") : f.uid = next_control_

LEMMA StrayMeaning == StrayOrders /\ StrayControls => StrayStreamsBounded
  BY DEF StrayOrders, StrayControls, StrayStreamsBounded, OrderTokens,
         ControlTokens, AtMostTwo

LEMMA StrayOrdersStep ==
  Lockstep /\ NamesOK /\ StrayOrders /\ [Next]_vars => StrayOrders'
<1> SUFFICES ASSUME Lockstep, NamesOK, StrayOrders, [Next]_vars, running'
             PROVE  AtMostTwo(OrderTokens)' /\ (LastLeg' => AtMostOne(OrderTokens)')
  BY DEF StrayOrders
<1>1. TypeOK
  BY DEF Lockstep
<1>2. ASSUME running, LastLeg' = LastLeg, OrderTokens' \subseteq OrderTokens
      PROVE  AtMostTwo(OrderTokens)' /\ (LastLeg' => AtMostOne(OrderTokens)')
  BY <1>2 DEF StrayOrders, AtMostOne, AtMostTwo
<1>3. ASSUME NEW e \in events, Bystander(e)
      PROVE  AtMostTwo(OrderTokens)' /\ (LastLeg' => AtMostOne(OrderTokens)')
  <2>1. LastLeg' = LastLeg /\ running
    BY <1>3, BystanderFrame, SameLeg
  <2>2. OrderTokens' = OrderTokens
    BY <1>1, <1>3, BystanderEffect DEF StreamKind, OrderTokens
  <2> QED
    BY <1>2, <2>1, <2>2
<1>4. ASSUME NEW e \in events, sendOrder(e)
      PROVE  AtMostTwo(OrderTokens)' /\ (LastLeg' => AtMostOne(OrderTokens)')
  <2>1. running
    BY <1>4 DEF sendOrder, Runs
  <2>2. e \in OrderTokens
    BY <1>1, <1>4, OrderEffect DEF OrderTokens
  <2>3. e \notin EventsOf("stopTeleoperation")
    BY <1>4 DEF sendOrder, Runs, EventsOf
  <2>4. EventsOf("stopTeleoperation")' = EventsOf("stopTeleoperation")
    BY <1>1, <1>4, OrderEffect DEF StreamKind
  <2>5. \/ LastLeg' /\ EventsOf("sendOrder")' = EventsOf("sendOrder") \ {e}
        \/ /\ ~LastLeg'
           /\ \E n : EventsOf("sendOrder")' = (EventsOf("sendOrder") \ {e}) \cup {n}
    BY <1>1, <1>4, OrderEffect, LegAfterOrder
  <2>6. \/ LastLeg' /\ OrderTokens' = OrderTokens \ {e}
        \/ ~LastLeg' /\ \E n : OrderTokens' = (OrderTokens \ {e}) \cup {n}
    BY <2>3, <2>4, <2>5 DEF OrderTokens
  <2> QED
    BY <2>1, <2>2, <2>6 DEF StrayOrders, AtMostOne, AtMostTwo
<1>5. ASSUME NEW e \in events, sendState(e)
      PROVE  AtMostTwo(OrderTokens)' /\ (LastLeg' => AtMostOne(OrderTokens)')
  <2>1. running
    BY <1>5 DEF sendState, Runs
  <2>2. EventsOf("stopTeleoperation")' = EventsOf("stopTeleoperation")
    BY <1>1, <1>5, StateEffect DEF StreamKind
  <2>3. CASE ~(~NothingReleased /\ NextOrderDue)
    <3>1. LastLeg' = LastLeg
      BY <1>5, <2>3, LegAfterState
    <3>2. EventsOf("sendOrder")' = EventsOf("sendOrder")
      BY <1>1, <1>5, <2>3, StateEffect
    <3> QED
      BY <1>2, <2>1, <2>2, <3>1, <3>2 DEF OrderTokens
  <2>4. CASE ~NothingReleased /\ NextOrderDue
    <3>1. LastLeg /\ ~LastLeg'
      BY <1>5, <2>4, LegAfterState
    <3>2. PICK n : EventsOf("sendOrder")' = EventsOf("sendOrder") \cup {n}
      BY <1>1, <1>5, <2>4, StateEffect
    <3>3. OrderTokens' = OrderTokens \cup {n}
      BY <2>2, <3>2 DEF OrderTokens
    <3> QED
      BY <2>1, <3>1, <3>3 DEF StrayOrders, AtMostOne, AtMostTwo
  <2> QED
    BY <2>3, <2>4
<1>6. ASSUME NEW e \in events, startTeleoperation(e)
      PROVE  AtMostTwo(OrderTokens)' /\ (LastLeg' => AtMostOne(OrderTokens)')
  <2>1. running
    BY <1>6 DEF startTeleoperation, Runs
  <2>2. ~LastLeg'
    BY <1>6 DEF startTeleoperation, LastLeg, NothingReleased
  <2>3. OrderTokens' \subseteq OrderTokens
    BY <1>1, <1>6, StartEffect DEF OrderTokens
  <2> QED
    BY <2>1, <2>2, <2>3 DEF StrayOrders, AtMostTwo
<1>7. ASSUME NEW e \in events, stopTeleoperation(e)
      PROVE  AtMostTwo(OrderTokens)' /\ (LastLeg' => AtMostOne(OrderTokens)')
  <2>1. running
    BY <1>7 DEF stopTeleoperation, Runs
  <2>2. LastLeg' = LastLeg
    BY <1>7, SameLeg DEF stopTeleoperation
  <2>3. e \in OrderTokens
    BY <1>1, <1>7, StopEffect DEF OrderTokens
  <2>4. e \notin EventsOf("sendOrder")
    BY <1>7 DEF stopTeleoperation, Runs, EventsOf
  <2>5. PICK n : EventsOf("sendOrder")' = EventsOf("sendOrder") \cup {n}
    BY <1>1, <1>7, StopEffect
  <2>6. EventsOf("stopTeleoperation")' = EventsOf("stopTeleoperation") \ {e}
    BY <1>1, <1>7, StopEffect
  <2>7. OrderTokens' = (OrderTokens \ {e}) \cup {n}
    BY <2>4, <2>5, <2>6 DEF OrderTokens
  <2> QED
    BY <2>1, <2>2, <2>3, <2>7 DEF StrayOrders, AtMostOne, AtMostTwo
<1>8. ASSUME NEW e \in events, sendTeleoperationState(e) \/ sendControl(e)
      PROVE  AtMostTwo(OrderTokens)' /\ (LastLeg' => AtMostOne(OrderTokens)')
  <2>1. LastLeg' = LastLeg /\ running
    BY <1>8, SameLeg DEF sendTeleoperationState, sendControl, Runs
  <2>2. OrderTokens' = OrderTokens
    BY <1>1, <1>8, AnnounceEffect, ControlEffect DEF StreamKind, OrderTokens
  <2> QED
    BY <1>2, <2>1, <2>2
<1>9. ASSUME NEW e \in events, Stop(e)
      PROVE  FALSE
  BY <1>9 DEF Stop
<1>10. CASE UNCHANGED events /\ UNCHANGED <<planned, released, teleoperating_, running>>
  <2>1. LastLeg' = LastLeg /\ running
    BY <1>10, SameLeg
  <2>2. OrderTokens' = OrderTokens
    BY <1>10 DEF OrderTokens, EventsOf
  <2> QED
    BY <1>2, <2>1, <2>2
<1> QED
  BY <1>3, <1>4, <1>5, <1>6, <1>7, <1>8, <1>9, <1>10, Steps

(* A step of another stream.                                               *)
LEMMA StrayControlsFrame ==
  ASSUME StrayControls, UNCHANGED <<teleoperating_, next_control_>>,
         EventsOf("sendControl")' = EventsOf("sendControl"),
         EventsOf("sendTeleoperationState")' = EventsOf("sendTeleoperationState"),
         EventsOf("startTeleoperation")' = EventsOf("startTeleoperation"),
         EventsOf("stopTeleoperation")' = EventsOf("stopTeleoperation")
  PROVE  StrayControls'
  BY DEF StrayControls, ControlTokens, AtMostTwo

(* A token exchanged for another one.                                      *)
LEMMA Exchange ==
  ASSUME NEW S, NEW R, NEW e \in S, NEW n, R \subseteq (S \ {e}) \cup {n},
         AtMostTwo(S)
  PROVE  AtMostTwo(R)
  BY DEF AtMostTwo

LEMMA StrayControlsStep ==
  TypeOK /\ NamesOK /\ StrayControls /\ [Next]_vars => StrayControls'
<1> SUFFICES ASSUME TypeOK, NamesOK, StrayControls, [Next]_vars
             PROVE  StrayControls'
  OBVIOUS
<1>1. ASSUME NEW e \in events, Bystander(e)
      PROVE  StrayControls'
  BY <1>1, BystanderEffect, BystanderFrame, StrayControlsFrame DEF StreamKind, ids
<1>2. ASSUME NEW e \in events, sendOrder(e)
      PROVE  StrayControls'
  <2>1. UNCHANGED <<teleoperating_, next_control_>>
    BY <1>2 DEF sendOrder
  <2> QED
    BY <1>2, <2>1, OrderEffect, StrayControlsFrame DEF StreamKind
<1>3. ASSUME NEW e \in events, sendState(e)
      PROVE  StrayControls'
  <2>1. UNCHANGED <<teleoperating_, next_control_>>
    BY <1>3 DEF sendState
  <2> QED
    BY <1>3, <2>1, StateEffect, StrayControlsFrame DEF StreamKind
<1>4. ASSUME NEW e \in events, startTeleoperation(e)
      PROVE  StrayControls'
  <2>1. teleoperating_' = TRUE /\ next_control_' = next_control_
    BY <1>4 DEF startTeleoperation
  <2>2. /\ e \in EventsOf("startTeleoperation")
        /\ EventsOf("startTeleoperation")' = EventsOf("startTeleoperation") \ {e}
        /\ EventsOf("stopTeleoperation")' = EventsOf("stopTeleoperation")
        /\ EventsOf("sendControl")' = EventsOf("sendControl")
    BY <1>4, StartEffect
  <2>3. PICK n : EventsOf("sendTeleoperationState")' =
                   EventsOf("sendTeleoperationState") \cup {n}
    BY <1>4, StartEffect
  <2>4. \A k \in StreamKind \ {"startTeleoperation"} : e \notin EventsOf(k)
    BY <2>2 DEF EventsOf
  <2>5. ControlTokens' \subseteq (ControlTokens \ {e}) \cup {n}
    BY <2>2, <2>3, <2>4 DEF ControlTokens, StreamKind
  <2>6. AtMostTwo(ControlTokens)'
    BY <2>2, <2>5, Exchange DEF ControlTokens, StrayControls
  <2> QED
    BY <2>1, <2>2, <2>6 DEF StrayControls
<1>5. ASSUME NEW e \in events, stopTeleoperation(e)
      PROVE  StrayControls'
  <2>1. /\ e \in EventsOf("stopTeleoperation")
        /\ EventsOf("stopTeleoperation")' = EventsOf("stopTeleoperation") \ {e}
        /\ EventsOf("startTeleoperation")' = EventsOf("startTeleoperation")
        /\ EventsOf("sendControl")' =
             {f \in EventsOf("sendControl") : f.uid # next_control_}
    BY <1>5, StopEffect
  <2>2. EventsOf("sendControl")' = {}
    BY <2>1 DEF StrayControls
  <2>3. PICK n : EventsOf("sendTeleoperationState")' =
                   EventsOf("sendTeleoperationState") \cup {n}
    BY <1>5, StopEffect
  <2>4. \A k \in StreamKind \ {"stopTeleoperation"} : e \notin EventsOf(k)
    BY <2>1 DEF EventsOf
  <2>5. ControlTokens' \subseteq (ControlTokens \ {e}) \cup {n}
    BY <2>1, <2>2, <2>3, <2>4 DEF ControlTokens, StreamKind
  <2>6. AtMostTwo(ControlTokens)'
    BY <2>1, <2>5, Exchange DEF ControlTokens, StrayControls
  <2> QED
    BY <2>2, <2>6 DEF StrayControls
<1>6. ASSUME NEW e \in events, sendTeleoperationState(e)
      PROVE  StrayControls'
  <2>1. teleoperating_' = teleoperating_
    BY <1>6 DEF sendTeleoperationState
  <2>2. /\ e \in EventsOf("sendTeleoperationState")
        /\ EventsOf("sendTeleoperationState")' =
             EventsOf("sendTeleoperationState") \ {e}
        /\ EventsOf("startTeleoperation")' = EventsOf("startTeleoperation")
        /\ EventsOf("stopTeleoperation")' = EventsOf("stopTeleoperation")
    BY <1>6, AnnounceEffect DEF StreamKind
  <2>3. \A k \in StreamKind \ {"sendTeleoperationState"} : e \notin EventsOf(k)
    BY <2>2 DEF EventsOf
  <2>4. CASE teleoperating_
    <3>1. PICK n : /\ n.uid = next_control_'
                   /\ EventsOf("sendControl")' = EventsOf("sendControl") \cup {n}
      BY <1>6, <2>4, AnnounceEffect
    <3>2. ControlTokens' \subseteq (ControlTokens \ {e}) \cup {n}
      BY <2>2, <2>3, <3>1 DEF ControlTokens, StreamKind
    <3>3. AtMostTwo(ControlTokens)'
      BY <2>2, <3>2, Exchange DEF ControlTokens, StrayControls
    <3>4. ASSUME NEW s \in EventsOf("stopTeleoperation")
          PROVE  EventsOf("sendControl") = {}
      <4>1. /\ \A f \in EventsOf("sendControl") : f.kind = "sendControl"
            /\ s.kind = "stopTeleoperation" /\ e.kind = "sendTeleoperationState"
        BY <2>2 DEF EventsOf
      <4>2. s # e /\ \A f \in EventsOf("sendControl") : f # s /\ f # e
        BY <4>1
      <4> QED
        BY <2>2, <4>2 DEF StrayControls, ControlTokens, AtMostTwo
    <3> QED
      BY <2>1, <2>2, <2>4, <3>1, <3>3, <3>4 DEF StrayControls
  <2>5. CASE ~teleoperating_
    <3>1. EventsOf("sendControl")' = EventsOf("sendControl")
      BY <1>6, <2>5, AnnounceEffect
    <3>2. EventsOf("sendControl")' = {}
      BY <2>5, <3>1 DEF StrayControls
    <3>3. ControlTokens' \subseteq ControlTokens
      BY <2>2, <3>1 DEF ControlTokens
    <3> QED
      BY <3>2, <3>3 DEF StrayControls, AtMostTwo
  <2> QED
    BY <2>4, <2>5
<1>7. ASSUME NEW e \in events, sendControl(e)
      PROVE  StrayControls'
  <2>1. teleoperating_' = teleoperating_
    BY <1>7 DEF sendControl
  <2>2. /\ e \in EventsOf("sendControl")
        /\ \A k \in StreamKind \ {"sendControl"} : EventsOf(k)' = EventsOf(k)
    BY <1>7, ControlEffect
  <2>3. PICK n : /\ n.uid = next_control_'
                 /\ EventsOf("sendControl")' = (EventsOf("sendControl") \ {e}) \cup {n}
    BY <1>7, ControlEffect
  <2>4. \A k \in StreamKind \ {"sendControl"} : e \notin EventsOf(k)
    BY <2>2 DEF EventsOf
  <2>5. ControlTokens' \subseteq (ControlTokens \ {e}) \cup {n}
    BY <2>2, <2>3, <2>4 DEF ControlTokens, StreamKind
  <2>6. AtMostTwo(ControlTokens)'
    BY <2>2, <2>5, Exchange DEF ControlTokens, StrayControls
  <2>7. ASSUME NEW s \in EventsOf("stopTeleoperation")
        PROVE  \A f \in EventsOf("sendControl") : f = e
    <3>1. \A f \in EventsOf("sendControl") : f.uid = e.uid /\ f \in events
      BY <2>2 DEF StrayControls, EventsOf
    <3> QED
      BY <3>1 DEF TypeOK, QueueOK
  <2>8. EventsOf("stopTeleoperation")' = EventsOf("stopTeleoperation")
    BY <2>2 DEF StreamKind
  <2>9. teleoperating_
    BY <2>2 DEF StrayControls
  <2> QED
    BY <2>1, <2>3, <2>6, <2>7, <2>8, <2>9 DEF StrayControls
<1>8. ASSUME NEW e \in events, Stop(e)
      PROVE  StrayControls'
  <2>1. UNCHANGED <<teleoperating_, next_control_>>
    BY <1>8 DEF Stop, ids
  <2> QED
    BY <1>8, <2>1, ExitEffect, StrayControlsFrame DEF StreamKind
<1>9. CASE UNCHANGED events /\ UNCHANGED <<next_state_, next_order_, next_control_>>
           /\ UNCHANGED <<planned, released, teleoperating_, running>>
  BY <1>9, StrayControlsFrame DEF EventsOf
<1> QED
  BY <1>1, <1>2, <1>3, <1>4, <1>5, <1>6, <1>7, <1>8, <1>9, Steps

-------------------------------------------------------------------------------
(* The inductive invariant and the theorems.                               *)

(* What holds of every configuration, ...                                  *)
StreamInv == Lockstep /\ NamesOK /\ TogglesOK /\ OneStateStream

(* ... and what teleoperation needs in addition: phases in their order.    *)
PhaseInv == StopPending /\ ControlInv /\ OrderInv

LEMMA StreamInit == Init => StreamInv /\ PhaseInv
<1> SUFFICES ASSUME Init
             PROVE  StreamInv /\ PhaseInv
  OBVIOUS
<1> USE DEF Event
<1>1. Lockstep
  BY InitType DEF Init, NodesAndEdgesInStep, Lockstep
<1>2. events = VdaEvents(V) \cup {Event("Stop", cfg_.length_s, 9)}
        \cup (IF cfg_.scenario = "TELEOP" THEN TeleopEvents(T) ELSE {})
  BY DEF Init, InitialEvents, V, T
<1>3. /\ EventsOf("sendState") = {Event("sendState", V.send_state_after_ms, 2)}
      /\ EventsOf("sendOrder") = {Event("sendOrder", V.send_order_after_ms, 4)}
  BY <1>2 DEF EventsOf, VdaEvents, TeleopEvents
<1>4. EventsOf("sendTeleoperationState") = {} /\ EventsOf("sendControl") = {}
  BY <1>2 DEF EventsOf, VdaEvents, TeleopEvents
<1>5. IF cfg_.scenario = "TELEOP"
      THEN /\ EventsOf("startTeleoperation") =
                {Event("startTeleoperation", T.start_s, 7)}
           /\ EventsOf("stopTeleoperation") =
                {Event("stopTeleoperation", T.stop_s, 8)}
      ELSE EventsOf("startTeleoperation") = {} /\ EventsOf("stopTeleoperation") = {}
  BY <1>2 DEF EventsOf, VdaEvents, TeleopEvents
<1>6. \A f \in events : f.uid = 2 => f.kind = "sendState"
  BY <1>2 DEF VdaEvents, TeleopEvents
<1>7. \A f \in events : f.uid = 4 => f.kind = "sendOrder"
  BY <1>2 DEF VdaEvents, TeleopEvents
<1>8. \A f \in events : f.uid # 0
  BY <1>2 DEF VdaEvents, TeleopEvents
<1>9. NamesOK
  BY <1>6, <1>7, <1>8 DEF Init, NamesOK, NoEvent
<1>10. TogglesOK
  BY <1>5 DEF TogglesOK, EventsOf
<1>11. StopPending
  BY <1>5 DEF StopPending
<1>12. OneStateStream
  <2>1. Event("sendState", V.send_state_after_ms, 2) \in events
    BY <1>3 DEF EventsOf
  <2> QED
    BY <1>3, <2>1 DEF OneStateStream, Init
<1>13. ControlInv
  BY <1>4 DEF Init, ControlInv, ControlOnlyWhileTeleoperating, QuietBefore
<1>14. OrderInv
  <2>1. ~TakenOver
    BY <1>5 DEF TakenOver
  <2>2. ~LastLeg
    BY DEF Init, LastLeg, NothingReleased
  <2> QED
    BY <1>3, <2>1, <2>2 DEF OrderInv, HandedBack
<1> QED
  BY <1>1, <1>9, <1>10, <1>11, <1>12, <1>13, <1>14
  DEF StreamInv, PhaseInv

LEMMA OneOrderInit == Init => OneOrderStream
<1> SUFFICES ASSUME Init
             PROVE  OneOrder
  BY OneOrderMeaning
<1>1. EventsOf("sendOrder") = {Event("sendOrder", V.send_order_after_ms, 4)}
  <2>1. events = VdaEvents(V) \cup {Event("Stop", cfg_.length_s, 9)}
          \cup (IF cfg_.scenario = "TELEOP" THEN TeleopEvents(T) ELSE {})
    BY DEF Init, InitialEvents, V, T
  <2> QED
    BY <2>1 DEF EventsOf, VdaEvents, TeleopEvents, Event
<1>2. ~LastLeg
  BY DEF Init, LastLeg, NothingReleased
<1> QED
  BY <1>1, <1>2 DEF OneOrder

LEMMA StrayInit == Init => StrayOrders /\ StrayControls
<1> SUFFICES ASSUME Init
             PROVE  StrayOrders /\ StrayControls
  OBVIOUS
<1> USE DEF Event
<1>1. events = VdaEvents(V) \cup {Event("Stop", cfg_.length_s, 9)}
        \cup (IF cfg_.scenario = "TELEOP" THEN TeleopEvents(T) ELSE {})
  BY DEF Init, InitialEvents, V, T
<1>2. /\ EventsOf("sendOrder") = {Event("sendOrder", V.send_order_after_ms, 4)}
      /\ EventsOf("sendTeleoperationState") = {} /\ EventsOf("sendControl") = {}
  BY <1>1 DEF EventsOf, VdaEvents, TeleopEvents
<1>3. /\ EventsOf("startTeleoperation") \subseteq
           {Event("startTeleoperation", T.start_s, 7)}
      /\ EventsOf("stopTeleoperation") \subseteq
           {Event("stopTeleoperation", T.stop_s, 8)}
  BY <1>1 DEF EventsOf, VdaEvents, TeleopEvents
<1>4. ~LastLeg
  BY DEF Init, LastLeg, NothingReleased
<1>5. AtMostTwo(OrderTokens)
  BY <1>2, <1>3 DEF OrderTokens, AtMostTwo
<1>6. AtMostTwo(ControlTokens)
  BY <1>2, <1>3 DEF ControlTokens, AtMostTwo
<1> QED
  BY <1>2, <1>4, <1>5, <1>6 DEF StrayOrders, StrayControls

LEMMA StreamStep == StreamInv /\ [Next]_vars => StreamInv'
<1> SUFFICES ASSUME StreamInv, [Next]_vars
             PROVE  StreamInv'
  OBVIOUS
<1>1. TypeOK /\ NodesAndEdgesInStep
  BY DEF StreamInv, Lockstep
<1>2. Lockstep'
  BY <1>1, TypeStep, InStepStep DEF Lockstep
<1>3. NamesOK'
  BY <1>1, NamesStep DEF StreamInv
<1>4. TogglesOK'
  BY <1>1, TogglesStep DEF StreamInv
<1>5. OneStateStream'
  BY <1>1, StateStreamStep DEF StreamInv
<1> QED
  BY <1>2, <1>3, <1>4, <1>5 DEF StreamInv

THEOREM StreamInvariant == Spec => []StreamInv
<1>1. Init => StreamInv
  BY StreamInit
<1> QED
  BY <1>1, StreamStep, PTL DEF Spec

(* The phases of teleoperation come in their order.                        *)
LEMMA PhaseStep ==
  ASSUME StopsAfterStart
  PROVE  StreamInv /\ PhaseInv /\ [Next]_vars => PhaseInv'
<1> SUFFICES ASSUME StreamInv, PhaseInv, [Next]_vars
             PROVE  PhaseInv'
  OBVIOUS
<1>1. Lockstep /\ TypeOK /\ NamesOK /\ TogglesOK
  BY DEF StreamInv, Lockstep
<1>2. StopPending'
  BY <1>1, StopPendingStep DEF PhaseInv
<1>3. ControlInv'
  BY <1>1, ControlStep DEF PhaseInv
<1>4. OrderInv'
  BY <1>1, OrderStep DEF PhaseInv
<1> QED
  BY <1>2, <1>3, <1>4 DEF PhaseInv

THEOREM PhaseInvariant ==
  ASSUME StopsAfterStart
  PROVE  Spec => []PhaseInv
<1>1. Init => PhaseInv
  BY StreamInit
<1>2. StreamInv /\ PhaseInv /\ [Next]_vars => PhaseInv'
  BY PhaseStep
<1> QED
  BY <1>1, <1>2, StreamInvariant, PTL DEF Spec

(* The robot reports its state in one stream that never dies: exactly one  *)
(* sendState is pending and next_state_ names it, through the cancelling   *)
(* and rescheduling of four handlers of agv.cpp.                           *)
THEOREM StateStream == Spec => []OneStateStream
<1>1. StreamInv => OneStateStream
  BY DEF StreamInv
<1> QED
  BY <1>1, StreamInvariant, PTL

THEOREM StrayInvariant == Spec => [](StrayOrders /\ StrayControls)
<1>1. Init => StrayOrders /\ StrayControls
  BY StrayInit
<1>2. StreamInv /\ StrayOrders /\ StrayControls /\ [Next]_vars
        => (StrayOrders /\ StrayControls)'
  BY StrayOrdersStep, StrayControlsStep DEF StreamInv, Lockstep
<1> QED
  BY <1>1, <1>2, StreamInvariant, PTL DEF Spec

(* However the toggles are configured, stray streams are bounded: never    *)
(* three of orders or of control commands, and no control command while    *)
(* the robot is not teleoperated.                                          *)
THEOREM Strays == Spec => []StrayStreamsBounded
  BY StrayMeaning, StrayInvariant, PTL

(* Until the first toggle of teleoperation exactly one sendOrder is        *)
(* pending, and none while the robot is on the last leg of an order.       *)
THEOREM OrderStream == Spec => []OneOrderStream
<1>1. Init => OneOrderStream
  BY OneOrderInit
<1>2. StreamInv /\ OneOrderStream /\ [Next]_vars => OneOrderStream'
  BY OneOrderStep DEF StreamInv
<1> QED
  BY <1>1, <1>2, StreamInvariant, PTL DEF Spec

(* Teleoperation leaves at most one stray order behind, and the restart    *)
(* never fails to bring orders back.                                       *)
THEOREM OrderStreams ==
  ASSUME StopsAfterStart
  PROVE  Spec => []OrderStreamsBounded
<1>1. PhaseInv => OrderStreamsBounded
  BY OrderInvMeaning DEF PhaseInv
<1> QED
  BY <1>1, PhaseInvariant, PTL

(* Control commands are sent only while the robot is teleoperated, in one  *)
(* stream that next_control_ can cancel.                                   *)
THEOREM ControlStream ==
  ASSUME StopsAfterStart
  PROVE  Spec => []ControlOnlyWhileTeleoperating
<1>1. PhaseInv => ControlOnlyWhileTeleoperating
  BY DEF PhaseInv, ControlInv
<1> QED
  BY <1>1, PhaseInvariant, PTL
===============================================================================
