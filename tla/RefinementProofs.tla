---------------------------- MODULE RefinementProofs ----------------------------
(***************************************************************************)
(* What the Controller implements: OrderExecution, for every set of        *)
(* configurations without teleoperation, and TeleopSession, for every set  *)
(* that stops teleoperation after its start.                               *)
(***************************************************************************)
EXTENDS StreamProofs

-------------------------------------------------------------------------------
(* Orders.                                                                 *)

WithoutTeleop == \A c \in Configs : c.scenario = "VDA5050"

LEMMA NotTakenOver ==
  ASSUME WithoutTeleop, StreamInv
  PROVE  /\ cfg_ \in Configs /\ ~TakenOver
         /\ EventsOf("startTeleoperation") = {}
<1>1. cfg_ \in Configs /\ cfg_.scenario = "VDA5050"
  BY DEF WithoutTeleop, StreamInv, Lockstep, TypeOK
<1> QED
  BY <1>1 DEF TakenOver, EventsOf, StreamInv, TogglesOK

(* A sendOrder starts or extends an order.                                 *)
LEMMA OrderRefines ==
  ASSUME WithoutTeleop, StreamInv, PhaseInv, NEW e \in events, sendOrder(e)
  PROVE  OE!NewOrder \/ OE!Extend
<1>1. /\ planned_node_states_ \in Seq(Nat)
      /\ node_states_ \in Seq(Nat) /\ edge_states_ \in Seq(Nat)
      /\ planned_edge_states_ = planned_node_states_
  BY DEF StreamInv, Lockstep, TypeOK, NodesAndEdgesInStep
<1>2. running /\ e \in EventsOf("sendOrder")
  BY DEF sendOrder, Runs, EventsOf
<1>3. ~LastLeg
  BY <1>2, NotTakenOver DEF PhaseInv, OrderInv
<1>4. CASE NothingPlanned
  <2>1. node_states_ = <<>> /\ edge_states_ = <<>> /\ planned_node_states_ = <<>>
    BY <1>3, <1>4 DEF LastLeg, NothingPlanned, NothingReleased
  <2>2. PICK n \in V.order_len_min .. V.order_len_max : Release(Route(n), Route(n))
    BY <1>4 DEF sendOrder, PlanAndRelease
  <2>3. V \in Vda5050Config /\ cfg_ \in Configs
    BY Delays, NotTakenOver
  <2>4. n \in Nat
    BY <2>3 DEF Vda5050Config
  <2>5. n \in UNION {c.vda5050_cfg.order_len_min ..
                       c.vda5050_cfg.order_len_max : c \in Configs}
    BY <2>3 DEF V
  <2>6. \E k \in 1 .. n : /\ Len(planned_node_states_') = n - k
                          /\ Len(node_states_') + Len(edge_states_') = 2 * k
    <3>1. Route(n) \in Seq(Nat) /\ Len(Route(n)) = n
      BY <2>4, RouteType
    <3>2. \E k \in 1 .. n :
            /\ Len(planned_node_states_') = n - k
            /\ Len(node_states_') + Len(edge_states_') =
                 Len(node_states_) + Len(edge_states_) + 2 * k
      BY <1>1, <2>2, <3>1, ReleaseLengths
    <3>3. Len(node_states_) = 0 /\ Len(edge_states_) = 0
      BY <2>1, EmptySeq
    <3> QED
      BY <3>2, <3>3
  <2>7. /\ Len(planned_node_states_) = 0
        /\ Len(node_states_) + Len(edge_states_) = 0
    BY <2>1, EmptySeq
  <2>8. OE!NewOrder
    BY <2>5, <2>6, <2>7 DEF OE!NewOrder
  <2> QED
    BY <2>8
<1>5. CASE ~NothingPlanned
  <2>1. Release(planned_node_states_, planned_node_states_)
    BY <1>1, <1>5 DEF sendOrder, PlanAndRelease
  <2>2. OE!Extend
    BY <1>1, <2>1, ReleaseLengths DEF OE!Extend
  <2> QED
    BY <2>2
<1> QED
  BY <1>4, <1>5

(* A sendState travels one element or stutters.                            *)
LEMMA StateRefines ==
  ASSUME StreamInv, NEW e \in events, sendState(e)
  PROVE  OE!Travel \/ UNCHANGED <<planned, released>>
<1>1. /\ node_states_ \in Seq(Nat) /\ edge_states_ \in Seq(Nat)
      /\ NodesAndEdgesInStep
  BY DEF StreamInv, Lockstep, TypeOK
<1>2. UNCHANGED planned
  BY DEF sendState
<1>3. UNCHANGED released \/ (~NothingReleased /\ Advance)
  BY DEF sendState, released
<1>4. CASE ~NothingReleased /\ Advance
  <2>1. /\ node_states_ # <<>>
        /\ Len(node_states_) = Len(edge_states_) => edge_states_ # <<>>
    BY <1>1, <1>4 DEF NodesAndEdgesInStep, NothingReleased
  <2>2. \/ Len(edge_states_') = Len(edge_states_) - 1 /\ node_states_' = node_states_
        \/ Len(node_states_') = Len(node_states_) - 1 /\ edge_states_' = edge_states_
    BY <1>1, <1>4, <2>1, HeadTailProperties DEF Advance
  <2>3. Len(node_states_) \in Nat \ {0} /\ Len(edge_states_) \in Nat
    BY <1>1, <2>1, EmptySeq
  <2> QED
    BY <1>2, <2>2, <2>3 DEF OE!Travel, planned
<1> QED
  BY <1>2, <1>3, <1>4

(* Every other step stutters.                                              *)
LEMMA StepRefines ==
  ASSUME WithoutTeleop
  PROVE  StreamInv /\ PhaseInv /\ [Next]_vars => [OE!Next]_OE!vars
<1> SUFFICES ASSUME StreamInv, PhaseInv, [Next]_vars
             PROVE  OE!Next \/ UNCHANGED <<planned, released>>
  BY DEF OE!vars, planned, released
<1>1. ASSUME NEW e \in events, sendOrder(e)
      PROVE  OE!Next
  BY <1>1, OrderRefines DEF OE!Next
<1>2. ASSUME NEW e \in events, sendState(e)
      PROVE  OE!Next \/ UNCHANGED <<planned, released>>
  BY <1>2, StateRefines DEF OE!Next
<1>3. ASSUME NEW e \in events, startTeleoperation(e)
      PROVE  FALSE
  BY <1>3, NotTakenOver DEF EventsOf, startTeleoperation, Runs
<1>4. ASSUME NEW e \in events, Bystander(e)
      PROVE  UNCHANGED <<planned, released>>
  BY <1>4, BystanderFrame
<1>5. ASSUME NEW e \in events,
             \/ stopTeleoperation(e) \/ sendTeleoperationState(e)
             \/ sendControl(e) \/ Stop(e)
      PROVE  UNCHANGED <<planned, released>>
  BY <1>5 DEF stopTeleoperation, sendTeleoperationState, sendControl, Stop
<1> QED
  BY <1>1, <1>2, <1>3, <1>4, <1>5, Steps

(* In the VDA5050 scenario the Controller implements OrderExecution: a new *)
(* order starts only when the last one has been travelled to its end,      *)
(* whatever the order in which continuations and state reports fall.       *)
THEOREM Refinement ==
  ASSUME WithoutTeleop
  PROVE  Spec => ImplementsOrderExecution
<1>1. Init => OE!Init
  BY EmptySeq DEF Init, OE!Init
<1>2. StreamInv /\ PhaseInv /\ [Next]_vars => [OE!Next]_OE!vars
  BY StepRefines
<1>3. StopsAfterStart
  BY DEF WithoutTeleop, StopsAfterStart
<1>4. Spec => []PhaseInv
  BY <1>3, PhaseInvariant
<1> QED
  BY <1>1, <1>2, <1>4, StreamInvariant, PTL DEF Spec, ImplementsOrderExecution, OE!Spec

-------------------------------------------------------------------------------
(* Teleoperation.                                                          *)

Announcement == {"teleoperating", "not teleoperating"}

(* Between take-over and stop the robot is teleoperated.                   *)
LastsUntilStop ==
  TakenOver /\ EventsOf("stopTeleoperation") # {} => teleoperating_

(* What is still to be sent: one command, or an announcement with its      *)
(* video command, or the two commands to exit.                             *)
OutOK ==
  \/ out = <<>>
  \/ \E c : out = <<c>> /\ Said(c) \notin Announcement
  \/ \E c, d : /\ out = <<c, d>>
              /\ \/ Said(c) = "teleoperating" /\ Said(d) = "START_VIDEO"
                 \/ Said(c) = "not teleoperating" /\ Said(d) = "STOP_VIDEO"
                 \/ Said(c) = "" /\ Said(d) = ""

SessionInv == StreamInv /\ PhaseInv /\ LastsUntilStop /\ OutOK

-------------------------------------------------------------------------------
(* What the commands of the handlers say.                                  *)

LEMMA SaidBy ==
  /\ \A text : Said(instantActions(text)) =
                 IF text \in {"startTeleoperation", "stopTeleoperation",
                             "teleoperating", "not teleoperating"}
                 THEN text ELSE ""
  /\ \A text \in Announcement :
       Said(executeCommandUe("PUBLISH_TELEOP", "teleop_state", Plain(text))) = text
  /\ \A type \in {"START_VIDEO", "STOP_VIDEO"} :
       Said(executeCommandUe(type, "", Plain(""))) = type
  /\ Said(executeCommandBase("PUBLISH_TELEOP", "control", Plain("speeds"))) = "control"
  /\ Said(executeCommandUe("EXIT", "", Plain(""))) = ""
  /\ Said(executeCommandBase("EXIT", "Test", Plain("Test"))) = ""
  BY DEF Said, instantActions, executeCommandUe, executeCommandBase, CommandFor,
         Plain, Announcement

(* Orders, states and what carries no state are not of the session.        *)
LEMMA SaidByOthers ==
  /\ \A text \in {"ONLINE", "factsheet", "visualization", "capabilities"} :
       \A type \in {"PUBLISH_VDA", "PUBLISH_TELEOP"} :
         \A topic \in {"connection", "factsheet", "visualization",
                       "teleoperationCapabilities"} :
           Said(executeCommandUe(type, topic, Plain(text))) = ""
  /\ \A nodes, edges :
       /\ Said(executeCommandBase("PUBLISH_VDA", "order",
                                  Lists("order", nodes, edges))) = ""
       /\ Said(executeCommandUe("PUBLISH_VDA", "state",
                                Lists("state", nodes, edges))) = ""
<1>1. ASSUME NEW c, c.topic # "control", c.type \in {"PUBLISH_VDA", "PUBLISH_TELEOP"},
             c.msg.text \in {"ONLINE", "factsheet", "visualization", "capabilities",
                            "order", "state"}
      PROVE  Said(c) = ""
  BY <1>1 DEF Said
<1>2. ASSUME NEW text \in {"ONLINE", "factsheet", "visualization", "capabilities"},
             NEW type \in {"PUBLISH_VDA", "PUBLISH_TELEOP"},
             NEW topic \in {"connection", "factsheet", "visualization",
                           "teleoperationCapabilities"}
      PROVE  Said(executeCommandUe(type, topic, Plain(text))) = ""
  BY <1>1 DEF executeCommandUe, CommandFor, Plain
<1>3. ASSUME NEW nodes, NEW edges
      PROVE  /\ Said(executeCommandBase("PUBLISH_VDA", "order",
                                        Lists("order", nodes, edges))) = ""
             /\ Said(executeCommandUe("PUBLISH_VDA", "state",
                                      Lists("state", nodes, edges))) = ""
  BY <1>1 DEF executeCommandUe, executeCommandBase, CommandFor, Lists
<1> QED
  BY <1>2, <1>3

(* The first of the commands still to be sent decides.                     *)
LEMMA Pairs ==
  ASSUME NEW c, NEW d
  PROVE  /\ <<c, d>> # <<>> /\ Head(<<c, d>>) = c
         /\ Tail(<<c, d>>) = <<d>> /\ <<d>> # <<>> /\ Head(<<d>>) = d
<1>1. <<c, d>> # <<>> /\ <<d>> # <<>>
  OBVIOUS
<1>2. Head(<<c, d>>) = c /\ Head(<<d>>) = d
  OBVIOUS
<1>3. Tail(<<c, d>>) = <<d>>
  OBVIOUS
<1> QED
  BY <1>1, <1>2, <1>3

LEMMA SayingTwo ==
  ASSUME NEW c, NEW d, out' = <<c, d>>
  PROVE  Saying' = Said(c)
<1>1. out' # <<>> /\ Head(out') = c
  BY Pairs
<1> QED
  BY <1>1 DEF Saying

LEMMA SayingOne ==
  ASSUME NEW c, out' = <<c>>
  PROVE  Saying' = Said(c)
  BY DEF Saying

(* A handler runs when everything is said.                                 *)
LEMMA Silent == out = <<>> => Saying = ""
  BY DEF Saying

(* A handler outside the session says nothing and changes no phase.        *)
LEMMA OtherStep ==
  ASSUME SessionInv, NEW e \in events,
         Bystander(e) \/ sendOrder(e) \/ sendState(e)
  PROVE  /\ out = <<>> /\ \E c : out' = <<c>> /\ Said(c) = ""
         /\ UNCHANGED <<cfg_, teleoperating_>>
         /\ \A k \in {"startTeleoperation", "stopTeleoperation",
                       "sendTeleoperationState"} : EventsOf(k)' = EventsOf(k)
<1>1. TypeOK /\ NamesOK
  BY DEF SessionInv, StreamInv, Lockstep
<1>2. \A k \in StreamKind \ {"sendOrder", "sendState"} : EventsOf(k)' = EventsOf(k)
  BY <1>1, BystanderEffect, OrderEffect, StateEffect
<1>3. out = <<>> /\ UNCHANGED <<cfg_, teleoperating_>>
  BY DEF Bystander, sendConnection, sendFactsheetRequest, sendFactsheet,
         sendVisualization, requestTeleoperationCapabilities,
         sendTeleoperationCapabilities, sendOrder, sendState, Runs
<1>4. \E c : out' = <<c>> /\ Said(c) = ""
  <2>1. CASE sendFactsheetRequest(e) \/ requestTeleoperationCapabilities(e)
    BY <2>1, SaidBy DEF sendFactsheetRequest, requestTeleoperationCapabilities
  <2>2. CASE \/ sendConnection(e) \/ sendFactsheet(e) \/ sendVisualization(e)
             \/ sendTeleoperationCapabilities(e)
    BY <2>2, SaidByOthers
    DEF sendConnection, sendFactsheet, sendVisualization,
        sendTeleoperationCapabilities
  <2>3. CASE sendOrder(e) \/ sendState(e)
    BY <2>3, SaidByOthers DEF sendOrder, sendState
  <2> QED
    BY <2>1, <2>2, <2>3 DEF Bystander
<1> QED
  BY <1>2, <1>3, <1>4 DEF StreamKind

-------------------------------------------------------------------------------
(* The invariant.                                                          *)

(* At first the start is pending, if there is to be one.                   *)
LEMMA NotYet == Init => ~TakenOver
<1> SUFFICES ASSUME Init, cfg_.scenario = "TELEOP"
             PROVE  EventsOf("startTeleoperation") # {}
  BY DEF TakenOver
<1>1. Event("startTeleoperation", T.start_s, 7) \in events
  BY DEF Init, InitialEvents, TeleopEvents, T, V
<1> QED
  BY <1>1 DEF EventsOf, Event

LEMMA LastsStep ==
  ASSUME StopsAfterStart
  PROVE  SessionInv /\ [Next]_vars => LastsUntilStop'
<1> SUFFICES ASSUME SessionInv, [Next]_vars
             PROVE  LastsUntilStop'
  OBVIOUS
<1>1. TypeOK /\ NamesOK /\ TogglesOK
  BY DEF SessionInv, StreamInv, Lockstep
<1>2. cfg_' = cfg_
  BY ConfigFixed
<1>3. ASSUME teleoperating_' = teleoperating_,
             EventsOf("startTeleoperation")' = EventsOf("startTeleoperation"),
             EventsOf("stopTeleoperation")' = EventsOf("stopTeleoperation")
      PROVE  LastsUntilStop'
  BY <1>2, <1>3, SamePhase DEF SessionInv, LastsUntilStop
<1>4. ASSUME NEW e \in events, Bystander(e) \/ sendOrder(e) \/ sendState(e)
      PROVE  LastsUntilStop'
  BY <1>3, <1>4, OtherStep
<1>5. ASSUME NEW e \in events, startTeleoperation(e)
      PROVE  LastsUntilStop'
  BY <1>5 DEF startTeleoperation, LastsUntilStop
<1>6. ASSUME NEW e \in events, stopTeleoperation(e)
      PROVE  LastsUntilStop'
  <2>1. /\ e \in EventsOf("stopTeleoperation")
        /\ EventsOf("stopTeleoperation")' = EventsOf("stopTeleoperation") \ {e}
    BY <1>1, <1>6, StopEffect
  <2>2. \A f \in EventsOf("stopTeleoperation") : f \in events /\ f.uid = e.uid
    BY <1>1, <2>1 DEF EventsOf, TogglesOK
  <2>3. EventsOf("stopTeleoperation")' = {}
    BY <1>1, <2>1, <2>2 DEF TypeOK, QueueOK
  <2> QED
    BY <2>3 DEF LastsUntilStop
<1>7. ASSUME NEW e \in events, sendTeleoperationState(e) \/ sendControl(e)
      PROVE  LastsUntilStop'
  <2>1. teleoperating_' = teleoperating_
    BY <1>7 DEF sendTeleoperationState, sendControl
  <2> QED
    BY <1>1, <1>3, <1>7, <2>1, AnnounceEffect, ControlEffect DEF StreamKind
<1>8. ASSUME NEW e \in events, Stop(e)
      PROVE  LastsUntilStop'
  <2>1. teleoperating_' = teleoperating_
    BY <1>8 DEF Stop
  <2> QED
    BY <1>3, <1>8, <2>1, ExitEffect DEF StreamKind
<1>9. CASE UNCHANGED events /\ UNCHANGED <<planned, released, teleoperating_, running>>
  BY <1>3, <1>9 DEF EventsOf
<1> QED
  BY <1>4, <1>5, <1>6, <1>7, <1>8, <1>9, Steps

(* What the announcement's handler sends.                                  *)
LEMMA Announces ==
  ASSUME NEW e \in events, sendTeleoperationState(e)
  PROVE  \E c, d : /\ out' = <<c, d>>
                   /\ IF teleoperating_
                      THEN Said(c) = "teleoperating" /\ Said(d) = "START_VIDEO"
                      ELSE Said(c) = "not teleoperating" /\ Said(d) = "STOP_VIDEO"
<1>1. CASE teleoperating_
  <2>1. out' = <<executeCommandUe("PUBLISH_TELEOP", "teleop_state",
                                  Plain("teleoperating")),
                 executeCommandUe("START_VIDEO", "", Plain(""))>>
    BY <1>1 DEF sendTeleoperationState, VideoCommand
  <2> QED
    BY <1>1, <2>1, SaidBy DEF Announcement
<1>2. CASE ~teleoperating_
  <2>1. out' = <<executeCommandUe("PUBLISH_TELEOP", "teleop_state",
                                  Plain("not teleoperating")),
                 executeCommandUe("STOP_VIDEO", "", Plain(""))>>
    BY <1>2 DEF sendTeleoperationState, VideoCommand
  <2> QED
    BY <1>2, <2>1, SaidBy DEF Announcement
<1> QED
  BY <1>1, <1>2

LEMMA OutStep == SessionInv /\ [Next]_vars => OutOK'
<1> SUFFICES ASSUME SessionInv, [Next]_vars
             PROVE  OutOK'
  OBVIOUS
<1>1. ASSUME NEW c, out' = <<c>>, Said(c) \notin Announcement
      PROVE  OutOK'
  BY <1>1 DEF OutOK
<1>2. ASSUME NEW e \in events, Bystander(e) \/ sendOrder(e) \/ sendState(e)
      PROVE  OutOK'
  BY <1>1, <1>2, OtherStep DEF Announcement
<1>3. ASSUME NEW e \in events,
             startTeleoperation(e) \/ stopTeleoperation(e) \/ sendControl(e)
      PROVE  OutOK'
  BY <1>1, <1>3, SaidBy
  DEF startTeleoperation, stopTeleoperation, sendControl, Announcement
<1>4. ASSUME NEW e \in events, sendTeleoperationState(e)
      PROVE  OutOK'
  <2>1. PICK c, d : /\ out' = <<c, d>>
                    /\ \/ Said(c) = "teleoperating" /\ Said(d) = "START_VIDEO"
                       \/ Said(c) = "not teleoperating" /\ Said(d) = "STOP_VIDEO"
    BY <1>4, Announces
  <2> QED
    BY <2>1 DEF OutOK
<1>5. ASSUME NEW e \in events, Stop(e)
      PROVE  OutOK'
  <2>1. PICK c, d : out' = <<c, d>> /\ Said(c) = "" /\ Said(d) = ""
    BY <1>5, SaidBy DEF Stop
  <2> QED
    BY <2>1 DEF OutOK
<1>6. CASE Send
  <2>1. out # <<>> /\ out' = Tail(out)
    BY <1>6 DEF Send
  <2>2. CASE \E c : out = <<c>>
    BY <2>1, <2>2 DEF OutOK
  <2>3. ASSUME NEW c, NEW d, out = <<c, d>>, Said(d) \notin Announcement
        PROVE  OutOK'
    BY <1>1, <2>1, <2>3
  <2> QED
    BY <2>1, <2>2, <2>3 DEF SessionInv, OutOK, Announcement
<1>7. CASE UNCHANGED out
  BY <1>7 DEF SessionInv, OutOK
<1> QED
  BY <1>2, <1>3, <1>4, <1>5, <1>6, <1>7
  DEF Next, Handler, Bystander, Terminated, vars

THEOREM SessionInvariant ==
  ASSUME StopsAfterStart
  PROVE  Spec => []SessionInv
<1>1. Init => LastsUntilStop /\ OutOK
  BY NotYet DEF Init, LastsUntilStop, OutOK
<1>2. SessionInv /\ [Next]_vars => LastsUntilStop' /\ OutOK'
  BY LastsStep, OutStep
<1>3. Spec => [](StreamInv /\ PhaseInv)
  BY StreamInvariant, PhaseInvariant, PTL
<1>4. StreamInv /\ PhaseInv /\ LastsUntilStop /\ OutOK <=> SessionInv
  BY DEF SessionInv
<1> QED
  BY <1>1, <1>2, <1>3, <1>4, PTL DEF Spec

-------------------------------------------------------------------------------
(* The steps of the session.                                               *)

(* The phase, case by case.                                                *)
LEMMA PhaseIs ==
  /\ ~TakenOver => Phase = "before"
  /\ TakenOver /\ teleoperating_ /\ EventsOf("sendTeleoperationState") # {}
       => Phase = "requested"
  /\ TakenOver /\ teleoperating_ /\ EventsOf("sendTeleoperationState") = {}
       => Phase = "controlled"
  /\ TakenOver /\ ~teleoperating_ /\ EventsOf("sendTeleoperationState") # {}
       => Phase = "stopping"
  /\ TakenOver /\ ~teleoperating_ /\ EventsOf("sendTeleoperationState") = {}
       => Phase = "after"
  BY DEF Phase

LEMMA SamePhaseName ==
  ASSUME UNCHANGED <<cfg_, teleoperating_>>,
         EventsOf("startTeleoperation")' = EventsOf("startTeleoperation"),
         EventsOf("sendTeleoperationState")' = EventsOf("sendTeleoperationState")
  PROVE  Phase' = Phase
  BY DEF Phase, TakenOver

LEMMA StartRefines ==
  ASSUME SessionInv, NEW e \in events, startTeleoperation(e)
  PROVE  Saying = "" /\ TS!Request
<1>1. TypeOK /\ NamesOK /\ TogglesOK
  BY DEF SessionInv, StreamInv, Lockstep
<1>2. ~TakenOver /\ TakenOver'
  BY <1>1, TakeOver
<1>3. teleoperating_' /\ out = <<>>
  BY DEF startTeleoperation, Runs
<1>4. EventsOf("sendTeleoperationState")' # {}
  BY <1>1, StartEffect
<1>5. Phase = "before"
  BY <1>2 DEF Phase
<1>6. Phase' = "requested"
  BY <1>2, <1>3, <1>4 DEF Phase
<1>7. Saying' = "startTeleoperation"
  BY SaidBy, SayingOne DEF startTeleoperation
<1> QED
  BY <1>3, <1>5, <1>6, <1>7, Silent DEF TS!Request

LEMMA StopRefines ==
  ASSUME StopsAfterStart, SessionInv, NEW e \in events, stopTeleoperation(e)
  PROVE  Saying = "" /\ TS!Withdraw
<1>1. TypeOK /\ NamesOK /\ TogglesOK
  BY DEF SessionInv, StreamInv, Lockstep
<1>2. TakenOver /\ TakenOver'
  <2>1. cfg_' = cfg_
    BY DEF stopTeleoperation, Runs
  <2> QED
    BY <1>1, <2>1, StartBeforeStop, StopEffect, SamePhase
<1>3. out = <<>> /\ ~teleoperating_'
  BY DEF stopTeleoperation, Runs
<1>4. teleoperating_
  BY <1>1, <1>2, StopEffect DEF SessionInv, LastsUntilStop
<1>5. EventsOf("sendTeleoperationState")' # {}
  BY <1>1, StopEffect
<1>6. Phase \in {"requested", "controlled"}
  BY <1>2, <1>4 DEF Phase
<1>7. Phase' = "stopping"
  BY <1>2, <1>3, <1>5 DEF Phase
<1>8. Saying' = "stopTeleoperation"
  BY SaidBy, SayingOne DEF stopTeleoperation
<1> QED
  BY <1>3, <1>6, <1>7, <1>8, Silent DEF TS!Withdraw

LEMMA AnnounceRefines ==
  ASSUME SessionInv, NEW e \in events, sendTeleoperationState(e)
  PROVE  Saying = "" /\ (TS!Announce \/ TS!Conclude)
<1>1. TypeOK /\ NamesOK
  BY DEF SessionInv, StreamInv, Lockstep
<1>2. /\ e \in EventsOf("sendTeleoperationState")
      /\ EventsOf("startTeleoperation")' = EventsOf("startTeleoperation")
  BY <1>1, AnnounceEffect DEF StreamKind
<1>3. TakenOver
  BY <1>2 DEF SessionInv, PhaseInv, ControlInv, QuietBefore
<1>4. out = <<>> /\ UNCHANGED <<cfg_, teleoperating_>>
  BY DEF sendTeleoperationState, Runs
<1>5. TakenOver'
  BY <1>2, <1>3, <1>4, SamePhase
<1>6. PICK c, d :
        /\ out' = <<c, d>>
        /\ Said(c) = IF teleoperating_ THEN "teleoperating" ELSE "not teleoperating"
  BY Announces
<1>7. Saying' = IF teleoperating_ THEN "teleoperating" ELSE "not teleoperating"
  BY <1>6, SayingTwo
<1>8. CASE teleoperating_
  <2>1. EventsOf("sendTeleoperationState")' = {}
    BY <1>1, <1>2, <1>8, AnnounceEffect
    DEF SessionInv, PhaseInv, ControlInv, ControlOnlyWhileTeleoperating
  <2>2. Phase = "requested"
    BY <1>2, <1>3, <1>8 DEF Phase
  <2>3. Phase' = "controlled"
    BY <1>4, <1>5, <1>8, <2>1 DEF Phase
  <2> QED
    BY <1>4, <1>7, <1>8, <2>2, <2>3, Silent DEF TS!Announce
<1>9. CASE ~teleoperating_
  <2>1. Phase = "stopping"
    BY <1>2, <1>3, <1>9 DEF Phase
  <2>2. Phase' \in {"stopping", "after"}
    BY <1>4, <1>5, <1>9 DEF Phase
  <2> QED
    BY <1>4, <1>7, <1>9, <2>1, <2>2, Silent DEF TS!Conclude
<1> QED
  BY <1>8, <1>9

LEMMA ControlRefines ==
  ASSUME SessionInv, NEW e \in events, sendControl(e)
  PROVE  Saying = "" /\ TS!Command
<1>1. TypeOK /\ NamesOK
  BY DEF SessionInv, StreamInv, Lockstep
<1>2. e \in EventsOf("sendControl")
  BY <1>1, ControlEffect
<1>3. /\ TakenOver /\ teleoperating_
      /\ EventsOf("sendTeleoperationState") = {}
  BY <1>2
  DEF SessionInv, PhaseInv, ControlInv, QuietBefore, ControlOnlyWhileTeleoperating
<1>4. Phase = "controlled"
  BY <1>3 DEF Phase
<1>5. out = <<>> /\ UNCHANGED <<cfg_, teleoperating_>>
  BY DEF sendControl, Runs
<1>6. Phase' = Phase
  BY <1>1, <1>5, ControlEffect, SamePhaseName DEF StreamKind
<1>7. Saying' = "control"
  BY SaidBy, SayingOne DEF sendControl
<1> QED
  BY <1>4, <1>5, <1>6, <1>7, Silent DEF TS!Command

(* Sending goes from an announcement to its video command and from         *)
(* everything else to silence.                                             *)
LEMMA SendRefines ==
  ASSUME SessionInv, Send
  PROVE  TS!Video \/ TS!Quiet \/ UNCHANGED TS!vars
<1>1. Phase' = Phase
  BY SamePhaseName DEF Send, queue, EventsOf
<1>2. out # <<>> /\ out' = Tail(out)
  BY DEF Send
<1>3. CASE \E c : out = <<c>> /\ Said(c) \notin Announcement
  <2>1. Saying \notin Announcement
    BY <1>3 DEF Saying
  <2>2. Saying' = ""
    BY <1>2, <1>3 DEF Saying
  <2> QED
    BY <1>1, <2>1, <2>2 DEF TS!Quiet, Announcement
<1>4. ASSUME NEW c, NEW d, out = <<c, d>>,
             \/ Said(c) = "teleoperating" /\ Said(d) = "START_VIDEO"
             \/ Said(c) = "not teleoperating" /\ Said(d) = "STOP_VIDEO"
             \/ Said(c) = "" /\ Said(d) = ""
      PROVE  TS!Video \/ TS!Quiet
  <2>1. Saying = Said(c)
    <3>1. out # <<>> /\ Head(out) = c
      BY <1>4, Pairs
    <3> QED
      BY <3>1 DEF Saying
  <2>2. Saying' = Said(d)
    BY <1>2, <1>4, Pairs, SayingOne
  <2> QED
    BY <1>1, <1>4, <2>1, <2>2 DEF TS!Video, TS!Quiet
<1> QED
  BY <1>2, <1>3, <1>4 DEF SessionInv, OutOK

LEMMA SessionStep ==
  ASSUME StopsAfterStart
  PROVE  SessionInv /\ [Next]_vars => [TS!Next]_TS!vars
<1> SUFFICES ASSUME SessionInv, [Next]_vars
             PROVE  TS!Next \/ UNCHANGED TS!vars
  OBVIOUS
<1>1. ASSUME NEW e \in events, Bystander(e) \/ sendOrder(e) \/ sendState(e)
      PROVE  UNCHANGED TS!vars
  <2>1. Phase' = Phase
    BY <1>1, OtherStep, SamePhaseName
  <2>2. Saying = "" /\ Saying' = ""
    BY <1>1, OtherStep, Silent, SayingOne
  <2> QED
    BY <2>1, <2>2 DEF TS!vars
<1>2. ASSUME NEW e \in events, Stop(e)
      PROVE  UNCHANGED TS!vars
  <2>1. Phase' = Phase
    <3>1. UNCHANGED <<cfg_, teleoperating_>>
      BY <1>2 DEF Stop
    <3> QED
      BY <1>2, <3>1, ExitEffect, SamePhaseName DEF StreamKind
  <2>2. Saying = ""
    BY <1>2, Silent DEF Stop
  <2>3. Saying' = ""
    BY <1>2, SaidBy, SayingTwo DEF Stop
  <2> QED
    BY <2>1, <2>2, <2>3 DEF TS!vars
<1>3. ASSUME NEW e \in events,
             \/ startTeleoperation(e) \/ stopTeleoperation(e)
             \/ sendTeleoperationState(e) \/ sendControl(e)
      PROVE  TS!Next
  BY <1>3, StartRefines, StopRefines, AnnounceRefines, ControlRefines DEF TS!Next
<1>4. CASE Send
  BY <1>4, SendRefines DEF TS!Next
<1>5. CASE UNCHANGED vars
  BY <1>5 DEF vars, queue, TS!vars, Phase, Saying, TakenOver, EventsOf
<1> QED
  BY <1>1, <1>2, <1>3, <1>4, <1>5
  DEF Next, Handler, Bystander, Terminated

(* Teleoperation follows its protocol for every configuration that stops   *)
(* it after it starts: requested, announced, commanded, withdrawn, and no  *)
(* announcement or video command that contradicts the last toggle.         *)
THEOREM SessionRefinement ==
  ASSUME StopsAfterStart
  PROVE  Spec => ImplementsTeleopSession
<1>1. Init => TS!Init
  <2>1. Init => Phase = "before"
    BY NotYet DEF Phase
  <2>2. Init => Saying = ""
    BY DEF Init, Saying
  <2> QED
    BY <2>1, <2>2 DEF TS!Init
<1>2. SessionInv /\ [Next]_vars => [TS!Next]_TS!vars
  BY SessionStep
<1> QED
  BY <1>1, <1>2, SessionInvariant, PTL DEF Spec, ImplementsTeleopSession, TS!Spec
===============================================================================
