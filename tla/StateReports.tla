------------------------------ MODULE StateReports ------------------------------
(***************************************************************************)
(* How long the robot may be silent.  Every sendOrder and every toggle of  *)
(* teleoperation postpones the pending state report, and continuations     *)
(* faster than send_state_after_order_ms postpone it one after another.    *)
(* The Controller with one history variable, which no step reads.          *)
(***************************************************************************)
EXTENDS Controller

VARIABLE reported           \* when the last state was published, 0 if never

Reports == out = <<>> /\ out' # <<>> /\ Head(out').topic = "state"

ReportsInit == Init /\ reported = 0

ReportsNext == Next /\ reported' = IF Reports THEN now' ELSE reported

ReportsSpec == ReportsInit /\ [][ReportsNext]_<<vars, reported>>

-------------------------------------------------------------------------------
Longer(a, b) == IF a > b THEN a ELSE b

(* From a report to the next one if nothing postpones it.                  *)
Interval ==
  Longer(V.send_state_after_ms,
         Longer(V.idle_state_interval_ms, V.order_finish_step_ms))

(* By one order stream: an order and its continuations, each of which      *)
(* falls before the report the one before it has scheduled.                *)
Postponed ==
  V.send_state_after_order_ms
    + IF V.send_order_continuation_ms <= V.send_state_after_order_ms
      THEN (V.order_len_max - 1) * V.send_order_continuation_ms
      ELSE 0

(* By teleoperation: the order it finds, the one a stray continuation      *)
(* begins, and that of the restarted stream, their parts in any order.     *)
PostponedByTeleoperation ==
  2 * T.state_after_toggle_teleop_ms
    + 3 * V.order_len_max * V.send_state_after_order_ms

Silence ==
  Interval + IF cfg_.scenario = "TELEOP"
             THEN Longer(Postponed, PostponedByTeleoperation) ELSE Postponed

(* The robot is never silent for ever: however fast orders are extended,   *)
(* the next report is due within a time the configuration bounds, because  *)
(* a chain of continuations ends with the order's planned route and no new *)
(* order is begun before a report has finished the last one (or, with a    *)
(* stray order stream, one order more for every stream).                   *)
StateSilenceBounded ==
  running =>
    \E e \in EventsOf("sendState") : e.at <= reported + Silence
===============================================================================
