----------------------------- MODULE MCController -----------------------------
(* Small configurations of the Controller for TLC.                         *)
EXTENDS Controller

(* The delays of the shipped config.yaml keep their order (state follows   *)
(* an order at once, a step is shorter than the pause between orders) but  *)
(* are counted in a few ticks.                                             *)
Teleop(start, stop, announce) ==
  [start_s |-> start, stop_s |-> stop,
   control_command_period_ms |-> 3,
   request_teleoperation_capabilities_after_ms |-> 3,
   send_teleoperation_capability_after_request_ms |-> 1,
   teleoperation_state_after_toggle_teleop_ms |-> announce,
   state_after_toggle_teleop_ms |-> 2,
   restart_order_simulation_after_teleoperation_stop_ms |-> 3,
   control_stream_start_after_teleop_state_ms |-> 1]

Cfg(scenario, length, continue, step, maxLen, teleop) ==
  [length_s |-> length, scenario |-> scenario,
   vda5050_cfg |->
     [visualization_period_ms |-> 7, send_connection_after_ms |-> 1,
      send_state_after_ms |-> 2, send_factsheet_request_after_ms |-> 2,
      send_order_after_ms |-> 3, start_visualization_after_ms |-> 1,
      factsheet_response_time_ms |-> 1,
      send_order_continuation_ms |-> continue, send_state_after_order_ms |-> 1,
      idle_state_interval_ms |-> 3, order_finish_step_ms |-> step,
      next_order_after_finish_ms |-> 2,
      order_len_min |-> 1, order_len_max |-> maxLen, teleop_cfg |-> teleop]]

VdaConfigs ==
  {Cfg("VDA5050", 24, continue, step, 3, Teleop(0, 0, 0)) :
     continue \in {0, 2, 5}, step \in {1, 2}}

(* Long and short teleoperation, and one that stops before it is announced. *)
TeleopConfigs ==
  {Cfg("TELEOP", 34, continue, 1, 2, Teleop(9, stop, 1)) :
     continue \in {2, 4}, stop \in {9, 10, 19}}
  \cup {Cfg("TELEOP", 26, 2, 2, 3, Teleop(6, 8, 3))}

(* Stopped before it starts: the stop's announcement falls before or after *)
(* the start, the start in the middle of an order or on its last leg.      *)
StopFirstConfigs ==
  {Cfg("TELEOP", 30, continue, 1, 2, Teleop(start, 6, announce)) :
     continue \in {2, 4}, start \in {7, 8, 11}, announce \in {1, 3}}
===============================================================================
