---------------------------- MODULE Configuration ----------------------------
(***************************************************************************)
(* What a run is configured with: the structures of config.hpp, as far as  *)
(* a handler decides something by them.  The seed, the manufacturer and    *)
(* the serial number do not.                                               *)
(***************************************************************************)
EXTENDS Naturals

Scenario == {"VDA5050", "TELEOP"}

TeleopConfig ==
  [start_s : Nat, stop_s : Nat,
   control_command_period_ms : Nat,
   request_teleoperation_capabilities_after_ms : Nat,
   send_teleoperation_capability_after_request_ms : Nat,
   teleoperation_state_after_toggle_teleop_ms : Nat,
   state_after_toggle_teleop_ms : Nat,
   restart_order_simulation_after_teleoperation_stop_ms : Nat,
   control_stream_start_after_teleop_state_ms : Nat]

Vda5050Config ==
  [visualization_period_ms : Nat, start_visualization_after_ms : Nat,
   send_connection_after_ms : Nat,
   send_factsheet_request_after_ms : Nat, factsheet_response_time_ms : Nat,
   send_state_after_ms : Nat, idle_state_interval_ms : Nat,
   send_order_after_ms : Nat, send_order_continuation_ms : Nat,
   send_state_after_order_ms : Nat, order_finish_step_ms : Nat,
   next_order_after_finish_ms : Nat,
   order_len_min : Nat, order_len_max : Nat,
   teleop_cfg : TeleopConfig]

Config == [length_s : Nat, scenario : Scenario, vda5050_cfg : Vda5050Config]
===============================================================================
