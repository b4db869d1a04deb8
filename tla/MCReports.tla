------------------------------- MODULE MCReports -------------------------------
(* Continuations slower than, as fast as and faster than the report that   *)
(* follows an order; the first order falls right before a report, and      *)
(* orders are long enough to keep it off.  Teleoperation that stops before *)
(* it starts is among them.                                                *)
EXTENDS StateReports, MCController

Following(c, delay) ==
  [c EXCEPT !.vda5050_cfg.send_state_after_order_ms = delay,
            !.vda5050_cfg.send_order_after_ms = 5]

(* Orders restart at once, into the order of a stray continuation.         *)
RestartAtOnce(c) ==
  [c EXCEPT
     !.vda5050_cfg.teleop_cfg.restart_order_simulation_after_teleoperation_stop_ms = 1]

ReportConfigs ==
  StopFirstConfigs
  \cup {Following(Cfg("VDA5050", 24, continue, 1, 4, Teleop(0, 0, 0)), delay) :
           continue \in {1, 2}, delay \in {1, 2, 3}}
  \cup {RestartAtOnce(Following(
          Cfg("TELEOP", 26, continue, 1, 3, Teleop(start, stop, 1)), delay)) :
           continue \in {1, 2}, delay \in {2, 3}, start \in {6, 7}, stop \in {8, 9}}
===============================================================================
