------------------------------- MODULE MCSystem -------------------------------
(* Small instances of the whole system for TLC.                            *)
EXTENDS System, MCController

(* Short runs: the first orders in the VDA5050 scenario, and one           *)
(* teleoperation, announced in time, too late, or stopped at once.         *)
VdaRuns == {Cfg("VDA5050", 8, 2, 1, 2, Teleop(0, 0, 0))}

TeleopRuns ==
  {Cfg("TELEOP", length, 2, 1, 1, Teleop(2, stop, announce)) :
     length \in {6, 10}, stop \in {2, 3, 6}, announce \in {1, 2}}

AllRuns == VdaRuns \cup TeleopRuns

MqttSetup(lossy) ==
  [stack |-> "mqtt", predeclare_publisher |-> FALSE, lossy |-> lossy]
ZenohSetup(predeclare) ==
  [stack |-> "zenoh", predeclare_publisher |-> predeclare, lossy |-> FALSE]

WorkingSetups == {MqttSetup(FALSE), ZenohSetup(FALSE)}
ZenohSetups   == {ZenohSetup(TRUE)}
FailingSetups == {MqttSetup(TRUE), ZenohSetup(TRUE)}
===============================================================================
