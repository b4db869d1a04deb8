---------------------------- MODULE MCCameraStream ----------------------------
(* Every order of up to four video commands before the end, those the      *)
(* Controller never sends included.                                        *)
EXTENDS CameraStream

VideoCommand == {"START_VIDEO", "STOP_VIDEO"}

Sent(type) == CommandFor("ue", type, "", Plain(""))

UpToFour ==
  {Append([i \in DOMAIN types |-> Sent(types[i])], Sent("EXIT")) :
     types \in UNION {[1 .. n -> VideoCommand] : n \in 0 .. 4}}
===============================================================================
