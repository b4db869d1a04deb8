------------------------------ MODULE ConfigParser ------------------------------
(***************************************************************************)
(* How the Controller comes by its configuration: parseConfig() of         *)
(* config.cpp, which reads the parameters one by one from the YAML file,   *)
(* and main(), which catches std::invalid_argument and nothing else.  Any  *)
(* other exception terminates the process without a message of its own.    *)
(***************************************************************************)
EXTENDS Configuration, Integers, Sequences

CONSTANTS
  Documents,              \* the files a run may be started with
  Word                    \* 2^32, or less: the range of uint32_t

(* A YAML node: a map, whose keys have an integer that an int holds, any   *)
(* other text, or a list; or something else.  A file that cannot be loaded *)
(* is "missing".                                                           *)
Node == {"map", "null", "scalar", "missing"}

Section == {"config", "vda5050", "teleop"}

Readable(d) ==
  \A s \in Section :
    /\ d[s].kind \in Node
    /\ \A key \in DOMAIN d[s].keys :
         /\ d[s].kind = "map"
         /\ d[s].keys[key].kind \in {"int", "text", "list"}
         /\ d[s].keys[key].int \in -(Word \div 2) .. Word \div 2 - 1

ASSUME ParserAssumption ==
  /\ Word \in Nat \ {0}
  /\ \A d \in Documents : Readable(d)

VARIABLES
  document,               \* the file: document[section]; never changes
  read,                   \* the number of parameters read
  cfg_,                   \* cfg_[section][key]: the members set so far
  outcome                 \* of main() before it starts to simulate

vars == <<document, read, cfg_, outcome>>

(* In the order of the calls of getValue().                                *)
ConfigKeys == <<"length_s", "seed", "scenario">>

Vda5050Keys ==
  <<"manufacturer", "serial_number", "visualization_period_ms",
    "send_connection_after_ms", "send_state_after_ms",
    "send_factsheet_request_after_ms", "send_order_after_ms",
    "start_visualization_after_ms", "factsheet_response_time_ms",
    "send_order_continuation_ms", "send_state_after_order_ms",
    "idle_state_interval_ms", "order_finish_step_ms",
    "next_order_after_finish_ms", "order_len_min", "order_len_max">>

TeleopKeys ==
  <<"start_s", "stop_s", "control_command_period_ms",
    "request_teleoperation_capabilities_after_ms",
    "send_teleoperation_capability_after_request_ms",
    "teleoperation_state_after_toggle_teleop_ms",
    "state_after_toggle_teleop_ms",
    "restart_order_simulation_after_teleoperation_stop_ms",
    "control_stream_start_after_teleop_state_ms">>

In(section, keys) ==
  [i \in DOMAIN keys |-> [section |-> section, key |-> keys[i]]]

(* Mutated: the last parameter is forgotten; c{} leaves its member 0.      *)
Parameters_Forgets ==
  In("config", ConfigKeys) \o In("vda5050", Vda5050Keys)
    \o In("teleop", SubSeq(TeleopKeys, 1, Len(TeleopKeys) - 1))

(* The teleoperation is read in the VDA5050 scenario, too.                 *)
Parameters ==
  In("config", ConfigKeys) \o In("vda5050", Vda5050Keys)
    \o In("teleop", TeleopKeys)

Parameter == Parameters[read + 1]

IsText(key)   == key \in {"scenario", "manufacturer", "serial_number"}
IsSigned(key) == key \in {"length_s", "seed", "start_s", "stop_s"}

Init ==
  /\ document \in Documents
  /\ read = 0
  /\ cfg_ = [s \in Section |-> [key \in {} |-> 0]]
  /\ outcome = "reading"

-------------------------------------------------------------------------------
(* node[name] of getValue().  A null has no keys, and a scalar throws.  A  *)
(* missing "vda5050" becomes a null by config["vda5050"], as config is not *)
(* const; a missing "teleop" becomes a node that throws.                   *)
Lookup(p) ==
  LET kind == document[p.section].kind
  IN  IF kind = "scalar" \/ (kind = "missing" /\ p.section # "vda5050")
      THEN "throws"
      ELSE IF p.key \in DOMAIN document[p.section].keys
           THEN "found" ELSE "undefined"

Value(p) == document[p.section].keys[p.key]

(* Mutated: only one of the scenarios is known.                            *)
stringToScenario_One(text) == IF text = "vda5050" THEN "VDA5050" ELSE ""

stringToScenario(text) ==
  CASE text = "vda5050" -> "VDA5050"
    [] text = "teleop"  -> "TELEOP"
    [] OTHER            -> ""

(* as<int>() and as<std::string>() convert, and the scenario is one.       *)
Converts(p) ==
  IF p.key = "scenario"
  THEN Value(p).kind = "text" /\ stringToScenario(Value(p).text) # ""
  ELSE Value(p).kind = "int" \/ (IsText(p.key) /\ Value(p).kind = "text")

(* The int that was read is assigned to a member that may be unsigned.     *)
Converted(p) ==
  IF p.key = "scenario" THEN stringToScenario(Value(p).text)
  ELSE IF IsText(p.key) THEN Value(p).text
  ELSE IF IsSigned(p.key) THEN Value(p).int
  ELSE Value(p).int % Word

getValue(p) ==
  /\ Lookup(p) = "found" /\ Converts(p)
  /\ cfg_' = [cfg_ EXCEPT ![p.section] =
                [key \in DOMAIN @ \cup {p.key} |->
                   IF key = p.key THEN Converted(p) ELSE @[key]]]
  /\ read' = read + 1
  /\ UNCHANGED <<document, outcome>>

(* std::invalid_argument, which main() catches; or YAML::BadFile,          *)
(* InvalidNode or BadSubscript, which nobody catches.                      *)
Throw(p) ==
  /\ Lookup(p) = "found" => ~Converts(p)
  /\ outcome' = IF Lookup(p) = "throws" THEN "terminated" ELSE "rejected"
  /\ UNCHANGED <<document, read, cfg_>>

Read(p) ==
  /\ outcome = "reading"
  /\ getValue(p) \/ Throw(p)

Accept ==
  /\ outcome = "reading"
  /\ read = Len(Parameters)
  /\ outcome' = "accepted"
  /\ UNCHANGED <<document, read, cfg_>>

Decided == outcome # "reading" /\ UNCHANGED vars

Next ==
  \/ read < Len(Parameters) /\ Read(Parameter)
  \/ Accept
  \/ Decided

Spec == Init /\ [][Next]_vars

-------------------------------------------------------------------------------
(* Properties. *)

(* The Config as Controller has it.  A member that nobody has set is there,*)
(* too, as 0: the structures are made with {}.                             *)
Parsed ==
  [length_s |-> cfg_["config"]["length_s"],
   scenario |-> cfg_["config"]["scenario"],
   vda5050_cfg |->
     [member \in (DOMAIN cfg_["vda5050"] \ {"manufacturer", "serial_number"})
                   \cup {"teleop_cfg"} |->
        IF member = "teleop_cfg" THEN cfg_["teleop"]
        ELSE cfg_["vda5050"][member]]]

(* A file that says what the program needs: nothing missing, no negative   *)
(* number, orders not empty and their lengths ordered.                     *)
Sound(d) ==
  /\ \A s \in Section : d[s].kind = "map"
  /\ \A i \in DOMAIN Parameters :
       LET p == Parameters[i]
       IN  /\ p.key \in DOMAIN d[p.section].keys
           /\ d[p.section].keys[p.key].kind =
                IF IsText(p.key) THEN "text" ELSE "int"
           /\ d[p.section].keys[p.key].int >= 0
  /\ d["config"].keys["scenario"].text \in {"vda5050", "teleop"}
  /\ 1 <= d["vda5050"].keys["order_len_min"].int
  /\ d["vda5050"].keys["order_len_min"].int
       <= d["vda5050"].keys["order_len_max"].int

(* Every sound file starts the simulation, with a configuration of which   *)
(* Controller's assumption is true; that assumption is therefore about the *)
(* files, and parseConfig adds no condition of its own.                    *)
SoundFilesStart ==
  Sound(document) =>
    /\ outcome \notin {"rejected", "terminated"}
    /\ outcome = "accepted" =>
         /\ Parsed \in Config
         /\ 1 <= Parsed.vda5050_cfg.order_len_min
         /\ Parsed.vda5050_cfg.order_len_min <= Parsed.vda5050_cfg.order_len_max

(* What a file has to say, by the members of the structures.               *)
Members(s) ==
  LET keys == IF s = "config" THEN ConfigKeys
              ELSE IF s = "vda5050" THEN Vda5050Keys ELSE TeleopKeys
  IN  {keys[i] : i \in DOMAIN keys}

(* No member of an accepted configuration is forgotten, read from another  *)
(* section, or left at the 0 of c{}: the configuration is what the file    *)
(* says, but for a negative delay or length, which is a large one.         *)
AcceptedAsWritten ==
  outcome = "accepted" =>
    \A s \in Section : \A key \in Members(s) :
      LET value == document[s].keys[key]
      IN  /\ key \in DOMAIN document[s].keys /\ key \in DOMAIN cfg_[s]
          /\ key = "scenario" =>
               value.text = IF cfg_[s][key] = "TELEOP" THEN "teleop" ELSE "vda5050"
          /\ ~IsText(key) =>
               cfg_[s][key] = IF IsSigned(key) \/ value.int >= 0
                              THEN value.int ELSE value.int + Word

(* config.cpp throws "Missing parameter " and the name, which main()       *)
(* catches and prints: a file from which a parameter is missing never ends *)
(* the program with an exception nobody catches.                           *)
IsMissing(p) ==
  /\ document[p.section].kind # "scalar"
  /\ p.key \notin DOMAIN document[p.section].keys

MissingParameterReported ==
  outcome = "terminated" /\ document["config"].kind # "missing" =>
    ~IsMissing(Parameter)
===============================================================================
