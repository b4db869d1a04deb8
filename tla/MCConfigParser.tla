---------------------------- MODULE MCConfigParser ----------------------------
(* The shipped config.yaml with different small values, and the files that *)
(* differ from it in one place.                                            *)
EXTENDS ConfigParser

Number(n) == [kind |-> "int", int |-> n, text |-> ""]
Text(w)   == [kind |-> "text", int |-> 0, text |-> w]
List      == [kind |-> "list", int |-> 0, text |-> ""]

Map(section, keys) ==
  [kind |-> "map",
   keys |-> [key \in {keys[i] : i \in DOMAIN keys} |->
               IF key = "scenario" THEN Text("teleop")
               ELSE IF IsText(key) THEN Text("SN")
               ELSE Number(CHOOSE i \in DOMAIN keys : keys[i] = key)]]

Shipped ==
  [section \in Section |->
     CASE section = "config"  -> Map(section, ConfigKeys)
       [] section = "vda5050" -> Map(section, Vda5050Keys)
       [] section = "teleop"  -> Map(section, TeleopKeys)]

With(p, value) == [Shipped EXCEPT ![p.section].keys[p.key] = value]

Without(p) ==
  [Shipped EXCEPT ![p.section].keys =
     [key \in DOMAIN @ \ {p.key} |-> @[key]]]

Places == {Parameters[i] : i \in DOMAIN Parameters}

OneParameter ==
  {With(p, value) :
     p \in Places, value \in {Number(-1), Number(0), Number(19), List,
                               Text("vda5050")}}
  \cup {Without(p) : p \in Places}

OneSection ==
  {[Shipped EXCEPT ![section] = [kind |-> kind, keys |-> [key \in {} |-> 0]]] :
     section \in Section, kind \in Node \ {"map"}}

AllDocuments == {Shipped} \cup OneParameter \cup OneSection
===============================================================================
