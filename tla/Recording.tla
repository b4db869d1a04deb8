------------------------------- MODULE Recording -------------------------------
(***************************************************************************)
(* What a run is made for: the entries UE and Base record of the messages  *)
(* they send and receive, and the CSV files they write of them.  The       *)
(* clients (MQTT connections or Zenoh sessions) receive on threads of      *)
(* their own, concurrently with mainLoop() and with the end of main().     *)
(*                                                                         *)
(* The commands come from the Controller in any order here; System has the *)
(* order they really come in.  Broker and routers are external: they keep  *)
(* the order from one client to another, and may lose any message.         *)
(***************************************************************************)
EXTENDS Programs

CONSTANTS
  Builds,                 \* the builds a run may use
  Topics,                 \* the topics in use
  MaxSends                \* messages a process publishes at most

(* UE and Base run on machines of their own, each with the programs built  *)
(* there: the CMake option may be set on one and not on the other.  lossy: *)
(* an MQTT connection may break (Zenoh's sessions reconnect by themselves).*)
Build == [stack : {"mqtt", "zenoh"},
          EXCLUDE_TIMESTAMP_IN_TELEOP_STATE : [Worker -> BOOLEAN],
          lossy : BOOLEAN]

RecordingAssumption ==
  /\ Builds \subseteq Build
  /\ Topics \subseteq Topic
  /\ MaxSends \in Nat

ASSUME RecordingAssumption

(* In the order in which main() stops them; their entries follow one       *)
(* another in the files in the same order.  They are the same for Zenoh.   *)
ClientsOf(w) == Program(w, "mqtt").clients

ClientSet(w) == {ClientsOf(w)[i] : i \in DOMAIN ClientsOf(w)}

Owner(c) == IF c = "base" THEN "base" ELSE "ue"

VARIABLES
  build_,                 \* the build; never changes
  subscribed,             \* subscribed[c]: subscriptions in effect
  net,                    \* net[p][c]: messages on their way from p to c
  send_entries_,          \* send_entries_[c], as the topics sent
  received_msgs_,         \* received_msgs_[c]
  link,                   \* link[c]: the connection of c
  place,                  \* place[w]: where main() of w is
  csv                     \* csv[w]: the files written, at most once

vars == <<build_, subscribed, net, send_entries_, received_msgs_, link,
          place, csv>>

(* The time of sending stands in front of a stamped message.               *)
Message == [topic : Topic, stamped : BOOLEAN]

Subscriptions(c) ==
  {topic \in Topic : \E w \in Worker :
                      <<c, topic>> \in Program(w, build_.stack).subscribers}

Joined(w, entries) ==
  IF w = "ue" THEN entries["ue vda"] \o entries["ue teleop"] ELSE entries["base"]

(* The commands agv.cpp has a process publish, and their topics.           *)
Published(w) ==
  IF w = "ue"
  THEN ({"PUBLISH_VDA"} \X {"connection", "factsheet", "state", "visualization"})
         \cup ({"PUBLISH_TELEOP"} \X {"teleop_state", "teleoperationCapabilities"})
  ELSE ({"PUBLISH_VDA"} \X {"instantActions", "order"})
         \cup ({"PUBLISH_TELEOP"} \X {"control"})

-------------------------------------------------------------------------------
(* Which messages bear the time of sending is decided in three places:     *)
(* mainLoop() of the sender, in library Utils, message_arrived() of        *)
(* library Mqtt and addEntry() of library Zenoh.  Utils and Mqtt define    *)
(* the symbol if the option is set; both definitions are PUBLIC, and both  *)
(* Mqtt and Zenoh link Utils.                                              *)
Defines(w, library) ==
  library \in {"Utils", "Mqtt"} /\ build_.EXCLUDE_TIMESTAMP_IN_TELEOP_STATE[w]

Linked(library) == IF library = "Utils" THEN {} ELSE {"Utils"}

Defined(w, library) ==
  Defines(w, library) \/ \E used \in Linked(library) : Defines(w, used)

(* mainLoop() puts the time in front.                                      *)
Stamps(w, type, topic) ==
  \/ type = "PUBLISH_VDA"
  \/ type = "PUBLISH_TELEOP"
     /\ (Defined(w, "Utils") => topic # "teleop_state")

(* Mutated: the library Mqtt does not know of the exclusion.               *)
ClientRecords_Always(w, topic) == TRUE

(* Client::message_arrived                                                 *)
ClientRecords(w, topic) == Defined(w, "Mqtt") => topic # "teleop_state"

(* Zenoh::addEntry                                                         *)
ZenohRecords(w, topic) == Defined(w, "Zenoh") => topic # "teleop_state"

Records(c, topic) ==
  IF build_.stack = "mqtt" THEN ClientRecords(Owner(c), topic)
  ELSE ZenohRecords(Owner(c), topic)

-------------------------------------------------------------------------------
Init ==
  /\ build_ \in Builds
  /\ subscribed = [c \in Client |-> {}]
  /\ net = [p \in Client |-> [c \in Client |-> <<>>]]
  /\ send_entries_ = [c \in Client |-> <<>>]
  /\ received_msgs_ = [c \in Client |-> <<>>]
  /\ link = [c \in Client |-> "up"]
  /\ place = [w \in Worker |-> "loop"]
  /\ csv = [w \in Worker |-> <<>>]

-------------------------------------------------------------------------------
(* A subscription takes effect.  subscribe() does not wait for it, so that *)
(* mainLoop() may already run.                                             *)
Subscribe(c, topic) ==
  /\ link[c] = "up"
  /\ topic \in Subscriptions(c) \ subscribed[c]
  /\ subscribed' = [subscribed EXCEPT ![c] = @ \cup {topic}]
  /\ UNCHANGED <<build_, net, send_entries_, received_msgs_, link, place, csv>>

(* mainLoop() publishes with the client behind send_vda or send_teleop;    *)
(* the entry is recorded whether or not anyone is subscribed.              *)
publish(w, type, topic) ==
  LET p == Program(w, build_.stack).sends[type]
      m == [topic |-> topic, stamped |-> Stamps(w, type, topic)]
  IN  /\ <<type, topic>> \in Published(w)
      /\ place[w] = "loop" /\ link[p] = "up"
      /\ Len(Joined(w, send_entries_)) < MaxSends
      /\ send_entries_' = [send_entries_ EXCEPT ![p] = Append(@, topic)]
      /\ net' = [net EXCEPT ![p] =
                   [c \in Client |->
                      IF topic \in subscribed[c] THEN Append(@[c], m) ELSE @[c]]]
      /\ UNCHANGED <<build_, subscribed, received_msgs_, link, place, csv>>

(* The client's thread calls back.                                         *)
message_arrived(p, c) ==
  /\ net[p][c] # <<>>
  /\ link[c] = "up"
  /\ net' = [net EXCEPT ![p][c] = Tail(@)]
  /\ LET m == Head(net[p][c])
     IN  received_msgs_' = [received_msgs_ EXCEPT ![c] =
                              IF Records(c, m.topic) THEN Append(@, m) ELSE @]
  /\ UNCHANGED <<build_, subscribed, send_entries_, link, place, csv>>

(* Quality of service 0: a message is lost.                                *)
Lose(p, c) ==
  /\ net[p][c] # <<>>
  /\ net' = [net EXCEPT ![p][c] = Tail(@)]
  /\ UNCHANGED <<build_, subscribed, send_entries_, received_msgs_, link, place,
                 csv>>

(* The clients cs have no connection any more: their callbacks are not     *)
(* called, and what is still on its way to them is lost.                   *)
Disconnected(cs) ==
  /\ subscribed' = [c \in Client |-> IF c \in cs THEN {} ELSE subscribed[c]]
  /\ net' = [p \in Client |->
               [c \in Client |-> IF c \in cs THEN <<>> ELSE net[p][c]]]

(* A connection breaks; the client notices when it next needs it.          *)
Break(c) ==
  /\ build_.stack = "mqtt" /\ build_.lossy
  /\ link[c] = "up"
  /\ link' = [link EXCEPT ![c] = "lost"]
  /\ Disconnected({c})
  /\ UNCHANGED <<build_, send_entries_, received_msgs_, place, csv>>

(* mainLoop() returns.                                                     *)
Leave(w) ==
  /\ place[w] = "loop"
  /\ place' = [place EXCEPT ![w] = "ending"]
  /\ UNCHANGED <<build_, subscribed, net, send_entries_, received_msgs_, link,
                 csv>>

(* The i-th client is the one main() has to stop next.                     *)
Stopping(w, i) ==
  /\ place[w] = "ending"
  /\ link[ClientsOf(w)[i]] # "stopped"
  /\ \A j \in 1 .. i - 1 : link[ClientsOf(w)[j]] = "stopped"

(* Mutated: stop() first waits for the messages on their way.              *)
stop_Drains(w, i) ==
  LET c == ClientsOf(w)[i]
  IN  /\ Stopping(w, i) /\ link[c] = "up"
      /\ \A p \in Client : net[p][c] = <<>>
      /\ link' = [link EXCEPT ![c] = "stopped"]
      /\ Disconnected({c})
      /\ UNCHANGED <<build_, send_entries_, received_msgs_, place, csv>>

(* Mutated: the middleware keeps the client's subscriptions.               *)
stop_StaysSubscribed(w, i) ==
  LET c == ClientsOf(w)[i]
  IN  /\ Stopping(w, i) /\ link[c] = "up"
      /\ link' = [link EXCEPT ![c] = "stopped"]
      /\ UNCHANGED <<build_, subscribed, net, send_entries_, received_msgs_,
                     place, csv>>

(* stop() returns.                                                         *)
stop(w, i) ==
  LET c == ClientsOf(w)[i]
  IN  /\ Stopping(w, i) /\ link[c] = "up"
      /\ link' = [link EXCEPT ![c] = "stopped"]
      /\ Disconnected({c})
      /\ UNCHANGED <<build_, send_entries_, received_msgs_, place, csv>>

(* publish() and disconnect() throw without a connection, and nobody       *)
(* catches it: the process ends with all its clients and without files, so *)
(* that the entry publish() was about has no part in anything any more.    *)
Throw(w) ==
  /\ \/ /\ place[w] = "loop"
        /\ \E type \in {"PUBLISH_VDA", "PUBLISH_TELEOP"} :
             link[Program(w, build_.stack).sends[type]] = "lost"
     \/ \E i \in DOMAIN ClientsOf(w) :
          Stopping(w, i) /\ link[ClientsOf(w)[i]] = "lost"
  /\ place' = [place EXCEPT ![w] = "terminated"]
  /\ link' = [c \in Client |->
                IF c \in ClientSet(w) /\ link[c] = "up" THEN "stopped" ELSE link[c]]
  /\ Disconnected(ClientSet(w))
  /\ UNCHANGED <<build_, send_entries_, received_msgs_, csv>>

Files(w) == [received |-> Joined(w, received_msgs_),
             sent     |-> Joined(w, send_entries_)]

(* Mutated: the files are written between the two stops.                   *)
Stopped_First(w) == place[w] = "ending" /\ link[ClientsOf(w)[1]] = "stopped"

Stopped(w) ==
  place[w] = "ending" /\ \A c \in ClientSet(w) : link[c] = "stopped"

writeToCsv(w) ==
  /\ Stopped(w)
  /\ csv[w] = <<>>
  /\ csv' = [csv EXCEPT ![w] = <<Files(w)>>]
  /\ UNCHANGED <<build_, subscribed, net, send_entries_, received_msgs_, link,
                 place>>

Terminated ==
  /\ \A w \in Worker : csv[w] # <<>> \/ place[w] = "terminated"
  /\ UNCHANGED vars

Middleware ==
  \/ \E p, c \in Client : message_arrived(p, c) \/ Lose(p, c)
  \/ \E c \in Client : Break(c)

(* main() after its loop.                                                  *)
Ends(w) ==
  \/ \E i \in DOMAIN ClientsOf(w) : stop(w, i)
  \/ Throw(w)
  \/ writeToCsv(w)

Next ==
  \/ \E c \in Client, topic \in Topics : Subscribe(c, topic)
  \/ \E w \in Worker, type \in CommandType, topic \in Topics :
       publish(w, type, topic)
  \/ Middleware
  \/ \E w \in Worker : Leave(w) \/ Ends(w)
  \/ Terminated

Spec == Init /\ [][Next]_vars

(* A process that has left its loop runs on.  Both have their EXIT as long *)
(* as neither has failed, at which the Controller may stand in send().     *)
FairSpec ==
  /\ Spec
  /\ \A w \in Worker :
       /\ WF_vars(place[w] = "ending" /\ Ends(w))
       /\ WF_vars((\A v \in Worker : place[v] # "terminated") /\ Leave(w))

-------------------------------------------------------------------------------
(* Properties. *)

File == [received : Seq(Message), sent : Seq(Topic)]

(* The types.  What is not the shape of the model: messages are only on    *)
(* their way to clients with a connection, and another has no              *)
(* subscriptions that could bring it more.                                 *)
TypeOK ==
  /\ build_ \in Builds
  /\ subscribed \in [Client -> SUBSET Topic]
  /\ net \in [Client -> [Client -> Seq(Message)]]
  /\ send_entries_ \in [Client -> Seq(Topic)]
  /\ received_msgs_ \in [Client -> Seq(Message)]
  /\ link \in [Client -> {"up", "lost", "stopped"}]
  /\ place \in [Worker -> {"loop", "ending", "terminated"}]
  /\ csv \in [Worker -> Seq(File)]
  /\ \A c \in Client : link[c] # "up" =>
       /\ subscribed[c] = {}
       /\ \A p \in Client : net[p][c] = <<>>

BuiltAlike ==
  build_.EXCLUDE_TIMESTAMP_IN_TELEOP_STATE["ue"]
    = build_.EXCLUDE_TIMESTAMP_IN_TELEOP_STATE["base"]

(* If UE and Base are built with the same option, what one process's       *)
(* mainLoop() leaves unstamped is what the other's client passes over:     *)
(* every entry recorded is a time of sending, and no message on its way    *)
(* that bears one will be passed over.  The sender decides by type and     *)
(* topic, each receiver by topic, in three libraries that come by the      *)
(* symbol in three ways.                                                   *)
EntriesAreTimestamps ==
  BuiltAlike =>
    \A c \in Client :
      /\ \A i \in DOMAIN received_msgs_[c] : received_msgs_[c][i].stamped
      /\ \A p \in Client : \A i \in DOMAIN net[p][c] :
           net[p][c][i].stamped => Records(c, net[p][c][i].topic)

(* The files are complete: after they are written no client's thread adds  *)
(* an entry, though one of them may still receive while main() has already *)
(* stopped the other.                                                      *)
CsvComplete == \A w \in Worker : csv[w] # <<>> => csv[w] = <<Files(w)>>

(* Both processes write their files, whatever the middleware delivers,     *)
(* unless a connection breaks; and a process that has left its loop does   *)
(* so whatever becomes of the other, unless it has lost one of its own.    *)
AllWritten ==
  /\ <>((\A w \in Worker : csv[w] # <<>>) \/ \E c \in Client : link[c] = "lost")
  /\ \A w \in Worker :
       place[w] = "ending"
         ~> (csv[w] # <<>> \/ \E c \in ClientSet(w) : link[c] = "lost")
===============================================================================
