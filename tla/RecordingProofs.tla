---------------------------- MODULE RecordingProofs ----------------------------
(***************************************************************************)
(* For every set of builds and topics and number of messages: what is      *)
(* recorded is a time of sending if UE and Base are built alike, and the   *)
(* files are complete when written.                                        *)
(***************************************************************************)
EXTENDS Recording, TLAPS

(* Two sequences of one set make a third.                                  *)
LEMMA ConcatSeq ==
  ASSUME NEW S, NEW s \in Seq(S), NEW t \in Seq(S)
  PROVE  s \o t \in Seq(S)
OBVIOUS

(* The topics whose messages bear a time if UE and Base are built alike.   *)
Kept(topic) ==
  build_.EXCLUDE_TIMESTAMP_IN_TELEOP_STATE["ue"] => topic # "teleop_state"

(* Exactly those messages on their way bear one, and only such messages    *)
(* are recorded.                                                           *)
Marked ==
  BuiltAlike =>
    \A p, c \in Client : \A i \in DOMAIN net[p][c] :
      net[p][c][i].stamped <=> Kept(net[p][c][i].topic)

StampedEntries ==
  BuiltAlike =>
    \A c \in Client : \A i \in DOMAIN received_msgs_[c] :
      received_msgs_[c][i].stamped

(* Files are written only of clients that record no more.                  *)
Written == \A w \in Worker : csv[w] # <<>> => Stopped(w)

RecInv ==
  /\ TypeOK
  /\ Marked
  /\ StampedEntries
  /\ Written
  /\ CsvComplete

(* Appending to a sequence, and dropping its first element, leave the      *)
(* property of its elements intact.                                        *)
LEMMA AppendAll ==
  ASSUME NEW S, NEW s \in Seq(S), NEW m \in S
  PROVE  /\ Append(s, m) \in Seq(S)
         /\ \A i \in DOMAIN Append(s, m) :
              \/ i \in DOMAIN s /\ Append(s, m)[i] = s[i]
              \/ Append(s, m)[i] = m
OBVIOUS

LEMMA TailAll ==
  ASSUME NEW S, NEW s \in Seq(S), s # <<>>
  PROVE  /\ Tail(s) \in Seq(S)
         /\ Head(s) \in S
         /\ 1 \in DOMAIN s /\ Head(s) = s[1]
         /\ \A i \in DOMAIN Tail(s) : i + 1 \in DOMAIN s /\ Tail(s)[i] = s[i + 1]
OBVIOUS

(* The clients of a process.                                               *)
LEMMA Clients ==
  /\ ClientSet("ue") = {"ue vda", "ue teleop"}
  /\ ClientSet("base") = {"base"}
  /\ \A w \in Worker : \A i \in DOMAIN ClientsOf(w) : ClientsOf(w)[i] \in Client
  /\ \A w \in Worker : ClientSet(w) \in SUBSET Client
<1>1. /\ DOMAIN ClientsOf("ue") = {1, 2} /\ DOMAIN ClientsOf("base") = {1}
      /\ ClientsOf("ue")[1] = "ue vda" /\ ClientsOf("ue")[2] = "ue teleop"
      /\ ClientsOf("base")[1] = "base"
  BY DEF ClientsOf, Program, ue_mqtt, base_mqtt
<1> QED
  BY <1>1 DEF ClientSet, Client, Worker

(* What mainLoop() publishes goes out by one of its own clients.           *)
LEMMA SendsOfClients ==
  ASSUME NEW w \in Worker, NEW type, NEW topic, <<type, topic>> \in Published(w)
  PROVE  /\ Program(w, build_.stack).sends[type] \in ClientSet(w)
         /\ Program(w, build_.stack).sends[type] \in Client
<1>1. type \in {"PUBLISH_VDA", "PUBLISH_TELEOP"}
  BY DEF Published
<1>2. CASE w = "ue"
  <2>1. Program(w, build_.stack).sends[type] \in {"ue vda", "ue teleop"}
    <3>1. CASE type = "PUBLISH_VDA"
      BY <1>2, <3>1 DEF Program, ue_mqtt, ue_zenoh
    <3>2. CASE type = "PUBLISH_TELEOP"
      BY <1>2, <3>2 DEF Program, ue_mqtt, ue_zenoh
    <3> QED
      BY <1>1, <3>1, <3>2
  <2> QED
    BY <1>2, <2>1, Clients DEF Client
<1>3. CASE w = "base"
  <2>1. Program(w, build_.stack).sends[type] = "base"
    BY <1>1, <1>3 DEF Program, base_mqtt, base_zenoh
  <2> QED
    BY <1>3, <2>1, Clients DEF Client
<1> QED
  BY <1>2, <1>3 DEF Worker

(* The sender: no command PUBLISH_VDA has topic teleop_state.              *)
LEMMA StampedTopics ==
  ASSUME BuiltAlike, NEW w \in Worker, NEW type, NEW topic,
         <<type, topic>> \in Published(w)
  PROVE  Stamps(w, type, topic) <=> Kept(topic)
<1>1. Defined(w, "Utils")
        <=> build_.EXCLUDE_TIMESTAMP_IN_TELEOP_STATE["ue"]
  BY DEF Defined, Defines, Linked, BuiltAlike, Worker
<1>2. /\ type \in {"PUBLISH_VDA", "PUBLISH_TELEOP"}
      /\ type = "PUBLISH_VDA" => topic # "teleop_state"
  BY DEF Published
<1> QED
  BY <1>1, <1>2 DEF Stamps, Kept

(* The receivers.                                                          *)
LEMMA RecordedTopics ==
  ASSUME BuiltAlike, NEW c \in Client, NEW topic
  PROVE  Records(c, topic) <=> Kept(topic)
<1>1. Owner(c) \in Worker
  BY DEF Owner, Worker
<1>2. \A w \in Worker :
        /\ Defined(w, "Mqtt")
             <=> build_.EXCLUDE_TIMESTAMP_IN_TELEOP_STATE["ue"]
        /\ Defined(w, "Zenoh")
             <=> build_.EXCLUDE_TIMESTAMP_IN_TELEOP_STATE["ue"]
  BY DEF Defined, Defines, Linked, BuiltAlike, Worker
<1> QED
  BY <1>1, <1>2 DEF Records, ClientRecords, ZenohRecords, Kept

(* The files depend on the entries of a process's own clients only.        *)
LEMMA FilesTyped ==
  ASSUME TypeOK, NEW w \in Worker
  PROVE  Files(w) \in File
<1>1. ASSUME NEW S, NEW entries \in [Client -> Seq(S)]
      PROVE  Joined(w, entries) \in Seq(S)
  <2>1. /\ entries["ue vda"] \in Seq(S) /\ entries["ue teleop"] \in Seq(S)
        /\ entries["base"] \in Seq(S)
    BY <1>1 DEF Client
  <2>2. entries["ue vda"] \o entries["ue teleop"] \in Seq(S)
    BY <2>1, ConcatSeq
  <2> QED
    BY <2>1, <2>2 DEF Joined
<1> QED
  BY <1>1 DEF TypeOK, Files, File

LEMMA InitRecInv == Init => RecInv
<1> SUFFICES ASSUME Init PROVE RecInv
  OBVIOUS
<1>1. TypeOK
  BY DEF Init, TypeOK, Message, File
<1>2. Marked /\ StampedEntries /\ Written /\ CsvComplete
  BY DEF Init, Marked, StampedEntries, Written, CsvComplete
<1> QED
  BY <1>1, <1>2 DEF RecInv

LEMMA SubscribeStep ==
  ASSUME RecInv, NEW c \in Client, NEW topic \in Topics, Subscribe(c, topic)
  PROVE  RecInv'
<1>1. TypeOK'
  <2>1. topic \in Topic
    BY RecordingAssumption DEF RecordingAssumption
  <2> QED
    BY <2>1 DEF RecInv, TypeOK, Subscribe
<1>2. Marked' /\ StampedEntries' /\ Written' /\ CsvComplete'
  BY DEF RecInv, Subscribe, Marked, StampedEntries, BuiltAlike, Written, CsvComplete,
         BuiltAlike, Kept, Stopped, Files
<1> QED
  BY <1>1, <1>2 DEF RecInv

LEMMA PublishStep ==
  ASSUME RecInv, NEW w \in Worker, NEW type \in CommandType,
         NEW topic \in Topics, publish(w, type, topic)
  PROVE  RecInv'
<1> DEFINE q == Program(w, build_.stack).sends[type]
           m == [topic |-> topic, stamped |-> Stamps(w, type, topic)]
<1>1. m \in Message /\ topic \in Topic
  BY RecordingAssumption DEF RecordingAssumption, Message, Stamps
<1>a. <<type, topic>> \in Published(w)
  BY DEF publish
<1>b. q \in ClientSet(w) /\ q \in Client
  BY <1>a, SendsOfClients
<1>c. BuiltAlike => (m.stamped <=> Kept(m.topic))
  BY <1>a, StampedTopics
<1>2. /\ place[w] = "loop" /\ link[q] = "up"
      /\ send_entries_' = [send_entries_ EXCEPT ![q] = Append(@, topic)]
      /\ net' = [net EXCEPT ![q] =
                   [c \in Client |->
                      IF topic \in subscribed[c] THEN Append(@[c], m) ELSE @[c]]]
      /\ UNCHANGED <<build_, subscribed, received_msgs_, link, place, csv>>
  BY DEF publish
<1> HIDE DEF q, m
<1>3. \A p, c \in Client :
        \/ net'[p][c] = net[p][c]
        \/ topic \in subscribed[c] /\ net'[p][c] = Append(net[p][c], m)
  BY <1>b, <1>2 DEF RecInv, TypeOK
<1>4. net' \in [Client -> [Client -> Seq(Message)]]
  BY <1>1, <1>b, <1>2 DEF RecInv, TypeOK
<1>5. TypeOK'
  <2>1. send_entries_' \in [Client -> Seq(Topic)]
    BY <1>1, <1>b, <1>2 DEF RecInv, TypeOK
  <2>2. \A c \in Client : link'[c] # "up" =>
          subscribed'[c] = {} /\ \A p \in Client : net'[p][c] = <<>>
    BY <1>2, <1>3 DEF RecInv, TypeOK
  <2> QED
    BY <1>2, <1>4, <2>1, <2>2 DEF RecInv, TypeOK
<1>6. Marked'
  <2>2. ASSUME BuiltAlike,
               NEW p \in Client, NEW c \in Client, NEW i \in DOMAIN net'[p][c]
        PROVE  net'[p][c][i].stamped <=> Kept(net'[p][c][i].topic)
    <3>1. net[p][c] \in Seq(Message)
      BY DEF RecInv, TypeOK
    <3>2. CASE net'[p][c] = net[p][c]
      BY <2>2, <3>2 DEF RecInv, Marked
    <3>3. CASE net'[p][c] = Append(net[p][c], m)
      <4>1. \/ i \in DOMAIN net[p][c] /\ net'[p][c][i] = net[p][c][i]
            \/ net'[p][c][i] = m
        BY <1>1, <2>2, <3>1, <3>3, AppendAll
      <4> QED
        BY <1>c, <2>2, <4>1 DEF RecInv, Marked
    <3> QED
      BY <1>3, <3>2, <3>3
  <2> QED
    BY <1>2, <2>2 DEF Marked, BuiltAlike, Kept
<1>7. StampedEntries'
  BY <1>2 DEF RecInv, StampedEntries, BuiltAlike
<1>8. Written'
  BY <1>2 DEF RecInv, Written, Stopped
<1>9. CsvComplete'
  <2> SUFFICES ASSUME NEW v \in Worker, csv[v] # <<>>
               PROVE  Files(v)' = Files(v)
    BY <1>2 DEF RecInv, CsvComplete
  <2>1. v # w
    BY <1>2 DEF RecInv, Written, Stopped
  <2>2. \A c \in ClientSet(v) : send_entries_'[c] = send_entries_[c]
    BY <1>b, <1>2, <2>1, Clients DEF RecInv, TypeOK, Worker, Client
  <2>3. Joined(v, send_entries_)' = Joined(v, send_entries_)
    <3>1. CASE v = "ue"
      BY <2>2, <3>1, Clients DEF Joined
    <3>2. CASE v = "base"
      <4>1. send_entries_'["base"] = send_entries_["base"]
        BY <2>2, <3>2, Clients
      <4> QED
        BY <3>2, <4>1 DEF Joined
    <3> QED
      BY <3>1, <3>2 DEF Worker
  <2> QED
    BY <1>2, <2>3 DEF Files
<1> QED
  BY <1>5, <1>6, <1>7, <1>8, <1>9 DEF RecInv

LEMMA LoseStep ==
  ASSUME RecInv, NEW q \in Client, NEW d \in Client, Lose(q, d)
  PROVE  RecInv'
<1>1. /\ net[q][d] # <<>>
      /\ net' = [net EXCEPT ![q][d] = Tail(@)]
      /\ UNCHANGED <<build_, subscribed, send_entries_, received_msgs_,
                     link, place, csv>>
  BY DEF Lose
<1>2. \A p, c \in Client :
        \/ net'[p][c] = net[p][c]
        \/ p = q /\ c = d /\ net'[p][c] = Tail(net[p][c])
  BY <1>1 DEF RecInv, TypeOK
<1>3. net[q][d] \in Seq(Message)
  BY DEF RecInv, TypeOK
<1>4. TypeOK'
  <2>1. net' \in [Client -> [Client -> Seq(Message)]]
    BY <1>1, <1>3, TailAll DEF RecInv, TypeOK
  <2>2. \A c \in Client : link[c] # "up" => \A p \in Client : net'[p][c] = <<>>
    BY <1>1, <1>2 DEF RecInv, TypeOK
  <2> QED
    BY <1>1, <2>1, <2>2 DEF RecInv, TypeOK
<1>5. Marked'
  <2>1. ASSUME BuiltAlike,
               NEW p \in Client, NEW c \in Client, NEW i \in DOMAIN net'[p][c]
        PROVE  net'[p][c][i].stamped <=> Kept(net'[p][c][i].topic)
    <3>1. CASE net'[p][c] = net[p][c]
      BY <2>1, <3>1 DEF RecInv, Marked
    <3>2. CASE p = q /\ c = d /\ net'[p][c] = Tail(net[p][c])
      <4>1. i + 1 \in DOMAIN net[p][c] /\ net'[p][c][i] = net[p][c][i + 1]
        <5>1. /\ net[p][c] \in Seq(Message) /\ net[p][c] # <<>>
              /\ i \in DOMAIN Tail(net[p][c])
          BY <1>1, <1>3, <2>1, <3>2
        <5>2. \A j \in DOMAIN Tail(net[p][c]) :
                j + 1 \in DOMAIN net[p][c] /\ Tail(net[p][c])[j] = net[p][c][j + 1]
          BY <5>1, TailAll
        <5> QED
          BY <3>2, <5>1, <5>2
      <4> QED
        BY <2>1, <4>1 DEF RecInv, Marked
    <3> QED
      BY <1>2, <3>1, <3>2
  <2> QED
    BY <1>1, <2>1 DEF Marked, BuiltAlike, Kept
<1>6. StampedEntries' /\ Written' /\ CsvComplete'
  BY <1>1 DEF RecInv, StampedEntries, BuiltAlike, Written, CsvComplete, Stopped, Files
<1> QED
  BY <1>4, <1>5, <1>6 DEF RecInv

LEMMA ArriveStep ==
  ASSUME RecInv, NEW q \in Client, NEW d \in Client, message_arrived(q, d)
  PROVE  RecInv'
<1> DEFINE m == Head(net[q][d])
<1>1. /\ net[q][d] # <<>> /\ link[d] = "up"
      /\ net' = [net EXCEPT ![q][d] = Tail(@)]
      /\ received_msgs_' = [received_msgs_ EXCEPT ![d] =
                              IF Records(d, m.topic) THEN Append(@, m) ELSE @]
      /\ UNCHANGED <<build_, subscribed, send_entries_, link, place, csv>>
  BY DEF message_arrived
<1>2. /\ net[q][d] \in Seq(Message) /\ received_msgs_[d] \in Seq(Message)
      /\ Tail(net[q][d]) \in Seq(Message) /\ m \in Message
      /\ 1 \in DOMAIN net[q][d] /\ m = net[q][d][1]
  BY <1>1, TailAll DEF RecInv, TypeOK
<1>3. BuiltAlike /\ Records(d, m.topic) => m.stamped
  BY <1>2, RecordedTopics DEF RecInv, Marked
<1> HIDE DEF m
<1>4. \A p, c \in Client :
        \/ net'[p][c] = net[p][c]
        \/ p = q /\ c = d /\ net'[p][c] = Tail(net[p][c])
  BY <1>1 DEF RecInv, TypeOK
<1>5. \A c \in Client :
        \/ received_msgs_'[c] = received_msgs_[c]
        \/ c = d /\ Records(d, m.topic) /\ received_msgs_'[c] = Append(received_msgs_[c], m)
  BY <1>1 DEF RecInv, TypeOK
<1>6. TypeOK'
  <2>1. net' \in [Client -> [Client -> Seq(Message)]]
    BY <1>1, <1>2 DEF RecInv, TypeOK
  <2>2. received_msgs_' \in [Client -> Seq(Message)]
    BY <1>1, <1>2 DEF RecInv, TypeOK
  <2>3. \A c \in Client : link[c] # "up" => \A p \in Client : net'[p][c] = <<>>
    BY <1>1, <1>4 DEF RecInv, TypeOK
  <2> QED
    BY <1>1, <2>1, <2>2, <2>3 DEF RecInv, TypeOK
<1>7. Marked'
  <2>1. ASSUME BuiltAlike,
               NEW p \in Client, NEW c \in Client, NEW i \in DOMAIN net'[p][c]
        PROVE  net'[p][c][i].stamped <=> Kept(net'[p][c][i].topic)
    <3>1. CASE net'[p][c] = net[p][c]
      BY <2>1, <3>1 DEF RecInv, Marked
    <3>2. CASE p = q /\ c = d /\ net'[p][c] = Tail(net[p][c])
      <4>1. /\ net[p][c] \in Seq(Message) /\ net[p][c] # <<>>
            /\ i \in DOMAIN Tail(net[p][c])
        BY <1>1, <1>2, <2>1, <3>2
      <4>2. \A j \in DOMAIN Tail(net[p][c]) :
              j + 1 \in DOMAIN net[p][c] /\ Tail(net[p][c])[j] = net[p][c][j + 1]
        BY <4>1, TailAll
      <4>3. i + 1 \in DOMAIN net[p][c] /\ net'[p][c][i] = net[p][c][i + 1]
        BY <3>2, <4>1, <4>2
      <4> QED
        BY <2>1, <4>3 DEF RecInv, Marked
    <3> QED
      BY <1>4, <3>1, <3>2
  <2> QED
    BY <1>1, <2>1 DEF Marked, BuiltAlike, Kept
<1>8. StampedEntries'
  <2> SUFFICES ASSUME BuiltAlike,
                      NEW c \in Client, NEW i \in DOMAIN received_msgs_'[c]
               PROVE  received_msgs_'[c][i].stamped
    BY <1>1 DEF StampedEntries, BuiltAlike
  <2>1. CASE received_msgs_'[c] = received_msgs_[c]
    BY <2>1 DEF RecInv, StampedEntries
  <2>2. CASE /\ c = d /\ Records(d, m.topic)
             /\ received_msgs_'[c] = Append(received_msgs_[c], m)
    <3>1. \/ /\ i \in DOMAIN received_msgs_[c]
             /\ received_msgs_'[c][i] = received_msgs_[c][i]
          \/ received_msgs_'[c][i] = m
      BY <1>2, <2>2, AppendAll
    <3> QED
      BY <1>3, <2>2, <3>1 DEF RecInv, StampedEntries
  <2> QED
    BY <1>5, <2>1, <2>2
<1>9. Written'
  BY <1>1 DEF RecInv, Written, Stopped
<1>10. CsvComplete'
  <2> SUFFICES ASSUME NEW v \in Worker, csv[v] # <<>>
               PROVE  Files(v)' = Files(v)
    BY <1>1 DEF RecInv, CsvComplete
  <2>1. d \notin ClientSet(v)
    BY <1>1 DEF RecInv, Written, Stopped
  <2>2. Joined(v, received_msgs_)' = Joined(v, received_msgs_)
    <3>1. CASE v = "ue"
      <4>1. d # "ue vda" /\ d # "ue teleop"
        BY <2>1, <3>1, Clients
      <4>2. /\ received_msgs_'["ue vda"] = received_msgs_["ue vda"]
            /\ received_msgs_'["ue teleop"] = received_msgs_["ue teleop"]
        BY <1>5, <4>1 DEF Client
      <4> QED
        BY <3>1, <4>2 DEF Joined
    <3>2. CASE v = "base"
      <4>1. d # "base"
        BY <2>1, <3>2, Clients
      <4>2. received_msgs_'["base"] = received_msgs_["base"]
        BY <1>5, <4>1 DEF Client
      <4> QED
        BY <3>2, <4>2 DEF Joined
    <3> QED
      BY <3>1, <3>2 DEF Worker
  <2> QED
    BY <1>1, <2>2 DEF Files
<1> QED
  BY <1>6, <1>7, <1>8, <1>9, <1>10 DEF RecInv

LEMMA LeaveStep ==
  ASSUME RecInv, NEW w \in Worker, Leave(w)
  PROVE  RecInv'
<1>1. /\ place[w] = "loop" /\ place' = [place EXCEPT ![w] = "ending"]
      /\ UNCHANGED <<build_, subscribed, net, send_entries_, received_msgs_,
                     link, csv>>
  BY DEF Leave
<1>2. TypeOK'
  BY <1>1 DEF RecInv, TypeOK
<1>3. Written'
  BY <1>1 DEF RecInv, TypeOK, Written, Stopped
<1>4. Marked' /\ StampedEntries' /\ CsvComplete'
  BY <1>1 DEF RecInv, Marked, StampedEntries, CsvComplete, BuiltAlike, Kept,
              Files
<1> QED
  BY <1>2, <1>3, <1>4 DEF RecInv

(* The connection of clients ends, in whatever way.                        *)
LEMMA DisconnectStep ==
  ASSUME RecInv, NEW cs \in SUBSET Client, Disconnected(cs),
         UNCHANGED <<build_, send_entries_, received_msgs_, csv>>,
         link' \in [Client -> {"up", "lost", "stopped"}],
         place' \in [Worker -> {"loop", "ending", "terminated"}],
         \A c \in Client : link'[c] # "up" => c \in cs \/ link[c] # "up",
         \A w \in Worker : Stopped(w) => Stopped(w)'
  PROVE  RecInv'
<1>1. \A p, c \in Client :
        net'[p][c] = IF c \in cs THEN <<>> ELSE net[p][c]
  BY DEF Disconnected
<1>2. TypeOK'
  <2>1. net' \in [Client -> [Client -> Seq(Message)]]
    BY DEF Disconnected, RecInv, TypeOK
  <2>2. \A c \in Client : link'[c] # "up" =>
          subscribed'[c] = {} /\ \A p \in Client : net'[p][c] = <<>>
    BY <1>1 DEF Disconnected, RecInv, TypeOK
  <2>3. subscribed' \in [Client -> SUBSET Topic]
    BY DEF Disconnected, RecInv, TypeOK
  <2> QED
    BY <2>1, <2>2, <2>3 DEF RecInv, TypeOK
<1>3. Marked'
  BY <1>1 DEF RecInv, Marked, BuiltAlike, Kept
<1>4. Written'
  BY DEF RecInv, Written
<1>5. StampedEntries' /\ CsvComplete'
  BY DEF RecInv, StampedEntries, BuiltAlike, CsvComplete, Files
<1> QED
  BY <1>2, <1>3, <1>4, <1>5 DEF RecInv

LEMMA BreakStep ==
  ASSUME RecInv, NEW c \in Client, Break(c)
  PROVE  RecInv'
<1>1. ASSUME NEW w \in Worker, Stopped(w)
      PROVE  Stopped(w)'
  <2>1. \A d \in ClientSet(w) : d \in Client /\ d # c
    BY <1>1, Clients DEF Break, Stopped
  <2>2. \A d \in ClientSet(w) : link'[d] = "stopped"
    BY <1>1, <2>1 DEF Break, RecInv, TypeOK, Stopped
  <2> QED
    BY <1>1, <2>2 DEF Break, Stopped
<1>2. \A d \in Client : link'[d] # "up" => d \in {c} \/ link[d] # "up"
  BY DEF Break, RecInv, TypeOK
<1>3. link' \in [Client -> {"up", "lost", "stopped"}]
  BY DEF Break, RecInv, TypeOK
<1>4. /\ Disconnected({c})
      /\ UNCHANGED <<build_, send_entries_, received_msgs_, csv>>
      /\ place' \in [Worker -> {"loop", "ending", "terminated"}]
  BY DEF Break, RecInv, TypeOK
<1> QED
  BY <1>1, <1>2, <1>3, <1>4, DisconnectStep

LEMMA StopStep ==
  ASSUME RecInv, NEW w \in Worker, NEW i \in DOMAIN ClientsOf(w), stop(w, i)
  PROVE  RecInv'
<1> DEFINE d == ClientsOf(w)[i]
<1>1. /\ d \in Client
      /\ link' = [link EXCEPT ![d] = "stopped"]
      /\ Disconnected({d})
      /\ UNCHANGED <<build_, send_entries_, received_msgs_, place, csv>>
  BY Clients DEF stop
<1> HIDE DEF d
<1>2. ASSUME NEW v \in Worker, Stopped(v)
      PROVE  Stopped(v)'
  <2>1. \A c \in ClientSet(v) : c \in Client /\ link'[c] = "stopped"
    BY <1>1, <1>2, Clients DEF RecInv, TypeOK, Stopped
  <2> QED
    BY <1>1, <1>2, <2>1 DEF Stopped
<1>3. \A c \in Client : link'[c] # "up" => c \in {d} \/ link[c] # "up"
  BY <1>1 DEF RecInv, TypeOK
<1>4. /\ link' \in [Client -> {"up", "lost", "stopped"}]
      /\ place' \in [Worker -> {"loop", "ending", "terminated"}]
  BY <1>1 DEF RecInv, TypeOK
<1> QED
  BY <1>1, <1>2, <1>3, <1>4, DisconnectStep

(* A process that throws has written nothing, and nothing of the other's   *)
(* changes.                                                                *)
LEMMA ThrowStep ==
  ASSUME RecInv, NEW w \in Worker, Throw(w)
  PROVE  RecInv'
<1>1. /\ place' = [place EXCEPT ![w] = "terminated"]
      /\ link' = [c \in Client |->
                    IF c \in ClientSet(w) /\ link[c] = "up" THEN "stopped"
                    ELSE link[c]]
      /\ Disconnected(ClientSet(w))
      /\ UNCHANGED <<build_, send_entries_, received_msgs_, csv>>
  BY DEF Throw
<1>2. ~Stopped(w)
  <2>1. CASE place[w] = "loop"
    BY <2>1 DEF Stopped
  <2>2. CASE \E i \in DOMAIN ClientsOf(w) : Stopping(w, i)
    BY <2>2 DEF Stopping, Stopped, ClientSet
  <2> QED
    BY <2>1, <2>2 DEF Throw
<1>3. ClientSet(w) \in SUBSET Client
  BY Clients
<1>4. \A v \in Worker : Stopped(v) => Stopped(v)'
  <2> SUFFICES ASSUME NEW v \in Worker, Stopped(v)
               PROVE  Stopped(v)'
    OBVIOUS
  <2>1. v # w /\ place'[v] = "ending"
    BY <1>1, <1>2 DEF RecInv, TypeOK, Stopped
  <2>2. \A c \in ClientSet(v) : c \in Client /\ link'[c] = "stopped"
    <3>1. \A c \in ClientSet(v) : c \in Client /\ link[c] = "stopped"
      BY Clients DEF Stopped
    <3> QED
      BY <1>1, <3>1 DEF RecInv, TypeOK
  <2> QED
    BY <2>1, <2>2 DEF Stopped
<1>5. \A c \in Client : link'[c] # "up" => c \in ClientSet(w) \/ link[c] # "up"
  BY <1>1 DEF RecInv, TypeOK
<1>6. /\ link' \in [Client -> {"up", "lost", "stopped"}]
      /\ place' \in [Worker -> {"loop", "ending", "terminated"}]
  BY <1>1 DEF RecInv, TypeOK
<1> QED
  BY <1>1, <1>3, <1>4, <1>5, <1>6, DisconnectStep

LEMMA WriteStep ==
  ASSUME RecInv, NEW w \in Worker, writeToCsv(w)
  PROVE  RecInv'
<1>1. /\ Stopped(w) /\ csv[w] = <<>>
      /\ csv' = [csv EXCEPT ![w] = <<Files(w)>>]
      /\ UNCHANGED <<build_, subscribed, net, send_entries_, received_msgs_,
                     link, place>>
  BY DEF writeToCsv
<1>2. TypeOK'
  <2>1. <<Files(w)>> \in Seq(File)
    BY FilesTyped DEF RecInv
  <2> QED
    BY <1>1, <2>1 DEF RecInv, TypeOK
<1>3. Written'
  BY <1>1 DEF RecInv, TypeOK, Written, Stopped
<1>4. CsvComplete'
  BY <1>1 DEF RecInv, TypeOK, CsvComplete, Files
<1>5. Marked' /\ StampedEntries'
  BY <1>1 DEF RecInv, Marked, StampedEntries, BuiltAlike, Kept
<1> QED
  BY <1>2, <1>3, <1>4, <1>5 DEF RecInv

LEMMA RecInvInductive == RecInv /\ [Next]_vars => RecInv'
<1> SUFFICES ASSUME RecInv, [Next]_vars PROVE RecInv'
  OBVIOUS
<1>1. CASE UNCHANGED vars
  BY <1>1 DEF RecInv, TypeOK, Marked, StampedEntries, Written, CsvComplete,
              BuiltAlike, Kept, Stopped, Files, vars
<1>2. CASE Next
  <2>1. ASSUME NEW w \in Worker, Leave(w) \/ Ends(w)
        PROVE  RecInv'
    BY <2>1, LeaveStep, StopStep, ThrowStep, WriteStep DEF Ends
  <2>2. CASE Middleware
    BY <2>2, ArriveStep, LoseStep, BreakStep DEF Middleware
  <2>3. CASE Terminated
    BY <1>1, <2>3 DEF Terminated
  <2>4. ASSUME NEW c \in Client, NEW topic \in Topics, Subscribe(c, topic)
        PROVE  RecInv'
    BY <2>4, SubscribeStep
  <2>5. ASSUME NEW w \in Worker, NEW type \in CommandType,
               NEW topic \in Topics, publish(w, type, topic)
        PROVE  RecInv'
    BY <2>5, PublishStep
  <2> QED
    BY <1>2, <2>1, <2>2, <2>3, <2>4, <2>5 DEF Next
<1> QED
  BY <1>1, <1>2

-------------------------------------------------------------------------------
(* Everything below holds in every state of every run.                     *)
THEOREM RecordingInvariant == Spec => []RecInv
<1> QED
  BY InitRecInv, RecInvInductive, PTL DEF Spec

(* No message is on its way to a client that was stopped, nor will be.     *)
THEOREM RecordingTyped == Spec => []TypeOK
<1>1. RecInv => TypeOK
  BY DEF RecInv
<1> QED
  BY <1>1, RecordingInvariant, PTL

(* Built with the same option on both machines, with any set of builds, no *)
(* client records anything but a time of sending, and none passes one over *)
(* that arrives: the exclusion of teleop_state that mainLoop() decides     *)
(* with the symbol of library Utils, message_arrived() with that of Mqtt   *)
(* and addEntry() with the one Zenoh has by linking Utils agree on every   *)
(* topic that is published.                                                *)
THEOREM Timestamps == Spec => []EntriesAreTimestamps
<1>1. RecInv => EntriesAreTimestamps
  BY RecordedTopics DEF RecInv, Marked, StampedEntries, EntriesAreTimestamps
<1> QED
  BY <1>1, RecordingInvariant, PTL

(* main() has the clients' threads behind it when it writes the files.     *)
THEOREM CompleteFiles == Spec => []CsvComplete
<1>1. RecInv => CsvComplete
  BY DEF RecInv
<1> QED
  BY <1>1, RecordingInvariant, PTL
===============================================================================
