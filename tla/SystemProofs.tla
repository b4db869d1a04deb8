----------------------------- MODULE SystemProofs -----------------------------
(***************************************************************************)
(* Proofs about the three processes together, for every set of             *)
(* configurations and of setups, and every capacity of the pipes.          *)
(***************************************************************************)
EXTENDS System, RefinementProofs, FiniteSetTheorems

Publishing == {"PUBLISH_VDA", "PUBLISH_TELEOP"}
VideoType  == {"START_VIDEO", "STOP_VIDEO"}

(* A process has its EXIT: nothing more will be sent to it.                *)
Told(w) == ~running /\ \A i \in DOMAIN out : out[i].to # w

(* Video commands are for the UE, and carry nothing.                       *)
ForUe(c) ==
  c.type \in VideoType => c.to = "ue" /\ c.topic = "" /\ c.msg.text = ""

OutInv ==
  /\ \A i \in DOMAIN out : ForUe(out[i])
  /\ running => \A i \in DOMAIN out : out[i].type # "EXIT"
  /\ ~running => \A i, j \in DOMAIN out :
                   out[i].type = "EXIT" /\ (out[i].to = out[j].to => i = j)

(* EXIT is the last command in a pipe, and ends what is sent to it.        *)
PipeInv(w) ==
  /\ \A i \in DOMAIN pipe[w] : ForUe(pipe[w][i]) /\ pipe[w][i].to = w
  /\ \A i \in DOMAIN pipe[w] :
       pipe[w][i].type = "EXIT" => i = Len(pipe[w]) /\ Told(w)
  /\ pc[w] \in {"exiting", "exited"} => Told(w) /\ pipe[w] = <<>>

(* Where a process is tells how many video pipelines it has.               *)
CamerasInv(w) ==
  /\ pc[w] \in {"starting", "exited", "crashed"} => cameras[w] = 0
  /\ pc[w] = "loop" => cameras[w] \in {0, 1}
  /\ pc[w] = "closing" => cameras[w] \in {1, 2}
  /\ pc[w] = "exiting" => cameras[w] = 1

SysInv ==
  /\ W!TypeOK
  /\ OutInv
  /\ \A w \in Worker : PipeInv(w) /\ CamerasInv(w)

-------------------------------------------------------------------------------
(* The steps of the system.                                                *)

LEMMA SameWorkers == W!Command = Command /\ W!Worker = Worker
BY DEF W!Command, W!Worker, W!CommandType, W!Topic, W!Payload, W!Text,
       Command, Worker, CommandType, Topic, Payload, Text

(* The Controller does not notice whom it runs with: each step is its own, *)
(* or none.                                                                *)
LEMMA ControllerStep == [SysNext]_sysVars => [Next]_vars
BY DEF SysNext, sysVars, Simulate, executeCommand, Execute, SysTerminated, Next

THEOREM ControllerInSystem == SysSpec => Spec
<1>1. SysInit => Init
  BY DEF SysInit
<1> QED
  BY <1>1, ControllerStep, PTL DEF SysSpec, Spec

LEMMA SysSteps ==
  ASSUME [SysNext]_sysVars
  PROVE  \/ \E e \in events : Handler(e) /\ UNCHANGED workerVars
         \/ Send /\ W!Accept(Head(out).to, Head(out))
         \/ \E w \in Worker : W!Step(w) /\ UNCHANGED vars
         \/ UNCHANGED vars /\ UNCHANGED workerVars
BY DEF SysNext, sysVars, Simulate, executeCommand, Execute, SysTerminated

(* What a process does: it takes the first command of its pipe, or none.   *)
Takes(w) ==
  /\ pipe[w] # <<>>
  /\ pipe' = [pipe EXCEPT ![w] = Tail(@)]
  /\ pc[w] = "loop"

LEMMA WorkerSteps ==
  ASSUME NEW w, W!Step(w)
  PROVE  /\ setup_' = setup_
         /\ \/ /\ pc[w] = "starting" /\ pc' = [pc EXCEPT ![w] = "loop"]
               /\ UNCHANGED <<pipe, cameras>>
            \/ W!StartFails(w)
            \/ /\ Takes(w) /\ Head(pipe[w]).type \in Publishing
               /\ UNCHANGED <<pc, cameras>>
            \/ Takes(w) /\ W!StartVideo(w, Head(pipe[w]))
            \/ Takes(w) /\ W!StopVideo(w, Head(pipe[w]))
            \/ Takes(w) /\ W!Exit(w, Head(pipe[w]))
            \/ W!Crash(w, Head(pipe[w]))
            \/ W!CameraClosed(w)
BY DEF W!Step, W!Start, W!StartFails, W!Handle, W!Publish, W!StartVideo,
       W!StopVideo, W!Exit, W!Crash, W!CameraClosed, W!Receives, W!Publishes,
       Takes, Publishing

(* What a handler sends.                                                   *)
LEMMA HandlerSends ==
  ASSUME NEW e \in events, Handler(e)
  PROVE  /\ out = <<>> /\ running
         /\ \/ running' /\ \E c : out' = <<c>> /\ c.type \in Publishing
            \/ running' /\ \E c, d : /\ out' = <<c, d>> /\ c.type \in Publishing
                                     /\ d.type \in VideoType
                                     /\ d.to = "ue" /\ d.topic = ""
                                     /\ d.msg.text = ""
            \/ ~running' /\ \E c, d : /\ out' = <<c, d>>
                                      /\ c.type = "EXIT" /\ d.type = "EXIT"
                                      /\ c.to = "ue" /\ d.to = "base"
<1>0. /\ \A type \in Publishing : \A topic, msg :
           /\ executeCommandUe(type, topic, msg).type \in Publishing
           /\ executeCommandBase(type, topic, msg).type \in Publishing
      /\ \A action : instantActions(action).type \in Publishing
      /\ "PUBLISH_VDA" \in Publishing /\ "PUBLISH_TELEOP" \in Publishing
  BY DEF instantActions, executeCommandUe, executeCommandBase, CommandFor,
         Publishing
<1>1. CASE Bystander(e)
  <2>1. \E c : out' = <<c>> /\ c.type \in Publishing
    BY <1>0, <1>1 DEF Bystander, sendConnection, sendFactsheetRequest,
         sendFactsheet, sendVisualization, requestTeleoperationCapabilities,
         sendTeleoperationCapabilities
  <2>2. out = <<>> /\ running /\ running'
    BY <1>1 DEF Bystander, sendConnection, sendFactsheetRequest,
         sendFactsheet, sendVisualization, requestTeleoperationCapabilities,
         sendTeleoperationCapabilities, Runs
  <2> QED
    BY <2>1, <2>2
<1>2. CASE sendOrder(e) \/ sendState(e)
  <2>1. \E c : out' = <<c>> /\ c.type \in Publishing
    BY <1>0, <1>2 DEF sendOrder, sendState
  <2>2. out = <<>> /\ running /\ running'
    BY <1>2 DEF sendOrder, sendState, Runs
  <2> QED
    BY <2>1, <2>2
<1>3. CASE startTeleoperation(e) \/ stopTeleoperation(e) \/ sendControl(e)
  <2>1. \E c : out' = <<c>> /\ c.type \in Publishing
    BY <1>0, <1>3 DEF startTeleoperation, stopTeleoperation, sendControl
  <2>2. out = <<>> /\ running /\ running'
    BY <1>3 DEF startTeleoperation, stopTeleoperation, sendControl, Runs
  <2> QED
    BY <2>1, <2>2
<1>4. CASE sendTeleoperationState(e)
  <2>1. VideoCommand \in VideoType
    BY DEF VideoCommand, VideoType
  <2> DEFINE c == executeCommandUe("PUBLISH_TELEOP", "teleop_state",
                    Plain(IF teleoperating_ THEN "teleoperating"
                          ELSE "not teleoperating"))
             d == executeCommandUe(VideoCommand, "", Plain(""))
  <2>2. /\ c.type \in Publishing
        /\ d.type \in VideoType /\ d.to = "ue" /\ d.topic = ""
        /\ d.msg.text = ""
    BY <1>0, <2>1 DEF executeCommandUe, CommandFor, Plain
  <2>3. out' = <<c, d>>
    BY <1>4 DEF sendTeleoperationState
  <2>4. out = <<>> /\ running /\ running'
    BY <1>4 DEF sendTeleoperationState, Runs
  <2> HIDE DEF c, d
  <2> QED
    BY <2>2, <2>3, <2>4
<1>5. CASE Stop(e)
  <2> DEFINE c == executeCommandUe("EXIT", "", Plain(""))
             d == executeCommandBase("EXIT", "Test", Plain("Test"))
  <2>1. /\ c.type = "EXIT" /\ d.type = "EXIT"
        /\ c.to = "ue" /\ d.to = "base"
    BY DEF executeCommandUe, executeCommandBase, CommandFor
  <2>2. out' = <<c, d>> /\ out = <<>> /\ running /\ ~running'
    BY <1>5 DEF Stop
  <2> HIDE DEF c, d
  <2> QED
    BY <2>1, <2>2
<1> QED
  BY <1>1, <1>2, <1>3, <1>4, <1>5 DEF Handler, Bystander

-------------------------------------------------------------------------------
(* Lists of commands.                                                      *)

LEMMA TailList ==
  ASSUME NEW S, NEW s \in Seq(S), s # <<>>
  PROVE  /\ Tail(s) \in Seq(S) /\ Head(s) = s[1] /\ Head(s) \in S
         /\ 1 \in DOMAIN s
         /\ Len(Tail(s)) = Len(s) - 1 /\ Len(s) \in Nat
         /\ \A i \in DOMAIN Tail(s) :
              i \in Nat \ {0} /\ i + 1 \in DOMAIN s /\ Tail(s)[i] = s[i + 1]
<1>1. /\ Tail(s) \in Seq(S) /\ Head(s) \in S
      /\ Len(Tail(s)) = Len(s) - 1 /\ Len(s) \in Nat
      /\ \A i \in 1 .. Len(Tail(s)) : Tail(s)[i] = s[i + 1]
  BY HeadTailProperties, LenProperties
<1>2. DOMAIN Tail(s) = 1 .. Len(Tail(s)) /\ DOMAIN s = 1 .. Len(s)
  BY <1>1, LenProperties
<1>3. Head(s) = s[1] /\ Len(s) # 0
  BY EmptySeq
<1> QED
  BY <1>1, <1>2, <1>3

LEMMA AppendList ==
  ASSUME NEW S, NEW s \in Seq(S), NEW c \in S
  PROVE  /\ Append(s, c) \in Seq(S)
         /\ Len(Append(s, c)) = Len(s) + 1 /\ Len(s) \in Nat
         /\ \A i \in DOMAIN Append(s, c) :
              \/ i \in DOMAIN s /\ Append(s, c)[i] = s[i]
              \/ i = Len(s) + 1 /\ Append(s, c)[i] = c
         /\ \A i \in DOMAIN s : i \in Nat /\ i <= Len(s)
<1>1. /\ Append(s, c) \in Seq(S) /\ Len(s) \in Nat
      /\ Len(Append(s, c)) = Len(s) + 1
      /\ DOMAIN s = 1 .. Len(s)
      /\ DOMAIN Append(s, c) = 1 .. Len(s) + 1
  BY LenProperties
<1>2. \A i \in 1 .. Len(s) + 1 :
        Append(s, c)[i] = IF i = Len(s) + 1 THEN c ELSE s[i]
  OBVIOUS
<1> QED
  BY <1>1, <1>2

LEMMA TwoList ==
  ASSUME NEW c, NEW d, NEW s
  PROVE  /\ s = <<c, d>> => DOMAIN s = {1, 2} /\ s[1] = c /\ s[2] = d
         /\ s = <<c>> => DOMAIN s = {1} /\ s[1] = c
         /\ s = <<>> => DOMAIN s = {}
OBVIOUS

-------------------------------------------------------------------------------
(* The invariant of the pipes and of the processes.                        *)

LEMMA WorkerTypes ==
  ASSUME W!TypeOK
  PROVE  /\ pipe \in [Worker -> Seq(Command)]
         /\ pc \in [Worker -> W!Location]
         /\ cameras \in [Worker -> Nat]
         /\ \A w \in Worker : Len(pipe[w]) \in Nat /\ Len(pipe[w]) <= HighWaterMark
         /\ HighWaterMark \in Nat
         /\ setup_ \in Setups
<1>1. HighWaterMark \in Nat
  BY WorkersAssumption DEF W!SetupsAssumption
<1>2. pipe \in [Worker -> Seq(Command)]
  BY SameWorkers DEF W!TypeOK
<1> QED
  BY <1>1, <1>2, SameWorkers, LenProperties DEF W!TypeOK

LEMMA InitSys == SysInit => SysInv
<1> SUFFICES ASSUME SysInit
             PROVE  SysInv
  OBVIOUS
<1>1. HighWaterMark \in Nat /\ <<>> \in Seq(Command) /\ Len(<<>>) = 0
  BY WorkersAssumption, EmptySeq DEF W!SetupsAssumption
<1>2. W!TypeOK
  BY <1>1, SameWorkers DEF SysInit, W!Init, W!TypeOK, W!Location
<1>3. OutInv
  BY TwoList DEF SysInit, Init, OutInv
<1>4. ASSUME NEW w \in Worker
      PROVE  PipeInv(w) /\ CamerasInv(w)
  BY <1>4, SameWorkers, TwoList DEF SysInit, W!Init, PipeInv, CamerasInv
<1> QED
  BY <1>2, <1>3, <1>4 DEF SysInv

(* A handler never sends a video command to Base, nor EXIT before the end, *)
(* nor anything after it.                                                  *)
LEMMA OutInvStep == TypeOK /\ OutInv /\ [Next]_vars => OutInv'
<1> SUFFICES ASSUME TypeOK, OutInv, [Next]_vars
             PROVE  OutInv'
  OBVIOUS
<1>1. ASSUME NEW e \in events, Handler(e)
      PROVE  OutInv'
  <2>1. ASSUME NEW c, running', out' = <<c>>, c.type \in Publishing
        PROVE  OutInv'
    <3>1. DOMAIN out' = {1} /\ out'[1] = c
      BY <2>1, TwoList
    <3> QED
      BY <2>1, <3>1 DEF OutInv, ForUe, Publishing, VideoType
  <2>2. ASSUME NEW c, NEW d, running', out' = <<c, d>>, c.type \in Publishing,
               d.type \in VideoType, d.to = "ue", d.topic = "",
               d.msg.text = ""
        PROVE  OutInv'
    <3>0. out' = <<c, d>>
      BY <2>2
    <3>1. DOMAIN out' = {1, 2} /\ out'[1] = c /\ out'[2] = d
      BY <3>0, TwoList
    <3> QED
      BY <2>2, <3>1 DEF OutInv, ForUe, Publishing, VideoType
  <2>3. ASSUME NEW c, NEW d, ~running', out' = <<c, d>>,
               c.type = "EXIT", d.type = "EXIT", c.to = "ue", d.to = "base"
        PROVE  OutInv'
    <3>0. out' = <<c, d>>
      BY <2>3
    <3>1. DOMAIN out' = {1, 2} /\ out'[1] = c /\ out'[2] = d
      BY <3>0, TwoList
    <3>2. \A i \in DOMAIN out' : ForUe(out'[i]) /\ out'[i].type = "EXIT"
      BY <2>3, <3>1 DEF ForUe, VideoType
    <3>3. \A i, j \in DOMAIN out' : out'[i].to = out'[j].to => i = j
      BY <2>3, <3>1
    <3> QED
      BY <2>3, <3>2, <3>3 DEF OutInv
  <2> QED
    BY <1>1, <2>1, <2>2, <2>3, HandlerSends
<1>2. CASE Send
  <2>1. /\ out # <<>> /\ out' = Tail(out) /\ running' = running
        /\ out \in Seq(Command)
    BY <1>2 DEF Send, TypeOK
  <2>2. \A i \in DOMAIN out' : i \in Nat \ {0} /\ i + 1 \in DOMAIN out /\ out'[i] = out[i + 1]
    BY <2>1, TailList
  <2> QED
    BY <2>1, <2>2 DEF OutInv
<1>3. CASE UNCHANGED vars
  BY <1>3 DEF vars, OutInv
<1> QED
  BY <1>1, <1>2, <1>3 DEF Next, Terminated

(* What is taken from a pipe, and what is left.                            *)
LEMMA TakeStep ==
  ASSUME TypeOK, SysInv, NEW w \in Worker, Takes(w), UNCHANGED vars
  PROVE  /\ pipe' \in [Worker -> Seq(Command)]
         /\ \A v \in Worker : Len(pipe'[v]) <= HighWaterMark
         /\ Head(pipe[w]) \in Command /\ ForUe(Head(pipe[w]))
         /\ Head(pipe[w]).to = w
         /\ \A v \in Worker :
              /\ \A i \in DOMAIN pipe'[v] : ForUe(pipe'[v][i]) /\ pipe'[v][i].to = v
              /\ \A i \in DOMAIN pipe'[v] :
                   pipe'[v][i].type = "EXIT" => i = Len(pipe'[v]) /\ Told(v)'
         /\ Head(pipe[w]).type = "EXIT" => pipe'[w] = <<>> /\ Told(w)'
         /\ \A v \in Worker : v # w => pipe'[v] = pipe[v]
<1>1. /\ pipe \in [Worker -> Seq(Command)] /\ HighWaterMark \in Nat
      /\ \A v \in Worker : Len(pipe[v]) \in Nat /\ Len(pipe[v]) <= HighWaterMark
  BY WorkerTypes DEF SysInv
<1>2. /\ pipe[w] \in Seq(Command) /\ pipe[w] # <<>>
      /\ pipe'[w] = Tail(pipe[w])
      /\ \A v \in Worker : v # w => pipe'[v] = pipe[v]
  BY <1>1 DEF Takes
<1>3. /\ Tail(pipe[w]) \in Seq(Command)
      /\ Head(pipe[w]) = pipe[w][1] /\ 1 \in DOMAIN pipe[w]
      /\ Head(pipe[w]) \in Command
      /\ Len(Tail(pipe[w])) = Len(pipe[w]) - 1
      /\ \A i \in DOMAIN Tail(pipe[w]) :
           /\ i \in Nat /\ i + 1 \in DOMAIN pipe[w]
           /\ Tail(pipe[w])[i] = pipe[w][i + 1]
  BY <1>2, TailList
<1>4. pipe' \in [Worker -> Seq(Command)]
  BY <1>1, <1>3 DEF Takes
<1>5. \A v \in Worker : Len(pipe'[v]) <= HighWaterMark
  BY <1>1, <1>2, <1>3
<1>6. \A v : Told(v)' <=> Told(v)
  BY DEF Told, vars
<1>7. \A v \in Worker : PipeInv(v)
  BY DEF SysInv
<1>8. ASSUME NEW v \in Worker, v # w
      PROVE  /\ \A i \in DOMAIN pipe'[v] : ForUe(pipe'[v][i]) /\ pipe'[v][i].to = v
             /\ \A i \in DOMAIN pipe'[v] :
                  pipe'[v][i].type = "EXIT" => i = Len(pipe'[v]) /\ Told(v)'
  BY <1>2, <1>6, <1>7, <1>8 DEF PipeInv
<1>9. /\ \A i \in DOMAIN pipe'[w] : ForUe(pipe'[w][i]) /\ pipe'[w][i].to = w
      /\ \A i \in DOMAIN pipe'[w] :
           pipe'[w][i].type = "EXIT" => i = Len(pipe'[w]) /\ Told(w)'
  BY <1>1, <1>2, <1>3, <1>6, <1>7 DEF PipeInv
<1>10. ASSUME Head(pipe[w]).type = "EXIT"
       PROVE  pipe'[w] = <<>> /\ Told(w)'
  <2>1. Len(pipe[w]) = 1 /\ Told(w)
    BY <1>3, <1>7, <1>10 DEF PipeInv
  <2>2. Len(Tail(pipe[w])) = 0
    BY <1>3, <2>1
  <2> QED
    BY <1>2, <1>3, <1>6, <2>1, <2>2, EmptySeq
<1>11. ForUe(Head(pipe[w])) /\ Head(pipe[w]).to = w
  BY <1>3, <1>7 DEF PipeInv
<1> QED
  BY <1>2, <1>3, <1>4, <1>5, <1>8, <1>9, <1>10, <1>11

(* The pipe of a process that took no part.                                *)
LEMMA PipeFrame ==
  ASSUME NEW w, PipeInv(w), pipe'[w] = pipe[w], pc'[w] = pc[w],
         Told(w) => Told(w)'
  PROVE  PipeInv(w)'
BY DEF PipeInv

LEMMA HandlerStep ==
  ASSUME SysInv, NEW e \in events, Handler(e), UNCHANGED workerVars
  PROVE  W!TypeOK' /\ \A w \in Worker : PipeInv(w)' /\ CamerasInv(w)'
<1>1. W!TypeOK'
  BY DEF SysInv, W!TypeOK, workerVars
<1>2. ASSUME NEW w \in Worker
      PROVE  PipeInv(w)' /\ CamerasInv(w)'
  <2>1. ~Told(w)
    BY HandlerSends DEF Told
  <2>2. PipeInv(w) /\ CamerasInv(w)
    BY DEF SysInv
  <2>3. pipe'[w] = pipe[w] /\ pc'[w] = pc[w] /\ cameras'[w] = cameras[w]
    BY DEF workerVars
  <2> QED
    BY <2>1, <2>2, <2>3, PipeFrame DEF CamerasInv
<1> QED
  BY <1>1, <1>2

(* ZeroMQ takes a command: EXIT only when the pipe holds none, and then    *)
(* nothing more is to come.                                                *)
LEMMA AcceptStep ==
  ASSUME TypeOK, SysInv, Send, W!Accept(Head(out).to, Head(out))
  PROVE  W!TypeOK' /\ \A w \in Worker : PipeInv(w)' /\ CamerasInv(w)'
<1>0. PICK c, v : c = Head(out) /\ v = c.to
  OBVIOUS
<1>1. /\ out # <<>> /\ out \in Seq(Command)
      /\ out' = Tail(out) /\ running' = running
  BY DEF Send, TypeOK
<1>2. /\ c \in Command /\ c = out[1] /\ 1 \in DOMAIN out
      /\ \A i \in DOMAIN out' : i \in Nat \ {0} /\ i + 1 \in DOMAIN out /\ out'[i] = out[i + 1]
  BY <1>0, <1>1, TailList
<1>3. v \in Worker
  BY <1>0, <1>2 DEF Command
<1>4. /\ pc[v] \in {"loop", "closing"} /\ Len(pipe[v]) < HighWaterMark
      /\ pipe' = [pipe EXCEPT ![v] = Append(@, c)]
      /\ UNCHANGED <<setup_, pc, cameras>>
  BY <1>0 DEF W!Accept
<1>5. /\ pipe \in [Worker -> Seq(Command)] /\ HighWaterMark \in Nat
      /\ \A w \in Worker : Len(pipe[w]) \in Nat /\ Len(pipe[w]) <= HighWaterMark
  BY WorkerTypes DEF SysInv
<1>6. /\ pipe'[v] = Append(pipe[v], c)
      /\ \A w \in Worker : w # v => pipe'[w] = pipe[w]
  BY <1>3, <1>4, <1>5
<1>7. /\ Append(pipe[v], c) \in Seq(Command)
      /\ Len(Append(pipe[v], c)) = Len(pipe[v]) + 1
      /\ \A i \in DOMAIN pipe'[v] :
           \/ i \in DOMAIN pipe[v] /\ pipe'[v][i] = pipe[v][i]
           \/ i = Len(pipe[v]) + 1 /\ pipe'[v][i] = c
  BY <1>2, <1>3, <1>5, <1>6, AppendList
<1>8. W!TypeOK'
  <2>1. pipe' \in [Worker -> Seq(Command)]
    BY <1>3, <1>4, <1>5, <1>7
  <2>2. \A w \in Worker : Len(pipe'[w]) <= HighWaterMark
    BY <1>4, <1>5, <1>6, <1>7
  <2> QED
    BY <1>4, <2>1, <2>2, SameWorkers DEF SysInv, W!TypeOK
<1>9. c.to = v
  BY <1>0
<1>10. /\ ~Told(v)
       /\ \A w : Told(w) => Told(w)'
       /\ c.type = "EXIT" => Told(v)'
  <2>1. ~Told(v)
    BY <1>2, <1>9 DEF Told
  <2>2. \A w : Told(w) => Told(w)'
    BY <1>1, <1>2 DEF Told
  <2>3. ASSUME c.type = "EXIT"
        PROVE  Told(v)'
    <3>1. ~running /\ \A i \in DOMAIN out : out[1].to = out[i].to => 1 = i
      BY <1>2, <2>3 DEF SysInv, OutInv
    <3>2. \A i \in DOMAIN out' : out'[i].to # v
      BY <1>2, <1>9, <3>1
    <3> QED
      BY <1>1, <3>1, <3>2 DEF Told
  <2> QED
    BY <2>1, <2>2, <2>3
<1>11. ForUe(c)
  BY <1>2 DEF SysInv, OutInv
<1>12. PipeInv(v)'
  <2>1. PipeInv(v)
    BY <1>3 DEF SysInv
  <2>2. \A i \in DOMAIN pipe'[v] : ForUe(pipe'[v][i]) /\ pipe'[v][i].to = v
    BY <1>7, <1>9, <1>11, <2>1 DEF PipeInv
  <2>3. \A i \in DOMAIN pipe'[v] :
          pipe'[v][i].type = "EXIT" => i = Len(pipe'[v]) /\ Told(v)'
    BY <1>6, <1>7, <1>10, <2>1 DEF PipeInv
  <2>4. pc'[v] \notin {"exiting", "exited"}
    BY <1>4
  <2> QED
    BY <2>2, <2>3, <2>4 DEF PipeInv
<1>13. ASSUME NEW w \in Worker
       PROVE  PipeInv(w)' /\ CamerasInv(w)'
  <2>1. PipeInv(w) /\ CamerasInv(w)
    BY DEF SysInv
  <2>2. CamerasInv(w)'
    BY <1>4, <2>1 DEF CamerasInv
  <2>3. CASE w = v
    BY <1>12, <2>2, <2>3
  <2>4. CASE w # v
    BY <1>4, <1>6, <1>10, <2>1, <2>2, <2>4, PipeFrame
  <2> QED
    BY <2>3, <2>4
<1> QED
  BY <1>8, <1>13

(* A process that takes a command and goes on to at and has n pipelines.   *)
LEMMA WorkerTakes ==
  ASSUME TypeOK, SysInv, NEW w \in Worker, Takes(w), UNCHANGED <<vars, setup_>>,
         NEW at \in W!Location, NEW n \in Nat,
         pc' = [pc EXCEPT ![w] = at], cameras' = [cameras EXCEPT ![w] = n],
         at \in {"loop", "closing"} \/ Head(pipe[w]).type = "EXIT",
         /\ at \in {"starting", "exited", "crashed"} => n = 0
         /\ at = "loop" => n \in {0, 1}
         /\ at = "closing" => n \in {1, 2}
         /\ at = "exiting" => n = 1
  PROVE  W!TypeOK' /\ \A v \in Worker : PipeInv(v)' /\ CamerasInv(v)'
<1>1. /\ pc \in [Worker -> W!Location] /\ cameras \in [Worker -> Nat]
      /\ setup_ \in Setups
  BY WorkerTypes DEF SysInv
<1>2. W!TypeOK'
  BY <1>1, TakeStep, SameWorkers DEF W!TypeOK
<1>3. pc'[w] = at /\ cameras'[w] = n
  BY <1>1
<1>4. PipeInv(w)'
  BY <1>3, TakeStep DEF PipeInv
<1>5. CamerasInv(w)'
  BY <1>3 DEF CamerasInv
<1>6. ASSUME NEW v \in Worker, v # w
      PROVE  PipeInv(v)' /\ CamerasInv(v)'
  <2>1. PipeInv(v) /\ CamerasInv(v)
    BY DEF SysInv
  <2>2. pc'[v] = pc[v] /\ cameras'[v] = cameras[v]
    BY <1>1, <1>6
  <2>3. pipe'[v] = pipe[v]
    BY <1>6, TakeStep
  <2>4. Told(v)' = Told(v)
    BY DEF Told, vars
  <2> QED
    BY <2>1, <2>2, <2>3, <2>4, PipeFrame DEF CamerasInv
<1> QED
  BY <1>2, <1>4, <1>5, <1>6

(* A process that takes none.                                              *)
LEMMA WorkerMoves ==
  ASSUME SysInv, NEW w \in Worker, UNCHANGED <<vars, setup_>>,
         NEW at \in W!Location, NEW n \in Nat,
         pc' = [pc EXCEPT ![w] = at], cameras' = [cameras EXCEPT ![w] = n],
         pipe' = pipe \/ pipe' = [pipe EXCEPT ![w] = <<>>],
         at \in {"exiting", "exited"} => pc[w] = "exiting",
         /\ at \in {"starting", "exited", "crashed"} => n = 0
         /\ at = "loop" => n \in {0, 1}
         /\ at = "closing" => n \in {1, 2}
         /\ at = "exiting" => n = 1
  PROVE  W!TypeOK' /\ \A v \in Worker : PipeInv(v)' /\ CamerasInv(v)'
<1>1. /\ pc \in [Worker -> W!Location] /\ cameras \in [Worker -> Nat]
      /\ pipe \in [Worker -> Seq(Command)] /\ HighWaterMark \in Nat
      /\ \A v \in Worker : Len(pipe[v]) \in Nat /\ Len(pipe[v]) <= HighWaterMark
      /\ setup_ \in Setups
  BY WorkerTypes DEF SysInv
<1>2. <<>> \in Seq(Command) /\ Len(<<>>) = 0
  BY EmptySeq
<1>3. W!TypeOK'
  <2>1. pipe' \in [Worker -> Seq(Command)]
    BY <1>1, <1>2
  <2>2. \A v \in Worker : pipe'[v] = pipe[v] \/ pipe'[v] = <<>>
    BY <1>1
  <2>3. \A v \in Worker : Len(pipe'[v]) <= HighWaterMark
    BY <1>1, <1>2, <2>2
  <2> QED
    BY <1>1, <2>1, <2>3, SameWorkers DEF W!TypeOK
<1>4. ASSUME NEW v \in Worker
      PROVE  PipeInv(v)' /\ CamerasInv(v)'
  <2>1. PipeInv(v) /\ CamerasInv(v)
    BY DEF SysInv
  <2>2. Told(v)' = Told(v)
    BY DEF Told, vars
  <2>3. pipe'[v] = pipe[v] \/ pipe'[v] = <<>>
    BY <1>1
  <2>4. DOMAIN <<>> = {}
    OBVIOUS
  <2>5. pc'[v] \in {"exiting", "exited"} => pc[v] \in {"exiting", "exited"}
    BY <1>1
  <2>6. PipeInv(v)'
    <3>1. CASE pipe'[v] = pipe[v]
      BY <2>1, <2>2, <2>5, <3>1 DEF PipeInv
    <3>2. CASE pipe'[v] = <<>>
      BY <2>1, <2>2, <2>4, <2>5, <3>2 DEF PipeInv
    <3> QED
      BY <2>3, <3>1, <3>2
  <2>7. CamerasInv(v)'
    BY <1>1, <2>1 DEF CamerasInv
  <2> QED
    BY <2>6, <2>7
<1> QED
  BY <1>3, <1>4

LEMMA WorkerStep ==
  ASSUME TypeOK, SysInv, NEW w \in Worker, W!Step(w), UNCHANGED vars
  PROVE  W!TypeOK' /\ \A v \in Worker : PipeInv(v)' /\ CamerasInv(v)'
<1> DEFINE c == Head(pipe[w])
<1>1. /\ pc \in [Worker -> W!Location] /\ cameras \in [Worker -> Nat]
      /\ pipe \in [Worker -> Seq(Command)]
  BY WorkerTypes DEF SysInv
<1>2. PipeInv(w) /\ CamerasInv(w)
  BY DEF SysInv
<1>3. setup_' = setup_
  BY WorkerSteps
<1>4. /\ pc = [pc EXCEPT ![w] = pc[w]] /\ cameras = [cameras EXCEPT ![w] = cameras[w]]
      /\ cameras[w] \in Nat
      /\ {"loop", "closing", "exiting", "exited", "crashed"} \subseteq W!Location
  BY <1>1 DEF W!Location
<1>5. CASE pc[w] = "starting" /\ pc' = [pc EXCEPT ![w] = "loop"]
           /\ UNCHANGED <<pipe, cameras>>
  BY <1>2, <1>3, <1>4, <1>5, WorkerMoves DEF CamerasInv
<1>6. CASE W!StartFails(w)
  BY <1>2, <1>3, <1>4, <1>6, WorkerMoves DEF CamerasInv, W!StartFails
<1>7. CASE Takes(w) /\ UNCHANGED <<pc, cameras>>
  BY <1>2, <1>3, <1>4, <1>7, WorkerTakes DEF CamerasInv, Takes
<1>8. CASE Takes(w) /\ W!StartVideo(w, c)
  <2>1. pc[w] = "loop" /\ cameras[w] \in {0, 1}
    BY <1>2, <1>8 DEF CamerasInv, Takes
  <2>2. /\ cameras' = [cameras EXCEPT ![w] = cameras[w] + 1]
        /\ pc' = [pc EXCEPT ![w] = IF cameras[w] > 0 THEN "closing" ELSE "loop"]
    BY <1>8, <2>1 DEF W!StartVideo
  <2>3. CASE cameras[w] = 0
    <3>1. /\ pc' = [pc EXCEPT ![w] = "loop"]
          /\ cameras' = [cameras EXCEPT ![w] = 1]
      BY <2>2, <2>3
    <3> QED
      BY <1>3, <1>4, <1>8, <3>1, WorkerTakes
  <2>4. CASE cameras[w] = 1
    <3>1. /\ pc' = [pc EXCEPT ![w] = "closing"]
          /\ cameras' = [cameras EXCEPT ![w] = 2]
      BY <2>2, <2>4
    <3> QED
      BY <1>3, <1>4, <1>8, <3>1, WorkerTakes
  <2> QED
    BY <2>1, <2>3, <2>4
<1>9. CASE Takes(w) /\ W!StopVideo(w, c)
  <2>1. pc[w] = "loop" /\ cameras[w] \in {0, 1}
    BY <1>2, <1>9 DEF CamerasInv, Takes
  <2>2. /\ cameras' = [cameras EXCEPT ![w] = cameras[w]]
        /\ pc' = [pc EXCEPT ![w] = IF cameras[w] > 0 THEN "closing" ELSE "loop"]
    BY <1>4, <1>9, <2>1 DEF W!StopVideo
  <2>3. CASE cameras[w] = 0
    <3>1. /\ pc' = [pc EXCEPT ![w] = "loop"]
          /\ cameras' = [cameras EXCEPT ![w] = 0]
      BY <2>2, <2>3
    <3> QED
      BY <1>3, <1>4, <1>9, <3>1, WorkerTakes
  <2>4. CASE cameras[w] = 1
    <3>1. /\ pc' = [pc EXCEPT ![w] = "closing"]
          /\ cameras' = [cameras EXCEPT ![w] = 1]
      BY <2>2, <2>4
    <3> QED
      BY <1>3, <1>4, <1>9, <3>1, WorkerTakes
  <2> QED
    BY <2>1, <2>3, <2>4
<1>10. CASE Takes(w) /\ W!Exit(w, c)
  <2>1. pc[w] = "loop" /\ cameras[w] \in {0, 1}
    BY <1>2, <1>10 DEF CamerasInv, Takes
  <2>2. /\ cameras' = [cameras EXCEPT ![w] = cameras[w]]
        /\ pc' = [pc EXCEPT ![w] = IF cameras[w] > 0 THEN "exiting" ELSE "exited"]
        /\ c.type = "EXIT"
    BY <1>4, <1>10, <2>1 DEF W!Exit
  <2>3. CASE cameras[w] = 0
    <3>1. /\ pc' = [pc EXCEPT ![w] = "exited"]
          /\ cameras' = [cameras EXCEPT ![w] = 0]
      BY <2>2, <2>3
    <3> QED
      BY <1>3, <1>4, <1>10, <2>2, <3>1, WorkerTakes
  <2>4. CASE cameras[w] = 1
    <3>1. /\ pc' = [pc EXCEPT ![w] = "exiting"]
          /\ cameras' = [cameras EXCEPT ![w] = 1]
      BY <2>2, <2>4
    <3> QED
      BY <1>3, <1>4, <1>10, <2>2, <3>1, WorkerTakes
  <2> QED
    BY <2>1, <2>3, <2>4
<1>11. CASE W!Crash(w, c)
  <2>1. /\ pc' = [pc EXCEPT ![w] = "crashed"]
        /\ pipe' = [pipe EXCEPT ![w] = <<>>]
        /\ cameras' = [cameras EXCEPT ![w] = 0]
    BY <1>11 DEF W!Crash
  <2> QED
    BY <1>3, <1>4, <2>1, WorkerMoves
<1>12. CASE W!CameraClosed(w)
  <2>0. pipe' = pipe
    BY <1>12 DEF W!CameraClosed
  <2>1. /\ pc[w] \in {"closing", "exiting"}
        /\ cameras' = [cameras EXCEPT ![w] = cameras[w] - 1]
        /\ pc' = [pc EXCEPT ![w] = IF pc[w] = "closing" THEN "loop" ELSE "exited"]
    BY <1>12 DEF W!CameraClosed
  <2>2. /\ pc[w] = "closing" => cameras[w] \in {1, 2}
        /\ pc[w] = "exiting" => cameras[w] = 1
    BY <1>2 DEF CamerasInv
  <2>3. CASE pc[w] = "closing"
    <3>1. pc' = [pc EXCEPT ![w] = "loop"]
      BY <2>1, <2>3
    <3>2. CASE cameras[w] = 1
      <4>1. cameras' = [cameras EXCEPT ![w] = 0]
        BY <2>1, <3>2
      <4> QED
        BY <1>3, <1>4, <2>0, <3>1, <4>1, WorkerMoves
    <3>3. CASE cameras[w] = 2
      <4>1. cameras' = [cameras EXCEPT ![w] = 1]
        BY <2>1, <3>3
      <4> QED
        BY <1>3, <1>4, <2>0, <3>1, <4>1, WorkerMoves
    <3> QED
      BY <2>2, <2>3, <3>2, <3>3
  <2>4. CASE pc[w] = "exiting"
    <3>1. /\ pc' = [pc EXCEPT ![w] = "exited"]
          /\ cameras' = [cameras EXCEPT ![w] = 0]
      <4>1. cameras[w] = 1 /\ cameras[w] - 1 = 0
        BY <2>2, <2>4
      <4> QED
        BY <2>1, <2>4, <4>1
    <3> QED
      BY <1>3, <1>4, <2>0, <2>4, <3>1, WorkerMoves
  <2> QED
    BY <2>1, <2>3, <2>4
<1> QED
  BY <1>5, <1>6, <1>7, <1>8, <1>9, <1>10, <1>11, <1>12, WorkerSteps

LEMMA SysInvStep ==
  ASSUME TypeOK, SysInv, [SysNext]_sysVars
  PROVE  SysInv'
<1>1. OutInv'
  BY ControllerStep, OutInvStep DEF SysInv
<1>2. W!TypeOK' /\ \A w \in Worker : PipeInv(w)' /\ CamerasInv(w)'
  <2>1. CASE UNCHANGED vars /\ UNCHANGED workerVars
    BY <2>1
    DEF SysInv, vars, workerVars, W!TypeOK, PipeInv, CamerasInv, Told
  <2> QED
    BY <2>1, SysSteps, HandlerStep, AcceptStep, WorkerStep
<1> QED
  BY <1>1, <1>2 DEF SysInv

THEOREM SystemInvariant == SysSpec => []SysInv
<1>1. SysInit => SysInv
  BY InitSys
<1>2. TypeOK /\ SysInv /\ [SysNext]_sysVars => SysInv'
  BY SysInvStep
<1>3. SysSpec => []TypeOK
  BY ControllerInSystem, TypeCorrect, PTL
<1> QED
  BY <1>1, <1>2, <1>3, PTL DEF SysSpec

(* No pipe ever holds more than its high-water mark, and no process        *)
(* destroys a camera it does not have.                                     *)
THEOREM WorkersTyped == SysSpec => []WorkersTypeOK
<1>1. SysInv => WorkersTypeOK
  BY DEF SysInv, WorkersTypeOK
<1> QED
  BY <1>1, SystemInvariant, PTL

(* Whatever the setup, crashes included: a process leaves its loop only    *)
(* when the simulation is over, having taken all it was sent, and no video *)
(* of it runs.                                                             *)
THEOREM CleanExits == SysSpec => []CleanExit
<1>1. TypeOK /\ SysInv => CleanExit
  <2> SUFFICES ASSUME TypeOK, SysInv, NEW w \in Worker, pc[w] = "exited"
               PROVE  /\ ~running /\ pipe[w] = <<>> /\ cameras[w] = 0
                      /\ \A i \in 1 .. Len(out) : out[i].to # w
    BY DEF CleanExit
  <2>1. PipeInv(w) /\ CamerasInv(w)
    BY DEF SysInv
  <2>2. DOMAIN out = 1 .. Len(out)
    BY LenProperties DEF TypeOK
  <2> QED
    BY <2>1, <2>2 DEF PipeInv, CamerasInv, Told
<1>2. SysSpec => []TypeOK
  BY ControllerInSystem, TypeCorrect, PTL
<1> QED
  BY <1>1, <1>2, SystemInvariant, PTL

-------------------------------------------------------------------------------
(* Nothing crashes.                                                        *)

(* Video commands go to the process with the camera.                       *)
LEMMA VideoHasCamera ==
  ASSUME TypeOK, SysInv, NEW w \in Worker, pipe[w] # <<>>,
         Head(pipe[w]).type \in VideoType
  PROVE  W!use_camera(w)
<1> DEFINE c == Head(pipe[w])
<1>1. pipe[w] \in Seq(Command)
  BY WorkerTypes DEF SysInv
<1>2. c = pipe[w][1] /\ 1 \in DOMAIN pipe[w]
  BY <1>1, TailList
<1>3. PipeInv(w)
  BY DEF SysInv
<1>4. ForUe(c) /\ c.to = w
  BY <1>2, <1>3 DEF PipeInv
<1>5. W!use_camera("ue")
  BY DEF W!use_camera, W!Main, W!Program, W!ue_mqtt, W!ue_zenoh
<1> QED
  BY <1>4, <1>5 DEF ForUe

(* No publishers are declared ahead: every topic can be published.         *)
LEMMA NothingThrows ==
  ASSUME ~setup_.lossy, ~(setup_.stack = "zenoh" /\ setup_.predeclare_publisher),
         TypeOK, SysInv, NEW w \in Worker, pipe[w] # <<>>
  PROVE  ~W!Throws(w, Head(pipe[w]))
<1> DEFINE c == Head(pipe[w])
<1>2. setup_ \in W!Setup
  BY WorkerTypes, WorkersAssumption DEF SysInv, W!SetupsAssumption
<1>3. W!Declared(w, c.type) = {}
  <2>1. CASE setup_.stack = "zenoh"
    BY <2>1 DEF W!Declared
  <2>2. CASE setup_.stack = "mqtt"
    BY <2>2 DEF W!Declared, W!Main, W!Program, W!ue_mqtt, W!base_mqtt
  <2> QED
    BY <1>2, <2>1, <2>2 DEF W!Setup
<1>4. W!Publishable(w, c)
  BY <1>3 DEF W!Publishable
<1> QED
  BY <1>4, VideoHasCamera DEF W!Throws, VideoType

LEMMA NoCrashStep ==
  ASSUME SysInv, NoCrash, [SysNext]_sysVars, ~setup_.lossy,
         \A w \in Worker : pipe[w] # <<>> => ~W!Throws(w, Head(pipe[w]))
  PROVE  NoCrash'
<1>1. pc \in [Worker -> W!Location]
  BY WorkerTypes DEF SysInv
<1>2. ASSUME NEW w \in Worker, W!Step(w)
      PROVE  \E at : at # "crashed" /\ pc' = [pc EXCEPT ![w] = at]
  <2>1. ~W!StartFails(w) /\ ~W!Crash(w, Head(pipe[w]))
    BY DEF W!StartFails, W!Crash
  <2>2. CASE UNCHANGED pc
    <3>1. pc' = [pc EXCEPT ![w] = pc[w]] /\ pc[w] # "crashed"
      BY <1>1, <2>2 DEF NoCrash
    <3> QED
      BY <3>1
  <2>3. CASE \/ W!StartVideo(w, Head(pipe[w])) \/ W!StopVideo(w, Head(pipe[w]))
             \/ W!Exit(w, Head(pipe[w])) \/ W!CameraClosed(w)
    BY <1>1, <2>3 DEF NoCrash, W!StartVideo, W!StopVideo, W!Exit, W!CameraClosed
  <2> QED
    BY <1>2, <2>1, <2>2, <2>3, WorkerSteps
<1>3. CASE UNCHANGED pc
  BY <1>3 DEF NoCrash
<1> QED
  BY <1>1, <1>2, <1>3, SysSteps DEF NoCrash, workerVars, W!Accept

-------------------------------------------------------------------------------
(* Nobody waits for ever.                                                  *)

(* A process that still runs when the simulation is over has its EXIT in   *)
(* its pipe, or it has yet to be sent.                                     *)
ExitAhead(w) ==
  ~running /\ pc[w] \in {"starting", "loop", "closing"} =>
    \/ \E i \in DOMAIN out : out[i].to = w
    \/ \E i \in DOMAIN pipe[w] : pipe[w][i].type = "EXIT"

LEMMA ExitStays ==
  ASSUME NEW w, ExitAhead(w), UNCHANGED <<running, out>>, pipe'[w] = pipe[w],
         \/ pc'[w] \notin {"starting", "loop", "closing"}
         \/ pc[w] \in {"starting", "loop", "closing"}
  PROVE  ExitAhead(w)'
BY DEF ExitAhead

LEMMA HandlerExit ==
  ASSUME NEW e \in events, Handler(e), NEW w \in Worker
  PROVE  ExitAhead(w)'
<1>1. ASSUME NEW c, NEW d, out' = <<c, d>>, c.to = "ue", d.to = "base"
      PROVE  ExitAhead(w)'
  <2>0. out' = <<c, d>>
    BY <1>1
  <2>1. DOMAIN out' = {1, 2} /\ out'[1] = c /\ out'[2] = d
    BY <2>0, TwoList
  <2> QED
    BY <1>1, <2>1 DEF ExitAhead, Worker
<1> QED
  BY <1>1, HandlerSends DEF ExitAhead

LEMMA AcceptExit ==
  ASSUME TypeOK, SysInv, Send, W!Accept(Head(out).to, Head(out)),
         NEW w \in Worker, ExitAhead(w)
  PROVE  ExitAhead(w)'
<1> DEFINE v == Head(out).to
<1>1. /\ out # <<>> /\ out \in Seq(Command)
      /\ out' = Tail(out) /\ running' = running
  BY DEF Send, TypeOK
<1>2. /\ Head(out) \in Command /\ Head(out) = out[1] /\ 1 \in DOMAIN out
      /\ Len(out') = Len(out) - 1 /\ Len(out) \in Nat
      /\ \A i \in DOMAIN out' : out'[i] = out[i + 1]
  BY <1>1, TailList
<1>3. DOMAIN out' = 1 .. Len(out') /\ DOMAIN out = 1 .. Len(out)
  BY <1>1, HeadTailProperties, LenProperties
<1>4. /\ pipe \in [Worker -> Seq(Command)] /\ v \in Worker
  BY <1>2, WorkerTypes DEF SysInv, Command
<1>5. pipe' = [pipe EXCEPT ![v] = Append(@, Head(out))] /\ pc' = pc
  BY DEF W!Accept
<1> SUFFICES ASSUME ~running', pc'[w] \in {"starting", "loop", "closing"}
             PROVE  \/ \E i \in DOMAIN out' : out'[i].to = w
                    \/ \E i \in DOMAIN pipe'[w] : pipe'[w][i].type = "EXIT"
  BY DEF ExitAhead
<1>6. \/ \E i \in DOMAIN out : out[i].to = w
      \/ \E i \in DOMAIN pipe[w] : pipe[w][i].type = "EXIT"
  BY <1>1, <1>5 DEF ExitAhead
<1>7. Head(out).type = "EXIT"
  BY <1>1, <1>2 DEF SysInv, OutInv
<1>8. /\ pipe[w] \in Seq(Command)
      /\ Len(pipe[w]) \in Nat /\ DOMAIN pipe[w] = 1 .. Len(pipe[w])
  BY <1>4, LenProperties
<1>9. CASE w = v
  <2>1. pipe'[w] = Append(pipe[w], Head(out))
    BY <1>4, <1>5, <1>9
  <2>2. /\ DOMAIN Append(pipe[w], Head(out)) = 1 .. Len(pipe[w]) + 1
        /\ Append(pipe[w], Head(out))[Len(pipe[w]) + 1] = Head(out)
    BY <1>2, <1>8
  <2> QED
    BY <1>7, <1>8, <2>1, <2>2
<1>10. CASE w # v
  <2>1. pipe'[w] = pipe[w]
    BY <1>4, <1>5, <1>10
  <2>2. ASSUME NEW i \in DOMAIN out, out[i].to = w
        PROVE  \E j \in DOMAIN out' : out'[j].to = w
    <3>1. i # 1
      BY <1>2, <1>10, <2>2
    <3>2. i - 1 \in DOMAIN out' /\ (i - 1) + 1 = i
      BY <1>2, <1>3, <3>1
    <3> QED
      BY <1>2, <2>2, <3>2
  <2> QED
    BY <1>6, <2>1, <2>2
<1> QED
  BY <1>9, <1>10

(* The EXIT stays in the pipe until it is what is taken.                   *)
LEMMA TakesExit ==
  ASSUME SysInv, NEW w \in Worker, Takes(w), UNCHANGED vars, ExitAhead(w),
         Head(pipe[w]).type # "EXIT"
  PROVE  ExitAhead(w)'
<1>1. /\ pipe \in [Worker -> Seq(Command)] /\ pipe[w] \in Seq(Command)
      /\ pipe[w] # <<>> /\ pc[w] = "loop"
  BY WorkerTypes DEF SysInv, Takes
<1>2. pipe'[w] = Tail(pipe[w])
  BY <1>1 DEF Takes
<1>3. /\ Head(pipe[w]) = pipe[w][1] /\ Len(pipe'[w]) = Len(pipe[w]) - 1
      /\ Len(pipe[w]) \in Nat /\ \A i \in DOMAIN pipe'[w] : pipe'[w][i] = pipe[w][i + 1]
  BY <1>1, <1>2, TailList
<1>4. DOMAIN pipe'[w] = 1 .. Len(pipe'[w]) /\ DOMAIN pipe[w] = 1 .. Len(pipe[w])
  BY <1>1, <1>2, HeadTailProperties, LenProperties
<1>5. out' = out /\ running' = running
  BY DEF vars
<1>6. ASSUME NEW i \in DOMAIN pipe[w], pipe[w][i].type = "EXIT"
      PROVE  \E j \in DOMAIN pipe'[w] : pipe'[w][j].type = "EXIT"
  <2>1. i # 1
    BY <1>3, <1>6
  <2>2. i - 1 \in DOMAIN pipe'[w] /\ (i - 1) + 1 = i
    BY <1>3, <1>4, <2>1
  <2> QED
    BY <1>3, <1>6, <2>2
<1> QED
  BY <1>1, <1>5, <1>6 DEF ExitAhead

LEMMA WorkerExit ==
  ASSUME SysInv, NEW v \in Worker, W!Step(v), UNCHANGED vars,
         NEW w \in Worker, ExitAhead(w)
  PROVE  ExitAhead(w)'
<1>1. pc \in [Worker -> W!Location] /\ pipe \in [Worker -> Seq(Command)]
  BY WorkerTypes DEF SysInv
<1>2. out' = out /\ running' = running
  BY DEF vars
<1>3. CASE w # v
  <2>1. pipe'[w] = pipe[w] /\ pc'[w] = pc[w]
    BY <1>1, <1>3, WorkerSteps
    DEF Takes, W!StartFails, W!StartVideo, W!StopVideo, W!Exit, W!Crash,
        W!CameraClosed
  <2> QED
    BY <1>2, <2>1, ExitStays
<1>4. CASE w = v
  <2>1. CASE pc[w] = "starting" /\ UNCHANGED pipe
    BY <1>2, <2>1, ExitStays
  <2>2. CASE W!StartFails(w) \/ W!Crash(w, Head(pipe[w])) \/ W!Exit(w, Head(pipe[w]))
    <3>1. pc'[w] \notin {"starting", "loop", "closing"}
      BY <1>1, <2>2 DEF W!StartFails, W!Crash, W!Exit
    <3> QED
      BY <3>1 DEF ExitAhead
  <2>3. CASE /\ Takes(w)
             /\ \/ Head(pipe[w]).type \in Publishing
                \/ W!StartVideo(w, Head(pipe[w])) \/ W!StopVideo(w, Head(pipe[w]))
    <3>1. Head(pipe[w]).type # "EXIT"
      BY <2>3 DEF Publishing, W!StartVideo, W!StopVideo
    <3> QED
      BY <2>3, <3>1, TakesExit
  <2>4. CASE W!CameraClosed(w)
    <3>1. /\ pipe' = pipe
          /\ \/ pc[w] = "closing"
             \/ pc[w] = "exiting" /\ pc'[w] = "exited"
      BY <1>1, <2>4 DEF W!CameraClosed
    <3> QED
      BY <1>2, <3>1, ExitStays
  <2> QED
    BY <1>4, <2>1, <2>2, <2>3, <2>4, WorkerSteps
<1> QED
  BY <1>3, <1>4

LEMMA ExitStep ==
  /\ TypeOK /\ SysInv /\ (\A w \in Worker : ExitAhead(w))
  /\ [SysNext]_sysVars
  => (\A w \in Worker : ExitAhead(w))'
<1> SUFFICES ASSUME TypeOK, SysInv, \A v \in Worker : ExitAhead(v),
                    [SysNext]_sysVars, NEW w \in Worker
             PROVE  ExitAhead(w)'
  BY DEF Worker
<1>1. CASE UNCHANGED vars /\ UNCHANGED workerVars
  BY <1>1 DEF vars, workerVars, ExitAhead
<1> QED
  BY <1>1, SysSteps, HandlerExit, AcceptExit, WorkerExit

(* A process that runs when the simulation is over is told to exit.        *)
THEOREM ExitInvariant == SysSpec => [](\A w \in Worker : ExitAhead(w))
<1>1. SysInit => \A w \in Worker : ExitAhead(w)
  BY DEF SysInit, Init, ExitAhead
<1>2. SysSpec => []TypeOK
  BY ControllerInSystem, TypeCorrect, PTL
<1> QED
  BY <1>1, <1>2, ExitStep, SystemInvariant, PTL DEF SysSpec

(* Of numbers there is a least, so that there is always an event to run    *)
(* next.                                                                   *)
LEMMA LeastNumber ==
  ASSUME NEW S \in SUBSET Nat, S # {}
  PROVE  \E x \in S : \A y \in S : x <= y
<1> DEFINE F == {0 .. x : x \in S}
           R == StrictSubsetOrdering(Nat)
<1>1. IsWellFoundedOn(R, FiniteSubsetsOf(Nat))
  BY FS_StrictSubsetOrderingWellFounded
<1>2. F \subseteq FiniteSubsetsOf(Nat) /\ F # {}
  <2>1. \A x \in S : 0 .. x \in SUBSET Nat /\ IsFiniteSet(0 .. x)
    BY FS_Interval
  <2> QED
    BY <2>1 DEF FiniteSubsetsOf
<1>3. PICK m \in F : \A k \in F : <<k, m>> \notin R
  <2> HIDE DEF F, R
  <2> QED
    BY <1>1, <1>2, WFMin
<1>4. PICK x \in S : m = 0 .. x
  OBVIOUS
<1>5. ASSUME NEW y \in S, y < x
      PROVE  FALSE
  <2>1. 0 .. y \in F /\ 0 .. y \subseteq 0 .. x /\ 0 .. y # 0 .. x
    BY <1>5
  <2>2. 0 .. y \in SUBSET Nat /\ 0 .. x \in SUBSET Nat
    OBVIOUS
  <2> QED
    BY <1>3, <1>4, <2>1, <2>2 DEF StrictSubsetOrdering
<1> QED
  BY <1>5

LEMMA NextThereIs ==
  ASSUME NEW pending, pending # {},
         \A f \in pending : f.at \in Nat /\ f.uid \in Nat
  PROVE  \E e \in pending : IsNext(e, pending)
<1>1. PICK t \in {f.at : f \in pending} : \A f \in pending : t <= f.at
  <2> DEFINE Times == {f.at : f \in pending}
  <2>1. Times \in SUBSET Nat /\ Times # {}
    OBVIOUS
  <2>2. PICK t \in Times : \A y \in Times : t <= y
    <3> HIDE DEF Times
    <3> QED
      BY <2>1, LeastNumber
  <2> QED
    BY <2>2
<1>2. PICK n \in {f.uid : f \in {g \in pending : g.at = t}} :
        \A f \in pending : f.at = t => n <= f.uid
  <2> DEFINE Numbers == {f.uid : f \in {g \in pending : g.at = t}}
  <2>1. Numbers \in SUBSET Nat /\ Numbers # {}
    BY <1>1
  <2>2. PICK n \in Numbers : \A y \in Numbers : n <= y
    <3> HIDE DEF Numbers
    <3> QED
      BY <2>1, LeastNumber
  <2> QED
    BY <2>2
<1>3. PICK e \in pending : e.at = t /\ e.uid = n
  BY <1>2
<1> QED
  BY <1>1, <1>2, <1>3 DEF IsNext

(* Whatever fails, and however the pipes fill: someone can go on, until    *)
(* the run is over or the Controller sends to a process that has failed.   *)
(* The Controller always has an event to run, and nobody waits for one who *)
(* waits for him.                                                          *)
THEOREM NobodyWaits == SysSpec => []NoStandstill
<1>1. StreamInv /\ SysInv /\ (\A w \in Worker : ExitAhead(w)) => NoStandstill
  <2> SUFFICES ASSUME StreamInv, SysInv, \A w \in Worker : ExitAhead(w)
               PROVE  NoStandstill
    OBVIOUS
  <2>1. /\ pc \in [Worker -> W!Location] /\ pipe \in [Worker -> Seq(Command)]
        /\ HighWaterMark \in Nat /\ HighWaterMark >= 1
    BY WorkerTypes, WorkersAssumption DEF SysInv, W!SetupsAssumption
  <2>2. \A w \in Worker : \/ pc[w] \in {"starting", "loop", "closing", "exiting"}
                          \/ pc[w] \in {"exited", "crashed"}
    BY <2>1 DEF W!Location
  <2>3. CASE out # <<>>
    <3>1. out \in Seq(Command)
      BY DEF StreamInv, Lockstep, TypeOK
    <3>2. /\ Head(out) \in Command /\ Head(out) = out[1] /\ 1 \in DOMAIN out
      BY <2>3, <3>1, TailList
    <3>3. PICK v \in Worker : v = Head(out).to
      BY <3>2 DEF Command
    <3>4. pc[v] \notin {"exiting", "exited"}
      BY <3>2, <3>3 DEF SysInv, PipeInv, Told
    <3>5. CASE pc[v] = "loop"
      <4>1. pipe[v] = <<>> => Len(pipe[v]) < HighWaterMark
        BY <2>1, EmptySeq
      <4> QED
        BY <2>3, <3>3, <3>5, <4>1 DEF NoStandstill, Returns, Moves
    <3> QED
      BY <2>2, <2>3, <3>3, <3>4, <3>5 DEF NoStandstill, Stalled, Moves
  <2>4. CASE out = <<>> /\ running
    <3>1. events # {}
      BY <2>4 DEF StreamInv, OneStateStream
    <3>2. \A f \in events : f.at \in Nat /\ f.uid \in Nat
      BY DEF StreamInv, Lockstep, TypeOK, QueueOK
    <3> QED
      BY <2>4, <3>1, <3>2, NextThereIs DEF NoStandstill, Simulates
  <2>5. CASE out = <<>> /\ ~running
    <3>1. ASSUME NEW w \in Worker, pc[w] = "loop"
          PROVE  Moves(w)
      <4>1. \E i \in DOMAIN pipe[w] : pipe[w][i].type = "EXIT"
        BY <2>5, <3>1, TwoList DEF ExitAhead
      <4>2. pipe[w] # <<>>
        BY <4>1, TwoList
      <4> QED
        BY <3>1, <4>2 DEF Moves
    <3> QED
      BY <2>2, <2>5, <3>1 DEF NoStandstill, Over, Finished, Moves
  <2> QED
    BY <2>3, <2>4, <2>5
<1>2. SysSpec => []StreamInv
  BY ControllerInSystem, StreamInvariant, PTL
<1> QED
  BY <1>1, <1>2, SystemInvariant, ExitInvariant, PTL

-------------------------------------------------------------------------------
(* What is ahead of a process: in its pipe, or not yet sent.               *)

Says(s, text) == \E i \in DOMAIN s : Said(s[i]) = text

NoneAfter(s, a, b) ==
  \A i, j \in DOMAIN s : i < j => ~(Said(s[i]) = a /\ Said(s[j]) = b)

Ahead(w, text) == Says(pipe[w], text) \/ Says(out, text)

(* No b is ahead of w behind an a.                                         *)
Ordered(w, a, b) ==
  /\ NoneAfter(pipe[w], a, b) /\ NoneAfter(out, a, b)
  /\ Says(pipe[w], a) => ~Says(out, b)

LEMMA SaysList ==
  ASSUME NEW c, NEW d, NEW s, NEW a, NEW b
  PROVE  /\ s = <<>> => ~Says(s, a) /\ NoneAfter(s, a, b)
         /\ s = <<c>> => (Says(s, a) <=> Said(c) = a) /\ NoneAfter(s, a, b)
         /\ s = <<c, d>> => /\ Says(s, a) <=> Said(c) = a \/ Said(d) = a
                            /\ ~(Said(c) = a /\ Said(d) = b) => NoneAfter(s, a, b)
<1>1. CASE s = <<>>
  BY <1>1, TwoList DEF Says, NoneAfter
<1>2. CASE s = <<c>>
  <2>1. DOMAIN s = {1} /\ s[1] = c
    BY <1>2, TwoList
  <2> QED
    BY <1>2, <2>1 DEF Says, NoneAfter
<1>3. CASE s = <<c, d>>
  <2>1. DOMAIN s = {1, 2} /\ s[1] = c /\ s[2] = d
    BY <1>3, TwoList
  <2> QED
    BY <1>3, <2>1 DEF Says, NoneAfter
<1> QED
  BY <1>1, <1>2, <1>3

LEMMA SaysTail ==
  ASSUME NEW s \in Seq(Command), s # <<>>, NEW a, NEW b
  PROVE  /\ Says(s, a) <=> Said(Head(s)) = a \/ Says(Tail(s), a)
         /\ NoneAfter(s, a, b) => /\ NoneAfter(Tail(s), a, b)
                                  /\ Said(Head(s)) = a => ~Says(Tail(s), b)
<1>1. /\ Head(s) = s[1] /\ 1 \in DOMAIN s
      /\ \A i \in DOMAIN Tail(s) : /\ i \in Nat \ {0} /\ i + 1 \in DOMAIN s
                                   /\ Tail(s)[i] = s[i + 1]
  BY TailList
<1>2. \A i \in DOMAIN s : i = 1 \/ (i - 1 \in DOMAIN Tail(s) /\ Tail(s)[i - 1] = s[i])
  <2>1. /\ DOMAIN s = 1 .. Len(s) /\ Len(s) \in Nat
        /\ Len(Tail(s)) = Len(s) - 1 /\ Tail(s) \in Seq(Command)
    BY TailList, LenProperties
  <2>2. DOMAIN Tail(s) = 1 .. Len(s) - 1
    BY <2>1, LenProperties
  <2> QED
    BY <1>1, <2>1, <2>2
<1>3. Says(s, a) <=> Said(Head(s)) = a \/ Says(Tail(s), a)
  BY <1>1, <1>2 DEF Says
<1>4. ASSUME NoneAfter(s, a, b)
      PROVE  NoneAfter(Tail(s), a, b)
  BY <1>1, <1>4 DEF NoneAfter
<1>5. ASSUME NoneAfter(s, a, b), Said(Head(s)) = a
      PROVE  ~Says(Tail(s), b)
  <2>1. \A i \in DOMAIN Tail(s) : ~(Said(s[1]) = a /\ Said(s[i + 1]) = b)
    BY <1>1, <1>5 DEF NoneAfter
  <2> QED
    BY <1>1, <1>5, <2>1 DEF Says
<1> QED
  BY <1>3, <1>4, <1>5

LEMMA SaysAppend ==
  ASSUME NEW s \in Seq(Command), NEW c \in Command, NEW a, NEW b
  PROVE  /\ Says(Append(s, c), a) <=> Says(s, a) \/ Said(c) = a
         /\ NoneAfter(s, a, b) /\ ~(Says(s, a) /\ Said(c) = b)
              => NoneAfter(Append(s, c), a, b)
<1>1. /\ Len(s) \in Nat
      /\ \A i \in DOMAIN Append(s, c) :
           \/ i \in DOMAIN s /\ Append(s, c)[i] = s[i]
           \/ i = Len(s) + 1 /\ Append(s, c)[i] = c
      /\ \A i \in DOMAIN s : i \in Nat /\ i <= Len(s)
  BY AppendList
<1>2. /\ \A i \in DOMAIN s : i \in DOMAIN Append(s, c) /\ Append(s, c)[i] = s[i]
      /\ Len(s) + 1 \in DOMAIN Append(s, c) /\ Append(s, c)[Len(s) + 1] = c
  <2>1. DOMAIN s = 1 .. Len(s) /\ DOMAIN Append(s, c) = 1 .. Len(s) + 1
    BY AppendList, LenProperties
  <2> QED
    BY <1>1, <2>1
<1>3. Says(Append(s, c), a) <=> Says(s, a) \/ Said(c) = a
  BY <1>1, <1>2 DEF Says
<1>4. ASSUME NoneAfter(s, a, b), ~(Says(s, a) /\ Said(c) = b)
      PROVE  NoneAfter(Append(s, c), a, b)
  <2> SUFFICES ASSUME NEW i \in DOMAIN Append(s, c), NEW j \in DOMAIN Append(s, c),
                      i < j, Said(Append(s, c)[i]) = a, Said(Append(s, c)[j]) = b
               PROVE  FALSE
    BY DEF NoneAfter
  <2>1. i \in DOMAIN s /\ Append(s, c)[i] = s[i]
    BY <1>1
  <2>2. CASE j \in DOMAIN s /\ Append(s, c)[j] = s[j]
    BY <1>4, <2>1, <2>2 DEF NoneAfter
  <2>3. CASE Append(s, c)[j] = c
    BY <1>4, <2>1, <2>3 DEF Says
  <2> QED
    BY <1>1, <2>2, <2>3
<1> QED
  BY <1>3, <1>4

(* Sending moves what is ahead, it does not reorder it.                    *)
LEMMA AcceptKeeps ==
  ASSUME TypeOK, SysInv, Send, W!Accept(Head(out).to, Head(out)),
         NEW w \in Worker, NEW a, NEW b
  PROVE  /\ Ordered(w, a, b) => Ordered(w, a, b)'
         /\ Ahead(w, a)' => Ahead(w, a)
         /\ w = "ue" /\ a \in VideoType => (Ahead(w, a)' <=> Ahead(w, a))
<1>0. PICK c, v : c = Head(out) /\ v = c.to
  OBVIOUS
<1>1. /\ out # <<>> /\ out \in Seq(Command) /\ out' = Tail(out)
  BY DEF Send, TypeOK
<1>2. c \in Command /\ v \in Worker /\ c = out[1] /\ 1 \in DOMAIN out
  <2>1. c \in Command /\ c = out[1] /\ 1 \in DOMAIN out
    BY <1>0, <1>1, TailList
  <2> QED
    BY <1>0, <2>1 DEF Command
<1>3. /\ pipe \in [Worker -> Seq(Command)]
      /\ pipe' = [pipe EXCEPT ![v] = Append(@, c)]
  BY <1>0, WorkerTypes DEF SysInv, W!Accept
<1>4. \A t : Says(out, t) <=> Said(c) = t \/ Says(out', t)
  BY <1>0, <1>1, SaysTail
<1>5. NoneAfter(out, a, b) => NoneAfter(out', a, b) /\ (Said(c) = a => ~Says(out', b))
  BY <1>0, <1>1, SaysTail
<1>6. CASE w # v
  <2>1. pipe'[w] = pipe[w]
    BY <1>3, <1>6
  <2>2. Said(c) \in VideoType => v = "ue"
    <3>1. ForUe(c)
      BY <1>2 DEF SysInv, OutInv
    <3>2. Said(c) \in VideoType => c.type \in VideoType
      BY DEF Said, VideoType
    <3> QED
      BY <1>0, <3>1, <3>2 DEF ForUe
  <2> QED
    BY <1>4, <1>5, <1>6, <2>1, <2>2 DEF Ordered, Ahead
<1>7. CASE w = v
  <2>1. pipe'[w] = Append(pipe[w], c) /\ pipe[w] \in Seq(Command)
    BY <1>2, <1>3, <1>7
  <2>2. \A t : Says(pipe'[w], t) <=> Says(pipe[w], t) \/ Said(c) = t
    BY <1>2, <2>1, SaysAppend
  <2>3. NoneAfter(pipe[w], a, b) /\ ~(Says(pipe[w], a) /\ Said(c) = b)
          => NoneAfter(pipe'[w], a, b)
    BY <1>2, <2>1, SaysAppend
  <2> QED
    BY <1>4, <1>5, <2>2, <2>3 DEF Ordered, Ahead
<1> QED
  BY <1>6, <1>7

(* A process only takes from what is ahead of it.                          *)
LEMMA PipeShrinks ==
  ASSUME TypeOK, SysInv, NEW w \in Worker, W!Step(w), UNCHANGED vars
  PROVE  \A v \in Worker :
           \/ pipe'[v] = pipe[v]
           \/ v = w /\ pipe'[w] = <<>>
           \/ v = w /\ pipe[w] # <<>> /\ pipe'[w] = Tail(pipe[w])
<1>1. pipe \in [Worker -> Seq(Command)]
  BY WorkerTypes DEF SysInv
<1>2. CASE pipe' = pipe
  BY <1>2
<1>3. CASE Takes(w)
  BY <1>1, <1>3 DEF Takes
<1>4. CASE W!Crash(w, Head(pipe[w]))
  BY <1>1, <1>4 DEF W!Crash
<1> QED
  BY <1>2, <1>3, <1>4, WorkerSteps DEF W!StartFails, W!CameraClosed

LEMMA ShrinkKeeps ==
  ASSUME TypeOK, SysInv, NEW w \in Worker, W!Step(w), UNCHANGED vars,
         NEW v \in Worker, NEW a, NEW b
  PROVE  /\ Ordered(v, a, b) => Ordered(v, a, b)'
         /\ Ahead(v, a)' => Ahead(v, a)
<1>1. out' = out
  BY DEF vars
<1>2. pipe[v] \in Seq(Command)
  BY WorkerTypes DEF SysInv
<1>3. CASE pipe'[v] = pipe[v]
  BY <1>1, <1>3 DEF Ordered, Ahead
<1>4. CASE pipe'[v] = <<>>
  <2>1. ~Says(pipe'[v], a) /\ NoneAfter(pipe'[v], a, b)
    BY <1>4, SaysList
  <2> QED
    BY <1>1, <2>1 DEF Ordered, Ahead
<1>5. CASE pipe[v] # <<>> /\ pipe'[v] = Tail(pipe[v])
  <2>1. Says(pipe'[v], a) => Says(pipe[v], a)
    BY <1>2, <1>5, SaysTail
  <2>2. NoneAfter(pipe[v], a, b) => NoneAfter(pipe'[v], a, b)
    BY <1>2, <1>5, SaysTail
  <2> QED
    BY <1>1, <2>1, <2>2 DEF Ordered, Ahead
<1> QED
  BY <1>3, <1>4, <1>5, PipeShrinks

-------------------------------------------------------------------------------
(* What the handlers say, phase by phase.                                  *)

SessionStart == Phase = "before" /\ Phase' = "requested"
                /\ \E c : out' = <<c>> /\ Said(c) = "startTeleoperation"

SessionStop == Phase \in {"requested", "controlled"} /\ Phase' = "stopping"
               /\ \E c : out' = <<c>> /\ Said(c) = "stopTeleoperation"

SessionCommand == Phase = "controlled" /\ Phase' = "controlled"
                  /\ \E c : out' = <<c>> /\ Said(c) = "control"

SessionOn == Phase = "requested" /\ Phase' = "controlled"
             /\ \E c, d : /\ out' = <<c, d>> /\ Said(c) = "teleoperating"
                          /\ Said(d) = "START_VIDEO"

SessionOff == Phase = "stopping" /\ Phase' \in {"stopping", "after"}
              /\ \E c, d : /\ out' = <<c, d>> /\ Said(c) = "not teleoperating"
                           /\ Said(d) = "STOP_VIDEO"

SessionQuiet == Phase' = Phase /\ \A t : t # "" => ~Says(out', t)

LEMMA HandlerSession ==
  ASSUME StopsAfterStart, SessionInv, NEW e \in events, Handler(e)
  PROVE  \/ SessionStart \/ SessionStop \/ SessionCommand \/ SessionOn
         \/ SessionOff \/ SessionQuiet
<1>1. CASE startTeleoperation(e)
  <2>1. TS!Request
    BY <1>1, StartRefines
  <2>2. \E c : out' = <<c>> /\ Said(c) = "startTeleoperation"
    BY <1>1, SaidBy DEF startTeleoperation
  <2> QED
    BY <2>1, <2>2 DEF TS!Request, SessionStart
<1>2. CASE stopTeleoperation(e)
  <2>1. TS!Withdraw
    BY <1>2, StopRefines
  <2>2. \E c : out' = <<c>> /\ Said(c) = "stopTeleoperation"
    BY <1>2, SaidBy DEF stopTeleoperation
  <2> QED
    BY <2>1, <2>2 DEF TS!Withdraw, SessionStop
<1>3. CASE sendControl(e)
  <2>1. TS!Command
    BY <1>3, ControlRefines
  <2>2. \E c : out' = <<c>> /\ Said(c) = "control"
    BY <1>3, SaidBy DEF sendControl
  <2> QED
    BY <2>1, <2>2 DEF TS!Command, SessionCommand
<1>4. CASE sendTeleoperationState(e)
  <2>1. TS!Announce \/ TS!Conclude
    BY <1>4, AnnounceRefines
  <2>2. PICK c, d : /\ out' = <<c, d>>
                    /\ IF teleoperating_
                       THEN Said(c) = "teleoperating" /\ Said(d) = "START_VIDEO"
                       ELSE Said(c) = "not teleoperating" /\ Said(d) = "STOP_VIDEO"
    BY <1>4, Announces
  <2>3. Saying' = Said(c)
    BY <2>2, SayingTwo
  <2>4. CASE TS!Announce
    <3>1. Said(c) = "teleoperating" /\ Said(d) = "START_VIDEO"
      BY <2>2, <2>3, <2>4 DEF TS!Announce
    <3>2. SessionOn
      BY <2>2, <2>4, <3>1 DEF TS!Announce, SessionOn
    <3> QED
      BY <3>2
  <2>5. CASE TS!Conclude
    <3>1. Said(c) = "not teleoperating" /\ Said(d) = "STOP_VIDEO"
      BY <2>2, <2>3, <2>5 DEF TS!Conclude
    <3>2. SessionOff
      BY <2>2, <2>5, <3>1 DEF TS!Conclude, SessionOff
    <3> QED
      BY <3>2
  <2> QED
    BY <2>1, <2>4, <2>5
<1>5. CASE Bystander(e) \/ sendOrder(e) \/ sendState(e)
  <2>1. PICK c : out' = <<c>> /\ Said(c) = ""
    BY <1>5, OtherStep
  <2>2. \A t : t # "" => ~Says(out', t)
    BY <2>1, SaysList
  <2>3. Phase' = Phase
    BY <1>5, OtherStep, SamePhaseName
  <2> QED
    BY <2>2, <2>3 DEF SessionQuiet
<1>6. CASE Stop(e)
  <2>1. PICK c, d : out' = <<c, d>> /\ Said(c) = "" /\ Said(d) = ""
    BY <1>6, SaidBy DEF Stop
  <2>2. \A t : t # "" => ~Says(out', t)
    BY <2>1, SaysList
  <2>3. UNCHANGED <<cfg_, teleoperating_>>
    BY <1>6 DEF Stop
  <2>4. Phase' = Phase
    BY <1>6, <2>3, ExitEffect, SamePhaseName DEF StreamKind
  <2> QED
    BY <2>2, <2>4 DEF SessionQuiet
<1> QED
  BY <1>1, <1>2, <1>3, <1>4, <1>5, <1>6 DEF Handler, Bystander

LEMMA OtherPhase ==
  ASSUME Send \/ UNCHANGED vars
  PROVE  Phase' = Phase
<1>1. CASE Send
  BY <1>1, SamePhaseName DEF Send, queue, EventsOf
<1>2. CASE UNCHANGED vars
  BY <1>2, SamePhaseName DEF vars, queue, EventsOf
<1> QED
  BY <1>1, <1>2

(* A handler puts what it says behind all that is in the pipes.            *)
LEMMA HandlerOrders ==
  ASSUME NEW e \in events, Handler(e), UNCHANGED workerVars, NEW w, NEW a, NEW b
  PROVE  /\ Ahead(w, a)' <=> Says(pipe[w], a) \/ Says(out', a)
         /\ Ahead(w, a) <=> Says(pipe[w], a)
         /\ Ordered(w, a, b) => NoneAfter(pipe[w], a, b)
         /\ Ordered(w, a, b)' <=> /\ NoneAfter(pipe[w], a, b) /\ NoneAfter(out', a, b)
                                  /\ Says(pipe[w], a) => ~Says(out', b)
<1>1. out = <<>> /\ pipe' = pipe
  BY HandlerSends DEF workerVars
<1>2. ~Says(out, a)
  BY <1>1, SaysList
<1> QED
  BY <1>1, <1>2 DEF Ahead, Ordered

-------------------------------------------------------------------------------
(* Control commands.                                                       *)

BracketInv ==
  /\ Ordered("base", "stopTeleoperation", "control")
  /\ Ordered("base", "control", "startTeleoperation")
  /\ Ahead("base", "control") => Phase # "before"
  /\ Ahead("base", "stopTeleoperation") => Phase \in {"stopping", "after"}

LEMMA BracketStep ==
  ASSUME StopsAfterStart, SessionInv, SysInv, BracketInv, [SysNext]_sysVars
  PROVE  BracketInv'
<1>1. TypeOK
  BY DEF SessionInv, StreamInv, Lockstep
<1>2. ASSUME NEW e \in events, Handler(e), UNCHANGED workerVars
      PROVE  BracketInv'
  <2> DEFINE In(t) == Says(pipe["base"], t)
  <2>1. /\ NoneAfter(pipe["base"], "stopTeleoperation", "control")
        /\ NoneAfter(pipe["base"], "control", "startTeleoperation")
        /\ In("control") => Phase # "before"
        /\ In("stopTeleoperation") => Phase \in {"stopping", "after"}
    BY <1>2, HandlerOrders DEF BracketInv
  <2>2. ASSUME NoneAfter(out', "stopTeleoperation", "control"),
               NoneAfter(out', "control", "startTeleoperation"),
               In("stopTeleoperation") => ~Says(out', "control"),
               In("control") => ~Says(out', "startTeleoperation"),
               In("control") \/ Says(out', "control") => Phase' # "before",
               In("stopTeleoperation") \/ Says(out', "stopTeleoperation")
                 => Phase' \in {"stopping", "after"}
        PROVE  BracketInv'
    BY <1>2, <2>1, <2>2, HandlerOrders DEF BracketInv
  <2> HIDE DEF In
  <2>3. ASSUME NEW c, out' = <<c>>
        PROVE  /\ \A t : Says(out', t) <=> Said(c) = t
               /\ \A a, b : NoneAfter(out', a, b)
    BY <2>3, SaysList
  <2>4. ASSUME NEW c, NEW d, out' = <<c, d>>
        PROVE  /\ \A t : Says(out', t) <=> Said(c) = t \/ Said(d) = t
               /\ \A a, b : ~(Said(c) = a /\ Said(d) = b) => NoneAfter(out', a, b)
    BY <2>4, SaysList
  <2>5. CASE SessionStart
    BY <2>1, <2>2, <2>3, <2>5 DEF SessionStart
  <2>6. CASE SessionStop
    BY <2>1, <2>2, <2>3, <2>6 DEF SessionStop
  <2>7. CASE SessionCommand
    BY <2>1, <2>2, <2>3, <2>7 DEF SessionCommand
  <2>8. CASE SessionOn
    BY <2>1, <2>2, <2>4, <2>8 DEF SessionOn
  <2>9. CASE SessionOff
    BY <2>1, <2>2, <2>4, <2>9 DEF SessionOff
  <2>10. CASE SessionQuiet
    <3>1. \A a, b : a # "" => NoneAfter(out', a, b)
      BY <2>10 DEF SessionQuiet, NoneAfter, Says
    <3> QED
      BY <2>1, <2>2, <2>10, <3>1 DEF SessionQuiet
  <2> QED
    BY <1>2, <2>5, <2>6, <2>7, <2>8, <2>9, <2>10, HandlerSession
<1>3. CASE Send /\ W!Accept(Head(out).to, Head(out))
  BY <1>1, <1>3, AcceptKeeps, OtherPhase DEF BracketInv, Worker
<1>4. ASSUME NEW w \in Worker, W!Step(w), UNCHANGED vars
      PROVE  BracketInv'
  BY <1>1, <1>4, ShrinkKeeps, OtherPhase DEF BracketInv, Worker
<1>5. CASE UNCHANGED vars /\ UNCHANGED workerVars
  <2>1. Phase' = Phase /\ out' = out /\ pipe' = pipe
    BY <1>5, OtherPhase DEF vars, workerVars
  <2> QED
    BY <2>1 DEF BracketInv, Ordered, Ahead
<1> QED
  BY <1>2, <1>3, <1>4, <1>5, SysSteps

LEMMA InitAhead ==
  ASSUME SysInit, NEW w \in Worker, NEW a, NEW b
  PROVE  Ordered(w, a, b) /\ ~Ahead(w, a) /\ Phase = "before"
<1>1. pipe[w] = <<>> /\ out = <<>>
  BY SameWorkers DEF SysInit, W!Init, Init
<1>2. Phase = "before"
  BY NotYet DEF SysInit, Phase
<1> QED
  BY <1>1, <1>2, SaysList DEF Ordered, Ahead

THEOREM BracketInvariant ==
  ASSUME StopsAfterStart
  PROVE  SysSpec => []BracketInv
<1>1. SysInit => BracketInv
  BY InitAhead DEF BracketInv, Worker
<1>2. SessionInv /\ SysInv /\ BracketInv /\ [SysNext]_sysVars => BracketInv'
  BY BracketStep
<1>3. SysSpec => []SessionInv
  BY ControllerInSystem, SessionInvariant, PTL
<1> QED
  BY <1>1, <1>2, <1>3, SystemInvariant, PTL DEF SysSpec

(* However far Base is behind, of what is still ahead of it no control     *)
(* command follows the end of teleoperation or precedes its request.       *)
THEOREM Bracketed ==
  ASSUME StopsAfterStart
  PROVE  SysSpec => []ControlBracketed
<1>1. ASSUME TypeOK, SysInv, NEW a, NEW b, Ordered("base", a, b)
      PROVE  NoneAfter(pipe["base"] \o out, a, b)
  <2> DEFINE p == pipe["base"]
  <2>1. p \in Seq(Command) /\ out \in Seq(Command)
    BY <1>1, WorkerTypes DEF SysInv, Worker, TypeOK
  <2> HIDE DEF p
  <2>2. /\ Len(p) \in Nat /\ Len(out) \in Nat
        /\ DOMAIN p = 1 .. Len(p) /\ DOMAIN out = 1 .. Len(out)
        /\ DOMAIN (p \o out) = 1 .. Len(p) + Len(out)
        /\ \A i \in 1 .. Len(p) + Len(out) :
             (p \o out)[i] = IF i <= Len(p) THEN p[i] ELSE out[i - Len(p)]
    BY <2>1, ConcatProperties, LenProperties
  <2>3. SUFFICES ASSUME NEW i \in DOMAIN (p \o out), NEW j \in DOMAIN (p \o out),
                        i < j, Said((p \o out)[i]) = a, Said((p \o out)[j]) = b
                 PROVE  FALSE
    BY DEF NoneAfter, p
  <2>4. /\ NoneAfter(p, a, b) /\ NoneAfter(out, a, b)
        /\ Says(p, a) => ~Says(out, b)
    BY <1>1 DEF Ordered, p
  <2>5. CASE j <= Len(p)
    <3>1. i \in DOMAIN p /\ j \in DOMAIN p /\ Said(p[i]) = a /\ Said(p[j]) = b
      BY <2>2, <2>3, <2>5
    <3> QED
      BY <2>3, <2>4, <3>1 DEF NoneAfter
  <2>6. CASE i <= Len(p) /\ ~(j <= Len(p))
    <3>1. i \in DOMAIN p /\ Said(p[i]) = a
      BY <2>2, <2>3, <2>6
    <3>2. j - Len(p) \in DOMAIN out /\ Said(out[j - Len(p)]) = b
      BY <2>2, <2>3, <2>6
    <3> QED
      BY <2>4, <3>1, <3>2 DEF Says
  <2>7. CASE ~(i <= Len(p))
    <3>1. i - Len(p) \in DOMAIN out /\ Said(out[i - Len(p)]) = a
      BY <2>2, <2>3, <2>7
    <3>2. j - Len(p) \in DOMAIN out /\ Said(out[j - Len(p)]) = b
      BY <2>2, <2>3, <2>7
    <3>3. i - Len(p) < j - Len(p)
      BY <2>2, <2>3
    <3> QED
      BY <2>4, <3>1, <3>2, <3>3 DEF NoneAfter
  <2> QED
    BY <2>5, <2>6, <2>7
<1>2. TypeOK /\ SysInv /\ BracketInv => ControlBracketed
  BY <1>1 DEF BracketInv, ControlBracketed, NoneAfter
<1>3. SysSpec => []TypeOK
  BY ControllerInSystem, TypeCorrect, PTL
<1> QED
  BY <1>2, <1>3, SystemInvariant, BracketInvariant, PTL

-------------------------------------------------------------------------------
(* Video.                                                                  *)

(* How the UE, at a place of its loop and with n pipelines, fits the phase *)
(* of the session, on and off telling what is still ahead of it.           *)
VideoFits(phase, at, n, on, off) ==
  /\ n \in {0, 1}
  /\ on => n = 0
  /\ at = "closing" => ~on
  /\ phase \in {"before", "requested"} => ~on /\ n = 0
  /\ phase \in {"before", "requested", "controlled"} => ~off /\ at # "closing"
  /\ at \in {"starting", "loop"} =>
       /\ phase = "controlled" => on \/ n = 1
       /\ phase = "after" => off \/ (n = 0 /\ ~on)

VideoInv ==
  /\ Ordered("ue", "START_VIDEO", "START_VIDEO")
  /\ Ordered("ue", "STOP_VIDEO", "START_VIDEO")
  /\ VideoFits(Phase, pc["ue"], cameras["ue"],
               Ahead("ue", "START_VIDEO"), Ahead("ue", "STOP_VIDEO"))
  /\ cameras["base"] = 0

LEMMA InitVideo == SysInit => VideoInv
<1> SUFFICES ASSUME SysInit
             PROVE  VideoInv
  OBVIOUS
<1>1. pc["ue"] = "starting" /\ cameras["ue"] = 0 /\ cameras["base"] = 0
  BY SameWorkers DEF SysInit, W!Init, Worker
<1>2. /\ Phase = "before"
      /\ \A a, b : Ordered("ue", a, b) /\ ~Ahead("ue", a)
  BY InitAhead DEF Worker
<1> QED
  BY <1>1, <1>2 DEF VideoInv, VideoFits

(* A handler's video command is behind all that is ahead of the UE.        *)
LEMMA HandlerVideo ==
  ASSUME StopsAfterStart, SessionInv, SysInv, VideoInv,
         NEW e \in events, Handler(e), UNCHANGED workerVars
  PROVE  VideoInv'
<1> DEFINE On  == Says(pipe["ue"], "START_VIDEO")
           Off == Says(pipe["ue"], "STOP_VIDEO")
<1>1. /\ NoneAfter(pipe["ue"], "START_VIDEO", "START_VIDEO")
      /\ NoneAfter(pipe["ue"], "STOP_VIDEO", "START_VIDEO")
      /\ VideoFits(Phase, pc["ue"], cameras["ue"], On, Off)
      /\ cameras["base"] = 0
  <2>1. (Ahead("ue", "START_VIDEO") <=> On) /\ (Ahead("ue", "STOP_VIDEO") <=> Off)
    BY HandlerOrders
  <2> QED
    BY <2>1, HandlerOrders DEF VideoInv, VideoFits
<1>2. ASSUME NoneAfter(out', "START_VIDEO", "START_VIDEO"),
             NoneAfter(out', "STOP_VIDEO", "START_VIDEO"),
             On \/ Off => ~Says(out', "START_VIDEO"),
             VideoFits(Phase', pc["ue"], cameras["ue"],
                       On \/ Says(out', "START_VIDEO"), Off \/ Says(out', "STOP_VIDEO"))
      PROVE  VideoInv'
  <2>1. /\ Ahead("ue", "START_VIDEO")' <=> On \/ Says(out', "START_VIDEO")
        /\ Ahead("ue", "STOP_VIDEO")' <=> Off \/ Says(out', "STOP_VIDEO")
    BY HandlerOrders
  <2>2. /\ Ordered("ue", "START_VIDEO", "START_VIDEO")'
        /\ Ordered("ue", "STOP_VIDEO", "START_VIDEO")'
    BY <1>1, <1>2, HandlerOrders
  <2>3. pc' = pc /\ cameras' = cameras
    BY DEF workerVars
  <2>4. VideoFits(Phase, pc["ue"], cameras["ue"],
                  Ahead("ue", "START_VIDEO"), Ahead("ue", "STOP_VIDEO"))'
    BY <1>2, <2>1, <2>3 DEF VideoFits
  <2> QED
    BY <1>1, <2>2, <2>3, <2>4 DEF VideoInv
<1> HIDE DEF On, Off
<1>3. ASSUME NEW c, out' = <<c>>
      PROVE  /\ \A t : Says(out', t) <=> Said(c) = t
             /\ \A a, b : NoneAfter(out', a, b)
  BY <1>3, SaysList
<1>4. ASSUME NEW c, NEW d, out' = <<c, d>>
      PROVE  /\ \A t : Says(out', t) <=> Said(c) = t \/ Said(d) = t
             /\ \A a, b : ~(Said(c) = a /\ Said(d) = b) => NoneAfter(out', a, b)
  BY <1>4, SaysList
<1>5. CASE SessionStart
  BY <1>1, <1>2, <1>3, <1>5 DEF SessionStart, VideoFits
<1>6. CASE SessionStop
  BY <1>1, <1>2, <1>3, <1>6 DEF SessionStop, VideoFits
<1>7. CASE SessionCommand
  BY <1>1, <1>2, <1>3, <1>7 DEF SessionCommand, VideoFits
<1>8. CASE SessionOn
  BY <1>1, <1>2, <1>4, <1>8 DEF SessionOn, VideoFits
<1>9. CASE SessionOff
  <2>1. PICK c, d : out' = <<c, d>> /\ Said(c) \notin VideoType
                    /\ Said(d) = "STOP_VIDEO"
    BY <1>9 DEF SessionOff, VideoType
  <2>2. Phase = "stopping" /\ Phase' \in {"stopping", "after"}
    BY <1>9 DEF SessionOff
  <2> QED
    BY <1>1, <1>2, <1>4, <2>1, <2>2 DEF VideoFits, VideoType
<1>10. CASE SessionQuiet
  <2>1. \A a, b : a # "" => NoneAfter(out', a, b)
    BY <1>10 DEF SessionQuiet, NoneAfter, Says
  <2> QED
    BY <1>1, <1>2, <1>10, <2>1 DEF SessionQuiet, VideoFits
<1> QED
  BY <1>5, <1>6, <1>7, <1>8, <1>9, <1>10, HandlerSession

(* Taking a command from the pipe of the UE.                               *)
LEMMA TakesVideo ==
  ASSUME TypeOK, SysInv, VideoInv, Takes("ue"), UNCHANGED vars,
         Head(pipe["ue"]).type \in VideoType \cup Publishing \cup {"EXIT"}
  PROVE  /\ Head(pipe["ue"]).type \in VideoType =>
              Said(Head(pipe["ue"])) = Head(pipe["ue"]).type
         /\ Said(Head(pipe["ue"])) \in VideoType =>
              Said(Head(pipe["ue"])) = Head(pipe["ue"]).type
         /\ Said(Head(pipe["ue"])) \in VideoType => ~Ahead("ue", "START_VIDEO")'
         /\ \A t : /\ Ahead("ue", t) => Said(Head(pipe["ue"])) = t \/ Ahead("ue", t)'
                   /\ Said(Head(pipe["ue"])) = t => Ahead("ue", t)
<1>0. PICK c, p : c = Head(pipe["ue"]) /\ p = pipe["ue"]
  OBVIOUS
<1>1. "ue" \in Worker
  BY DEF Worker
<1>2. /\ p \in Seq(Command) /\ p # <<>> /\ pipe'["ue"] = Tail(p)
      /\ pipe' \in [Worker -> Seq(Command)]
  BY <1>0, <1>1, WorkerTypes, TakeStep DEF SysInv, Takes
<1>3. ForUe(c)
  BY <1>0, <1>1, TakeStep
<1>4. c.type \in VideoType => Said(c) = c.type
  <2>1. c.type \in VideoType => c.topic # "control" /\ c.msg.text = ""
    BY <1>3 DEF ForUe
  <2>2. ASSUME c.topic # "control", c.msg.text = "", c.type = "START_VIDEO"
        PROVE  Said(c) = "START_VIDEO"
    BY <2>2 DEF Said
  <2>3. ASSUME c.topic # "control", c.msg.text = "", c.type = "STOP_VIDEO"
        PROVE  Said(c) = "STOP_VIDEO"
    BY <2>3 DEF Said
  <2> QED
    BY <2>1, <2>2, <2>3 DEF VideoType
<1>5. Said(c) \in VideoType => Said(c) = c.type
  BY DEF Said, VideoType
<1>6. out' = out
  BY DEF vars
<1>7. \A t : Says(p, t) <=> Said(c) = t \/ Says(Tail(p), t)
  BY <1>0, <1>2, SaysTail
<1>8. Said(c) \in VideoType => ~Says(Tail(p), "START_VIDEO")
  BY <1>0, <1>2, SaysTail DEF VideoInv, Ordered, VideoType
<1>9. Said(c) \in VideoType => ~Says(out, "START_VIDEO")
  BY <1>0, <1>7 DEF VideoInv, Ordered, VideoType
<1> QED
  BY <1>0, <1>2, <1>4, <1>5, <1>6, <1>7, <1>8, <1>9 DEF Ahead

(* Base has no camera, and what it does leaves the UE alone.               *)
LEMMA BaseVideo ==
  ASSUME TypeOK, SysInv, VideoInv, W!Step("base"), UNCHANGED vars
  PROVE  VideoInv'
<1>1. "base" \in Worker /\ "ue" \in Worker
  BY DEF Worker
<1>2. /\ pc \in [Worker -> W!Location] /\ cameras \in [Worker -> Nat]
      /\ pipe \in [Worker -> Seq(Command)]
  BY WorkerTypes DEF SysInv
<1>3. cameras["base"] = 0 /\ pc["base"] \notin {"closing", "exiting"}
  BY <1>1 DEF VideoInv, SysInv, CamerasInv
<1>4. Takes("base") => Head(pipe["base"]).type \notin VideoType
  BY <1>1, TakeStep DEF ForUe
<1>5. /\ pc'["ue"] = pc["ue"] /\ cameras'["ue"] = cameras["ue"]
      /\ cameras'["base"] = 0
  <2>1. CASE UNCHANGED cameras /\ \E at : pc' = [pc EXCEPT !["base"] = at]
    BY <1>1, <1>2, <1>3, <2>1
  <2>2. CASE W!Crash("base", Head(pipe["base"]))
    BY <1>1, <1>2, <2>2 DEF W!Crash
  <2>3. UNCHANGED pc => \E at : pc' = [pc EXCEPT !["base"] = at]
    <3>1. pc = [pc EXCEPT !["base"] = pc["base"]]
      BY <1>2
    <3> QED
      BY <3>1
  <2>4. W!StartFails("base") => UNCHANGED cameras /\ \E at : pc' = [pc EXCEPT !["base"] = at]
    BY DEF W!StartFails
  <2>5. W!Exit("base", Head(pipe["base"]))
          => UNCHANGED cameras /\ \E at : pc' = [pc EXCEPT !["base"] = at]
    BY DEF W!Exit
  <2>6. /\ ~W!CameraClosed("base")
        /\ Takes("base") => /\ ~W!StartVideo("base", Head(pipe["base"]))
                            /\ ~W!StopVideo("base", Head(pipe["base"]))
    BY <1>3, <1>4 DEF W!CameraClosed, W!StartVideo, W!StopVideo, VideoType
  <2> QED
    BY <2>1, <2>2, <2>3, <2>4, <2>5, <2>6, WorkerSteps, <1>1
<1>6. pipe'["ue"] = pipe["ue"]
  BY <1>1, PipeShrinks
<1>7. out' = out /\ Phase' = Phase
  BY OtherPhase DEF vars
<1> QED
  BY <1>5, <1>6, <1>7 DEF VideoInv, Ordered, Ahead

(* What the UE does.                                                       *)
LEMMA UeVideo ==
  ASSUME TypeOK, SysInv, VideoInv, W!Step("ue"), UNCHANGED vars
  PROVE  VideoInv'
<1>1. "base" \in Worker /\ "ue" \in Worker
  BY DEF Worker
<1>2. /\ pc \in [Worker -> W!Location] /\ cameras \in [Worker -> Nat]
      /\ pipe \in [Worker -> Seq(Command)]
  BY WorkerTypes DEF SysInv
<1>3. CamerasInv("ue")
  BY <1>1 DEF SysInv
<1>4. Phase' = Phase
  BY OtherPhase
<1>5. /\ Ordered("ue", "START_VIDEO", "START_VIDEO")'
      /\ Ordered("ue", "STOP_VIDEO", "START_VIDEO")'
      /\ \A t : Ahead("ue", t)' => Ahead("ue", t)
  BY <1>1, ShrinkKeeps DEF VideoInv
<1>6. VideoFits(Phase, pc["ue"], cameras["ue"],
                Ahead("ue", "START_VIDEO"), Ahead("ue", "STOP_VIDEO"))
  BY DEF VideoInv
<1>7. cameras'["base"] = 0
  <2>1. cameras["base"] = 0
    BY DEF VideoInv
  <2>2. cameras' = cameras \/ \E n : cameras' = [cameras EXCEPT !["ue"] = n]
    BY <1>1, WorkerSteps
    DEF W!StartFails, W!StartVideo, W!StopVideo, W!Exit, W!Crash, W!CameraClosed
  <2> QED
    BY <1>1, <1>2, <2>1, <2>2
<1>8. ASSUME VideoFits(Phase, pc'["ue"], cameras'["ue"],
                       Ahead("ue", "START_VIDEO")', Ahead("ue", "STOP_VIDEO")')
      PROVE  VideoInv'
  BY <1>4, <1>5, <1>7, <1>8 DEF VideoInv
<1>9. ASSUME UNCHANGED <<pipe, out>>
      PROVE  \A t : Ahead("ue", t)' <=> Ahead("ue", t)
  BY <1>9 DEF Ahead
<1>10. out' = out
  BY DEF vars
<1>11. CASE pc["ue"] = "starting" /\ pc' = [pc EXCEPT !["ue"] = "loop"]
            /\ UNCHANGED <<pipe, cameras>>
  <2>1. pc'["ue"] = "loop" /\ cameras'["ue"] = cameras["ue"]
    BY <1>1, <1>2, <1>11
  <2> QED
    BY <1>6, <1>8, <1>9, <1>10, <1>11, <2>1 DEF VideoFits
<1>12. CASE W!StartFails("ue")
  <2>1. pc'["ue"] = "crashed" /\ cameras'["ue"] = cameras["ue"] /\ pipe' = pipe
    BY <1>1, <1>2, <1>12 DEF W!StartFails
  <2> QED
    BY <1>6, <1>8, <1>9, <1>10, <2>1 DEF VideoFits
<1>13. CASE Takes("ue") /\ Head(pipe["ue"]).type \in Publishing
            /\ UNCHANGED <<pc, cameras>>
  <2>1. /\ Ahead("ue", "START_VIDEO")' <=> Ahead("ue", "START_VIDEO")
        /\ Ahead("ue", "STOP_VIDEO")' <=> Ahead("ue", "STOP_VIDEO")
    BY <1>5, <1>13, TakesVideo DEF Publishing, VideoType
  <2> QED
    BY <1>6, <1>8, <1>13, <2>1 DEF VideoFits
<1>14. CASE Takes("ue") /\ W!StartVideo("ue", Head(pipe["ue"]))
  <2>1. Head(pipe["ue"]).type = "START_VIDEO"
    BY <1>14 DEF W!StartVideo
  <2>2. /\ Ahead("ue", "START_VIDEO") /\ ~Ahead("ue", "START_VIDEO")'
        /\ Ahead("ue", "STOP_VIDEO")' <=> Ahead("ue", "STOP_VIDEO")
    BY <1>5, <1>14, <2>1, TakesVideo DEF VideoType
  <2>3. cameras["ue"] = 0 /\ pc["ue"] = "loop"
    BY <1>6, <1>14, <2>2 DEF VideoFits, Takes
  <2>4. cameras'["ue"] = 1 /\ pc'["ue"] = "loop"
    BY <1>1, <1>2, <1>14, <2>3 DEF W!StartVideo
  <2> QED
    BY <1>6, <1>8, <2>2, <2>3, <2>4 DEF VideoFits
<1>15. CASE Takes("ue") /\ W!StopVideo("ue", Head(pipe["ue"]))
  <2>1. Head(pipe["ue"]).type = "STOP_VIDEO"
    BY <1>15 DEF W!StopVideo
  <2>2. Ahead("ue", "STOP_VIDEO") /\ ~Ahead("ue", "START_VIDEO")'
    BY <1>15, <2>1, TakesVideo DEF VideoType
  <2>3. /\ cameras'["ue"] = cameras["ue"]
        /\ pc'["ue"] = IF cameras["ue"] > 0 THEN "closing" ELSE pc["ue"]
    BY <1>1, <1>2, <1>15 DEF W!StopVideo
  <2> QED
    BY <1>6, <1>8, <1>5, <2>2, <2>3 DEF VideoFits
<1>16. CASE Takes("ue") /\ W!Exit("ue", Head(pipe["ue"]))
  <2>1. /\ cameras'["ue"] = cameras["ue"]
        /\ pc'["ue"] \in {"exiting", "exited"}
    BY <1>1, <1>2, <1>16 DEF W!Exit
  <2> QED
    BY <1>5, <1>6, <1>8, <2>1 DEF VideoFits
<1>17. CASE W!Crash("ue", Head(pipe["ue"]))
  <2>1. cameras'["ue"] = 0 /\ pc'["ue"] = "crashed"
    BY <1>1, <1>2, <1>17 DEF W!Crash
  <2> QED
    BY <1>5, <1>6, <1>8, <2>1 DEF VideoFits
<1>18. CASE W!CameraClosed("ue")
  <2>1. /\ pc["ue"] \in {"closing", "exiting"} /\ pipe' = pipe
        /\ cameras'["ue"] = cameras["ue"] - 1
        /\ pc'["ue"] = IF pc["ue"] = "closing" THEN "loop" ELSE "exited"
    BY <1>1, <1>2, <1>18 DEF W!CameraClosed
  <2>2. cameras["ue"] = 1
    BY <1>3, <1>6, <2>1 DEF CamerasInv, VideoFits
  <2>3. cameras'["ue"] = 0
    BY <2>1, <2>2
  <2> QED
    BY <1>6, <1>8, <1>9, <1>10, <2>1, <2>2, <2>3 DEF VideoFits
<1> QED
  BY <1>1, <1>11, <1>12, <1>13, <1>14, <1>15, <1>16, <1>17, <1>18, WorkerSteps

LEMMA VideoStep ==
  ASSUME StopsAfterStart, SessionInv, SysInv, VideoInv, [SysNext]_sysVars
  PROVE  VideoInv'
<1>1. TypeOK
  BY DEF SessionInv, StreamInv, Lockstep
<1>2. CASE Send /\ W!Accept(Head(out).to, Head(out))
  <2>1. /\ Ordered("ue", "START_VIDEO", "START_VIDEO")'
        /\ Ordered("ue", "STOP_VIDEO", "START_VIDEO")'
        /\ Ahead("ue", "START_VIDEO")' <=> Ahead("ue", "START_VIDEO")
        /\ Ahead("ue", "STOP_VIDEO")' <=> Ahead("ue", "STOP_VIDEO")
    BY <1>1, <1>2, AcceptKeeps DEF VideoInv, Worker, VideoType
  <2>2. pc' = pc /\ cameras' = cameras /\ Phase' = Phase
    BY <1>2, OtherPhase DEF W!Accept
  <2> QED
    BY <2>1, <2>2 DEF VideoInv, VideoFits
<1>3. CASE UNCHANGED vars /\ UNCHANGED workerVars
  <2>1. Phase' = Phase /\ out' = out /\ pipe' = pipe /\ pc' = pc /\ cameras' = cameras
    BY <1>3, OtherPhase DEF vars, workerVars
  <2> QED
    BY <2>1 DEF VideoInv, Ordered, Ahead
<1> QED
  BY <1>1, <1>2, <1>3, HandlerVideo, BaseVideo, UeVideo, SysSteps DEF Worker

THEOREM VideoInvariant ==
  ASSUME StopsAfterStart
  PROVE  SysSpec => []VideoInv
<1>1. SysInit => VideoInv
  BY InitVideo
<1>2. SessionInv /\ SysInv /\ VideoInv /\ [SysNext]_sysVars => VideoInv'
  BY VideoStep
<1>3. SysSpec => []SessionInv
  BY ControllerInSystem, SessionInvariant, PTL
<1> QED
  BY <1>1, <1>2, <1>3, SystemInvariant, PTL DEF SysSpec

(* START_VIDEO never finds a pipeline running, for every pair of start and *)
(* stop times in this order and every delay of the announcements.          *)
THEOREM OneCameraEver ==
  ASSUME StopsAfterStart
  PROVE  SysSpec => []OneCamera
<1>1. VideoInv => OneCamera
  BY DEF VideoInv, VideoFits, OneCamera, Worker
<1> QED
  BY <1>1, VideoInvariant, PTL

(* A UE that has caught up shows video exactly while the robot is          *)
(* teleoperated.                                                           *)
THEOREM VideoFollows ==
  ASSUME StopsAfterStart
  PROVE  SysSpec => []VideoFollowsTeleoperation
<1>1. SessionInv /\ VideoInv => VideoFollowsTeleoperation
  <2> SUFFICES ASSUME SessionInv, VideoInv, UeCaughtUp
               PROVE  cameras["ue"] = 1 <=> teleoperating_
    BY DEF VideoFollowsTeleoperation
  <2>1. /\ ~Ahead("ue", "START_VIDEO") /\ ~Ahead("ue", "STOP_VIDEO")
        /\ pc["ue"] = "loop"
    BY SaysList DEF UeCaughtUp, Ahead
  <2>2. /\ teleoperating_ => Phase = "controlled"
        /\ ~teleoperating_ => Phase \in {"before", "after"}
    BY DEF UeCaughtUp, Phase, SessionInv, PhaseInv, ControlInv, QuietBefore
  <2> QED
    BY <2>1, <2>2 DEF VideoInv, VideoFits
<1>2. SysSpec => []SessionInv
  BY ControllerInSystem, SessionInvariant, PTL
<1> QED
  BY <1>1, <1>2, VideoInvariant, PTL

-------------------------------------------------------------------------------
(* Publishers declared ahead.                                              *)

VdaKind == {"sendConnection", "sendState", "sendFactsheetRequest",
            "sendFactsheet", "sendOrder", "sendVisualization", "Stop"}

(* What a Controller without teleoperation sends.                          *)
OfVda(c) ==
  \/ c.type = "EXIT"
  \/ /\ c.type = "PUBLISH_VDA"
     /\ \/ c.to = "ue"
           /\ c.topic \in {"connection", "state", "factsheet", "visualization"}
        \/ c.to = "base" /\ c.topic \in {"instantActions", "order"}

VdaInv ==
  /\ \A e \in events : e.kind \in VdaKind
  /\ \A i \in DOMAIN out : OfVda(out[i])
  /\ \A w \in Worker : \A i \in DOMAIN pipe[w] : OfVda(pipe[w][i])

LEMMA InitVda ==
  ASSUME SysInit, cfg_.scenario = "VDA5050"
  PROVE  VdaInv
<1>2. \A e \in events : e.kind \in VdaKind
  BY DEF SysInit, Init, InitialEvents, VdaEvents, VdaKind, Event
<1>3. /\ DOMAIN out = {}
      /\ \A w \in Worker : DOMAIN pipe[w] = {}
  BY TwoList, SameWorkers DEF SysInit, Init, W!Init
<1> QED
  BY <1>2, <1>3 DEF VdaInv

LEMMA HandlerVda ==
  ASSUME VdaInv, NEW e \in events, Handler(e), UNCHANGED workerVars
  PROVE  VdaInv'
<1>1. e.kind \in VdaKind
  BY DEF VdaInv
<1>2. \/ sendConnection(e) \/ sendFactsheetRequest(e) \/ sendFactsheet(e)
      \/ sendVisualization(e) \/ sendOrder(e) \/ sendState(e) \/ Stop(e)
  BY <1>1 DEF Handler, VdaKind, Runs, requestTeleoperationCapabilities,
     sendTeleoperationCapabilities, startTeleoperation, stopTeleoperation,
     sendTeleoperationState, sendControl
<1>3. \A f \in events' : f.kind \in VdaKind
  <2>1. CASE \/ sendConnection(e) \/ sendFactsheetRequest(e) \/ sendFactsheet(e)
             \/ sendVisualization(e) \/ Stop(e)
    <3>1. \A f \in events' :
            \/ f \in events
            \/ \E kind \in {"sendFactsheet", "sendVisualization"} :
                 \E delay : f = Later(e, kind, delay, 0)
      BY <2>1 DEF sendConnection, sendFactsheetRequest, sendFactsheet,
         sendVisualization, Stop
    <3> QED
      BY <3>1 DEF VdaInv, VdaKind, Later, Event
  <2>2. CASE sendOrder(e)
    <3>1. events' = Cancel(events \ {e}, next_state_) \cup AfterOrder(e)
      BY <2>2 DEF sendOrder, OrderEvents
    <3>2. \A f \in AfterOrder(e) : f.kind \in VdaKind
      BY DEF AfterOrder, Later, Event, VdaKind
    <3> QED
      BY <3>1, <3>2 DEF VdaInv, Cancel
  <2>3. CASE sendState(e)
    <3>1. \A f \in events' :
            \/ f \in events
            \/ \E kind \in {"sendState", "sendOrder"} : \E delay, nth :
                 f = Later(e, kind, delay, nth)
      BY <2>3 DEF sendState
    <3> QED
      BY <3>1 DEF VdaInv, VdaKind, Later, Event
  <2> QED
    BY <1>2, <2>1, <2>2, <2>3
<1>4. \A i \in DOMAIN out' : OfVda(out'[i])
  <2>1. ASSUME NEW c, out' = <<c>>, OfVda(c)
        PROVE  \A i \in DOMAIN out' : OfVda(out'[i])
    <3>1. DOMAIN out' = {1} /\ out'[1] = c
      BY <2>1, TwoList
    <3> QED
      BY <2>1, <3>1
  <2>2. ASSUME NEW c, NEW d, out' = <<c, d>>, OfVda(c), OfVda(d)
        PROVE  \A i \in DOMAIN out' : OfVda(out'[i])
    <3>1. DOMAIN out' = {1, 2} /\ out'[1] = c /\ out'[2] = d
      BY <2>2, TwoList
    <3> QED
      BY <2>2, <3>1
  <2>3. CASE \/ sendConnection(e) \/ sendFactsheet(e) \/ sendVisualization(e)
             \/ sendState(e)
    <3>1. \E topic \in {"connection", "state", "factsheet", "visualization"} : \E msg :
            out' = <<executeCommandUe("PUBLISH_VDA", topic, msg)>>
      BY <2>3 DEF sendConnection, sendFactsheet, sendVisualization, sendState
    <3>2. \A topic \in {"connection", "state", "factsheet", "visualization"} :
            \A msg : OfVda(executeCommandUe("PUBLISH_VDA", topic, msg))
      BY DEF OfVda, executeCommandUe, CommandFor
    <3> QED
      BY <2>1, <3>1, <3>2
  <2>4. CASE sendFactsheetRequest(e) \/ sendOrder(e)
    <3>1. \E topic \in {"instantActions", "order"} : \E msg :
            out' = <<executeCommandBase("PUBLISH_VDA", topic, msg)>>
      BY <2>4 DEF sendFactsheetRequest, instantActions, sendOrder
    <3>2. \A topic \in {"instantActions", "order"} :
            \A msg : OfVda(executeCommandBase("PUBLISH_VDA", topic, msg))
      BY DEF OfVda, executeCommandBase, CommandFor
    <3> QED
      BY <2>1, <3>1, <3>2
  <2>5. CASE Stop(e)
    <3>1. /\ OfVda(executeCommandUe("EXIT", "", Plain("")))
          /\ OfVda(executeCommandBase("EXIT", "Test", Plain("Test")))
      BY DEF OfVda, executeCommandUe, executeCommandBase, CommandFor
    <3>2. out' = <<executeCommandUe("EXIT", "", Plain("")),
                   executeCommandBase("EXIT", "Test", Plain("Test"))>>
      BY <2>5 DEF Stop
    <3> QED
      BY <2>2, <3>1, <3>2
  <2> QED
    BY <1>2, <2>3, <2>4, <2>5
<1> QED
  BY <1>3, <1>4 DEF VdaInv, workerVars

LEMMA VdaStep ==
  ASSUME TypeOK, SysInv, VdaInv, [SysNext]_sysVars
  PROVE  VdaInv'
<1>1. /\ pipe \in [Worker -> Seq(Command)]
      /\ out \in Seq(Command)
  BY WorkerTypes DEF SysInv, TypeOK
<1>2. CASE Send /\ W!Accept(Head(out).to, Head(out))
  <2>1. /\ out # <<>> /\ out' = Tail(out) /\ events' = events
    BY <1>2 DEF Send, queue
  <2>2. /\ \A i \in DOMAIN out' : i + 1 \in DOMAIN out /\ out'[i] = out[i + 1]
        /\ OfVda(Head(out)) /\ Head(out) \in Command
    BY <1>1, <2>1, TailList DEF VdaInv
  <2>3. PICK c, v : c = Head(out) /\ v = Head(out).to
    OBVIOUS
  <2>4. pipe' = [pipe EXCEPT ![v] = Append(@, c)]
    BY <1>2, <2>3 DEF W!Accept
  <2>5. ASSUME NEW w \in Worker, NEW i \in DOMAIN pipe'[w]
        PROVE  OfVda(pipe'[w][i])
    <3>1. CASE w = v
      <4>1. pipe'[w] = Append(pipe[w], c)
        BY <1>1, <2>4, <3>1
      <4>2. \/ i \in DOMAIN pipe[w] /\ pipe'[w][i] = pipe[w][i]
            \/ pipe'[w][i] = c
        BY <1>1, <2>2, <2>3, <2>5, <4>1, AppendList
      <4> QED
        BY <2>2, <2>3, <4>2 DEF VdaInv
    <3>2. CASE w # v
      <4>1. pipe'[w] = pipe[w]
        BY <1>1, <2>4, <3>2
      <4> QED
        BY <2>5, <4>1 DEF VdaInv
    <3> QED
      BY <3>1, <3>2
  <2> QED
    BY <2>1, <2>2, <2>5 DEF VdaInv
<1>3. ASSUME NEW w \in Worker, W!Step(w), UNCHANGED vars
      PROVE  VdaInv'
  <2>1. ASSUME NEW v \in Worker, NEW i \in DOMAIN pipe'[v]
        PROVE  OfVda(pipe'[v][i])
    <3>1. CASE pipe'[v] = pipe[v]
      BY <2>1, <3>1 DEF VdaInv
    <3>2. CASE pipe'[v] = <<>>
      BY <2>1, <3>2, TwoList
    <3>3. CASE pipe[v] # <<>> /\ pipe'[v] = Tail(pipe[v])
      <4>1. i + 1 \in DOMAIN pipe[v] /\ pipe'[v][i] = pipe[v][i + 1]
        BY <1>1, <2>1, <3>3, TailList
      <4> QED
        BY <4>1 DEF VdaInv
    <3> QED
      BY <1>3, <3>1, <3>2, <3>3, PipeShrinks
  <2> QED
    BY <1>3, <2>1 DEF VdaInv, vars, queue
<1>4. CASE UNCHANGED vars /\ UNCHANGED workerVars
  BY <1>4 DEF VdaInv, vars, workerVars, queue
<1> QED
  BY <1>2, <1>3, <1>4, HandlerVda, SysSteps

LEMMA DeclaredAhead ==
  ASSUME NEW w, NEW type, NEW topic, W!Declared(w, type) # {}
  PROVE  /\ W!Main(w).publishers # {}
         /\ <<W!Main(w).sends[type], topic>> \in W!Main(w).publishers
              => topic \in W!Declared(w, type)
<1>1. setup_.predeclare_publisher /\ W!Main(w).publishers # {}
  BY DEF W!Declared
<1>2. ASSUME NEW q \in W!Main(w).publishers, q[1] = W!Main(w).sends[type]
      PROVE  q[2] \in W!Declared(w, type)
  BY <1>1, <1>2 DEF W!Declared
<1>3. ASSUME NEW q, q = <<W!Main(w).sends[type], topic>>
      PROVE  q[1] = W!Main(w).sends[type] /\ q[2] = topic
  BY <1>3
<1> QED
  BY <1>1, <1>2, <1>3

(* Of what is sent without teleoperation every topic has its publisher.    *)
LEMMA VdaPublishable ==
  ASSUME NEW w \in Worker, NEW c, OfVda(c), c.to = w, c.type # "EXIT"
  PROVE  W!Publishable(w, c)
<1>1. CASE w = "ue"
  <2>1. /\ c.topic \in {"connection", "state", "factsheet", "visualization"}
        /\ c.type = "PUBLISH_VDA"
    BY <1>1 DEF OfVda
  <2>2. W!Main("ue").sends["PUBLISH_VDA"] = "ue vda"
    BY DEF W!Main, W!Program, W!ue_mqtt, W!ue_zenoh
  <2>3. \/ W!Main("ue").publishers = {}
        \/ <<"ue vda", c.topic>> \in W!Main("ue").publishers
    BY <2>1 DEF W!Main, W!Program, W!ue_mqtt, W!ue_zenoh, W!Of
  <2> QED
    BY <1>1, <2>1, <2>2, <2>3, DeclaredAhead DEF W!Publishable
<1>2. CASE w = "base"
  <2>1. /\ c.topic \in {"instantActions", "order"}
        /\ c.type = "PUBLISH_VDA"
    BY <1>2 DEF OfVda
  <2>2. W!Main("base").sends["PUBLISH_VDA"] = "base"
    BY DEF W!Main, W!Program, W!base_mqtt, W!base_zenoh
  <2>3. \/ W!Main("base").publishers = {}
        \/ <<"base", c.topic>> \in W!Main("base").publishers
    BY <2>1 DEF W!Main, W!Program, W!base_mqtt, W!base_zenoh, W!Of
  <2> QED
    BY <1>2, <2>1, <2>2, <2>3, DeclaredAhead DEF W!Publishable
<1> QED
  BY <1>1, <1>2 DEF Worker

(* Without teleoperation nothing throws, whether or not publishers are     *)
(* declared ahead.                                                         *)
LEMMA NothingThrowsVda ==
  ASSUME ~setup_.lossy, VdaInv, TypeOK, SysInv,
         NEW w \in Worker, pipe[w] # <<>>
  PROVE  ~W!Throws(w, Head(pipe[w]))
<1>1. PICK c : c = Head(pipe[w])
  OBVIOUS
<1>2. c = pipe[w][1] /\ 1 \in DOMAIN pipe[w]
  BY <1>1, WorkerTypes, TailList DEF SysInv
<1>3. OfVda(c) /\ c.to = w
  BY <1>2 DEF VdaInv, SysInv, PipeInv
<1> QED
  BY <1>1, <1>3, VdaPublishable DEF W!Throws, W!Publishes, OfVda

LEMMA RunIsFixed ==
  ASSUME [SysNext]_sysVars
  PROVE  setup_' = setup_ /\ cfg_' = cfg_
<1>1. [Next]_vars
  BY ControllerStep
<1>2. setup_' = setup_
  BY SysSteps, WorkerSteps DEF workerVars, W!Accept
<1> QED
  BY <1>1, <1>2, ConfigFixed

(* A process ends before its EXIT for one of two causes only: its MQTT     *)
(* connection is missing, or it is Zenoh's with publishers declared ahead  *)
(* in a run with teleoperation.  In all others every topic agv.cpp         *)
(* publishes has its publisher in ue_zenoh.cpp and base_zenoh.cpp, and     *)
(* video commands go to the process with the camera.                       *)
THEOREM CausesOfCrashes == SysSpec => []CrashHasCause
<1> DEFINE I == /\ CrashHasCause
                /\ cfg_.scenario = "VDA5050" => VdaInv
<1>1. SysInit => I
  BY InitVda, SameWorkers DEF SysInit, W!Init, CrashHasCause, NoCrash
<1>2. TypeOK /\ SysInv /\ I /\ [SysNext]_sysVars => I'
  <2> SUFFICES ASSUME TypeOK, SysInv, I, [SysNext]_sysVars
               PROVE  I'
    OBVIOUS
  <2>1. setup_' = setup_ /\ cfg_' = cfg_
    BY RunIsFixed
  <2>2. (cfg_.scenario = "VDA5050" => VdaInv)'
    BY <2>1, VdaStep
  <2>3. ASSUME ~setup_.lossy, NoCrash,
               ~(/\ setup_.stack = "zenoh" /\ setup_.predeclare_publisher
                 /\ cfg_.scenario = "TELEOP")
        PROVE  NoCrash'
    <3>1. CASE cfg_.scenario = "VDA5050"
      BY <2>3, <3>1, NothingThrowsVda, NoCrashStep
    <3>2. CASE cfg_.scenario = "TELEOP"
      BY <2>3, <3>2, NothingThrows, NoCrashStep
    <3>3. cfg_.scenario \in {"VDA5050", "TELEOP"}
      BY ConfigsAssumption DEF TypeOK, ConfigsAssumption, Config, Scenario
    <3> QED
      BY <3>1, <3>2, <3>3
  <2>4. CrashHasCause'
    BY <2>1, <2>3 DEF CrashHasCause
  <2> QED
    BY <2>2, <2>4
<1>3. SysSpec => []TypeOK
  BY ControllerInSystem, TypeCorrect, PTL
<1>4. I => CrashHasCause
  OBVIOUS
<1> QED
  BY <1>1, <1>2, <1>3, <1>4, SystemInvariant, PTL DEF SysSpec

(* The connection is there, and no publishers are declared ahead.          *)
Works ==
  \A s \in Setups : ~s.lossy /\ (s.stack = "zenoh" => ~s.predeclare_publisher)

(* With the connection there and no publisher declared ahead, no command   *)
(* the Controller sends ends a process, teleoperated or not.               *)
THEOREM NeverCrashes ==
  ASSUME Works
  PROVE  SysSpec => []NoCrash
<1>1. SysInv /\ CrashHasCause => NoCrash
  BY WorkerTypes DEF SysInv, Works, CrashHasCause
<1> QED
  BY <1>1, CausesOfCrashes, SystemInvariant, PTL
===============================================================================
