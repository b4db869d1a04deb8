# Verification of the VDA 5050 traffic generator

TLA+ specifications of the traffic generator in `src/`: what its processes do,
checked with TLC on small instances and, where it matters most, proved with TLAPS
for every configuration.

## 1. The system

Three kinds of process make VDA 5050 traffic. The **Controller** decides what is
sent and when; the **UE** (the mobile robot's radio) and the **Base** (the
master control) publish it over MQTT or Zenoh. Master control and robot are
*both* simulated inside the Controller, by one class.

```
            ns-3 event queue
                  |
 main()  -->  class Agv  -->  ControllerInterfaceZmq --push--> UE   --> broker / Zenoh
 (controller.cpp)  (agv.cpp)                         --push--> Base --> broker / Zenoh
```

| part | source | state it keeps | operations |
|---|---|---|---|
| Agv | `src/src/controller/agv.cpp`, `agv.h` | planned and released nodes and edges, three `EventId`s, `teleoperating_`, the order update counter | a constructor and 12 handlers run by ns-3; each sends commands and schedules or cancels others |
| Controller main | `src/src/controller/controller.cpp` | none | read the configuration or report what is wrong with it, run ns-3 until `length_s`, send `EXIT` to UE, then Base |
| ControllerInterfaceZmq | `src/src/controller/controller_interface_zmq.cpp` | one PUSH socket per process | `executeCommandUe`, `executeCommandBase`; `send` blocks |
| Main loop | `src/src/utils/main_loop.cpp` | the camera | receive a command and publish, start or stop video, leave, or throw |
| CameraStream | `src/src/utils/camera_stream.h` | a GStreamer pipeline | made at once; destroyed only after its state is known and a message is on its bus |
| UE, Base | `src/src/ue/*.cpp`, `src/src/base/*.cpp` | clients | declare publishers and subscribers, run the loop, write CSV |
| Zenoh, MQTT client | `src/src/zenoh/zenoh.cpp`, `src/src/mqtt/mqtt_client.cpp` | publishers, sent and received entries | publish, subscribe, receive, stop |
| Configuration | `src/src/controller/config.cpp` | none | YAML to `Config`, `int` to `uint32_t` |
| Commands, CSV | `src/src/utils/command.*` | none | message type, timestamps, CSV |

The Controller is one thread. Its concurrency is between *pending events*: a
handler cancels what another one scheduled, by an `EventId` it may or may not
have. UE and Base are processes of their own, connected by bounded pipes.

What is hard in it: chains of events that reschedule themselves and replace one
another (state, order, control, visualization); a delayed announcement of
teleoperation that reads a flag which may have changed since; four deques emptied
in step by two handlers; blocking sends to processes that can end; exceptions
nobody catches; a destructor that waits without a timeout. `PROJECT.json`
lists each with its line under "hazards".

What makes each part correct:

- *Agv*: one stream of states that never dies; one stream of orders; orders do
  not mix; deques in step; control commands only during teleoperation.
- *Controller and pipes*: every command reaches its process in order; the run ends.
- *UE and Base*: no command ends the process; video exactly while
  teleoperating; leaving is clean.
- *Clients*: no topic without a publisher; a recorded entry is a time of
  sending; the files are complete when written.
- *Configuration*: a sound file is accepted; what is accepted is what the file
  says; what is missing is reported.
- *CameraStream*: its destructor returns.

The committed `agv.cpp` lacks some semicolons and uses `node_state.nodePosition`,
which `NodeState` does not have; it is modelled by what those lines are
evidently meant to do (the JSON text only, no state is concerned).

## 2. The modules

| module | what it is |
|---|---|
| `Configuration` | the structures of `config.hpp` |
| `ConfigParser` | `parseConfig()` and what `main()` catches of it |
| `Commands` | the commands between the processes; payloads are a tag and, for orders and states, the node and edge lists |
| `EventQueue` | ns-3 (external): events with due time and number, `IsNext`, `Cancel` |
| `Controller` | class Agv and `main()`, one action per handler, plus `Stop` and `Send` |
| `StateReports` | `Controller` with the time of the last state report |
| `OrderExecution` | abstract specification: orders one after another, each travelled to its end |
| `TeleopSession` | abstract specification: the messages of one teleoperation |
| `Programs` | what the four programs set up: clients, publishers, subscribers, camera |
| `MainLoop` | UE and Base: `mainLoop()`, pipe, clients' exceptions, camera |
| `CameraStream` | class CameraStream over GStreamer (external), in detail |
| `System` | Controller, pipes, UE and Base together |
| `Recording` | what UE and Base record of the messages they exchange, and their CSV files |
| `MCController`, `MCReports`, `MCSystem`, `MCRecording`, `MCConfigParser`, `MCCameraStream` | instances for TLC |
| `ControllerProofs` | types and lockstep of the deques |
| `StreamProofs` | state, order and control streams |
| `RefinementProofs` | refinement of `OrderExecution` and of `TeleopSession` |
| `RouteProofs` | order of the nodes, how many are in the deques, and how long the robot is silent |
| `CameraProofs` | the destructor's waits, and refinement of `MainLoop` |
| `SystemProofs` | the composition: clean ends, crashes, who waits for whom, video, control commands at Base |
| `RecordingProofs` | types, recorded entries and complete files |
| `ConfigProofs` | what is accepted is what was written, and what is sound is accepted |

Which composes which: `System` EXTENDS `Controller` and instantiates
`MainLoop`; `CameraStream` implements the video part of `MainLoop`; `Controller`
implements `OrderExecution` and `TeleopSession`; `MainLoop` and `Recording` both
take the four programs from `Programs`; `ConfigParser` produces the `Config` of
`Configuration` that `Controller` starts from.

### ConfigParser

`read` counts the calls of `getValue()` that have returned, in the order of the
code, and `cfg_` holds the members set so far. A file is the kind of node each
section is and the value each of its keys has. `Lookup` is what yaml-cpp (external)
does with `node[name]`: `config["vda5050"]` is looked up in a `YAML::Node` that is not
const and becomes a null when it is missing, `node["teleop"]` in a const one
and becomes a node that throws. `Converted` is the assignment of an `int` to a
member that may be `uint32_t`, modulo `Word`. `outcome` is what `main()` makes of
it: "rejected" is the caught `std::invalid_argument`, "terminated" an exception
that is not caught. The parser's value of `scenario` and the other texts are
names, and a number is one that an `int` holds (`Readable`, a conjunct of
`ParserAssumption`); the instance for TLC has `Word = 64`, an `int` of six bits. The
random seed, manufacturer and serial number are read but not used by the
other modules.

### Controller

`cfg_`, the four deques, `next_state_`, `next_order_`, `next_control_`,
`order_update_id_` and `teleoperating_` are the members of Agv of the same name.
`now`, `events` and `uid` are ns-3's clock, pending events and the number of the
next event. `running` is false when `Simulator::Run()` has returned; `out` holds
the commands of the current handler that are not sent yet.

An action `handler(e)` is a whole handler, run for event `e`: its guard `Runs`
says that `e` is the earliest event (with the smaller number among events of one
time, as ns-3 does) and that the previous handler has sent everything. The code
sends in the middle of a handler and blocks there; since no other thread looks at
the members, the model changes them first and sends afterwards (`Send`). `Later`
is `Simulator::Schedule`; when a handler skips a `Schedule` call its number
stays unused, which preserves the order of numbers, the only thing they are for.
An `EventId` member is the number of its event; `NoEvent` is the
default-constructed one.

Left out: names, positions and speeds drawn at random, the wording of JSON, logs,
`ShowProgress` (it prints and reschedules itself). Kept of a list in a message:
its items and whether its bracket is still there, because `pop_back()` acts
on that (`JsonList`). The lengths drawn from `mt19937` are nondeterministic: the
model has every run that some seed could give, and some that none does.

All times have one unit. The durations are configuration, so the model
has no bound on time but `length_s`, at which the code itself stops.

`ConfigsAssumption` says what the code takes for granted and `parseConfig` does not
check: `1 <= order_len_min <= order_len_max` (otherwise
`uniform_int_distribution` and `pop_front()` are undefined). Delays may be zero.
`start_s` and `stop_s` may be in either order, as nothing in the code forbids it;
what holds only if teleoperation stops after it starts has that as a hypothesis,
`StopsAfterStart`. With the stop first the robot is teleoperated for ever, the
restart and the announcement of the stop are still to come when it begins, there may
be two control streams, and `OneCamera` can fail. `StrayStreamsBounded` is what is left.

`StateReports` adds a history variable, `reported`: when the last state was
published. No step reads it.

### Programs, MainLoop and System

`Programs` has a record for each of the four programs, with the lists of topics their
`main()` functions keep by hand: the clients in the order in which they are stopped, the
publishers that are declared if `predeclare_publisher` is set, the subscribers of
each client, the client that each kind of command is sent by, and the flag
`use_camera`. `base_zenoh` does not subscribe to `teleop_state` while `base_mqtt`
does, nobody subscribes to `teleoperationCapabilities`, and `base_zenoh` is
started with the camera on: the lists are as the programs have them.

`pc[w]` is where process `w` stands, `pipe[w]` its ZeroMQ pipe, `cameras[w]` how
many video pipelines it has alive. `Accept` is the other side of `send()`: it
needs a connected peer and room for a command (`HighWaterMark`). The branches of
`mainLoop()` are `Publish`, `StartVideo`, `StopVideo`, `Exit` and, for everything
that throws, `Crash`. `CameraClosed` is the return of `~CameraStream()`. `setup_`
is what distinguishes the programs' builds and settings: MQTT or Zenoh,
`predeclare_publisher`, and whether the MQTT connection may be missing (`lossy`):
then the constructor of the client throws before the process takes a command
(`StartFails`), or `publish` throws later. A process that crashes loses its pipe and
its camera, and is not restarted: nothing in the repository restarts it. "exited" is the
return from `mainLoop()`; that `stop()` may throw after it is in `Recording`.

`System` interleaves the Controller's handlers (`Simulate`), `executeCommand`
(`Send` together with `Accept`) and the steps of both processes.

### CameraStream

`camera` is the `unique_ptr` of `mainLoop()`, `closing` the pipeline whose destructor is
running. A pipeline has a state ("changing" until the asynchronous change to playing
is over, then "playing" or "failed"), the messages on its `bus`, whether it was sent
the end of the stream, and whether the destructor has passed
`gst_element_get_state()` (`asked`). `GetState` and `PopMessage` are the two waits, neither
of which has a timeout. GStreamer is external: `Changed`, `Broken` and `Drained`
are what may become of a pipeline. Seen from the loop this is `MainLoop`
with one process and no other commands (`ImplementsMainLoop`), which justifies
`CameraClosed` as one step there. The commands come in any order here, the ones
the Controller never sends included (two starts in a row, a stop without a start).

### Recording

The other side of the same two processes: their clients. `received_msgs_`,
`send_entries_` are the members of `Client` and `Zenoh` of that name; an entry keeps
its topic and whether its first characters are the time of sending (`stamped`).
`publish` is what `mainLoop()` and `publishMessage` do with a command, in one step,
as one thread does it; `message_arrived` is the callback on the client's thread and
may come at any time until `stop()` of that client. `Subscribe` is the moment a
subscription takes effect, which `subscribe()` does not wait for. The middleware
(external) keeps messages from one client to another in order and may lose any of
them. Commands come in any order; that the Controller's order is not used makes
the properties stronger.

Which messages bear a time is decided three times over: by `mainLoop()` of the sender
(`Stamps`, by the command's type and topic), by `message_arrived` of the MQTT client
(`ClientRecords`) and by `addEntry` of the Zenoh session (`ZenohRecords`, by the topic
alone). Each has its own `#ifdef EXCLUDE_TIMESTAMP_IN_TELEOP_STATE`, and they are
compiled into three libraries: `Utils` and `Mqtt` define the symbol if the CMake
option is set (`Defines`), `Zenoh` does not and has it only because it links `Utils`,
whose definition is `PUBLIC` (`Linked`, `Defined`). The option belongs to the machine a
program is built on, so that `build_` has it for each process; that both have it
alike is the hypothesis `BuiltAlike` of `EntriesAreTimestamps`. The code never sends
`teleop_state` to a Zenoh session that would pass it over, as `base_zenoh` does not
subscribe to it; `EntriesAreTimestamps` speaks of the topics that are subscribed to.

`place[w]` is where `main()` of a process stands: in `mainLoop()`, stopping its clients
("ending"), or ended by an exception nobody catches ("terminated"). The UE stops its two
clients one after the other and then writes the files. `link[c]` is a client's
connection: an MQTT connection may break (`Break`, where the build's `lossy` allows
it), and the next `publish` or `disconnect()->wait()` then throws (`Throw`), which ends the
process without its files.

Reading `received_msgs_` while a callback appends to it would be undefined behaviour
in the code; `CsvComplete` is what rules it out, since the files are written only
of clients that are stopped. That no callback still runs when `stop()` has returned
is a property of Paho and Zenoh (external) and is assumed.

## 3. What is checked

| run | instance | shows |
|---|---|---|
| `ControllerVda` | 6 configurations of the VDA5050 scenario, orders of 1 to 3 nodes, 24 ticks; continuation at once, between and slower than the steps | `TypeOK`, `OneStateStream`, `NodesAndEdgesInStep`, `OneOrderStream`, `RouteInOrder`, `ImplementsOrderExecution`, `Termination` |
| `ControllerTeleop` | 7 configurations of TELEOP, 26 or 34 ticks; teleoperation long, one tick, ended in the instant it starts, and stopped before it is announced | `TypeOK`, `OneStateStream`, `NodesAndEdgesInStep`, `OneOrderStream`, `OrderStreamsBounded`, `BacklogBounded`, `ControlOnlyWhileTeleoperating`, `ImplementsTeleopSession`, `Termination` |
| `StateReports` | 34 configurations: continuations slower than, as fast as and faster than the report after an order, orders up to 4 nodes; TELEOP with a fast restart; TELEOP that stops before it starts | `OneStateStream`, `StrayStreamsBounded`, `StateSilenceBounded` |
| `System` | short runs of both scenarios, MQTT and Zenoh without predeclared publishers, pipes of two | `WorkersTypeOK`, `NoCrash`, `CleanExit`, `OneCamera`, `ControlBracketed`, `VideoFollowsTeleoperation`, `AllExit` |
| `SystemFailure` | the same with MQTT connections that may be missing, and Zenoh with predeclared publishers, as `ue.yaml:15` and `base.yaml:13` have it | `CleanExit`, `NoStandstill`, `CrashHasCause`, `EndsOrStalls` |
| `Recording` | MQTT built with `EXCLUDE_TIMESTAMP_IN_TELEOP_STATE` on both machines and with connections that break, on one and on none, Zenoh on both; four topics, two messages of each process | `TypeOK`, `EntriesAreTimestamps`, `CsvComplete`, `AllWritten` |
| `ConfigParser` | the shipped file with other values, and every file that differs from it in one parameter (negative, 0, another number, a list, a word, missing) or one section (null, scalar, missing) | `SoundFilesStart`, `AcceptedAsWritten` |
| `CameraStream` | every order of up to four video commands before the end | `BusAnswers`, `VideoEnds`, `ImplementsMainLoop` |
| `ConfigSections` | as `ConfigParser` | violated: `MissingParameterReported` |
| `TeleopOrder` | as `ControllerTeleop` | violated: `NoOrderWhileTeleoperating` |
| `StateJson` | as `ControllerVda` | violated: `ListsWellFormed` |
| `ZenohPublishers` | TELEOP with predeclared publishers | violated: `NoCrash` |

Bounds. An order of 3 nodes can be released in one, two or three parts, and a
continuation can fall before, onto and after every step; 24 ticks hold two
orders, 34 an order, a teleoperation and the orders after it, with the stray
stream. For the silence of the state reports orders have up to 4 nodes, so that three
continuations in a row can postpone a report that is about to come. Two commands
fill a pipe, so that the Controller blocks while a camera
closes and the processes drift apart by as much as a pipe allows. The system
runs are shorter because what they add does not depend on how many orders there
are. For `Recording` the four topics have one for each client and the excluded
one, and the builds each way the option can be set; two messages let one arrive before the receiver stops and one after. A file that
differs from the shipped one in one place is enough for `ConfigParser`, because a
parameter is read without regard to the others. Four video commands hold a
restart in the middle of a video and another after its end.
The delays keep the order they have in `config.yaml` or turn it around where
the code's outcome depends on it.

`SystemFailure` switches deadlock checking off, because the system does stop
there: `EndsOrStalls` says how, and `NoStandstill` that it stops in no other way (no
circle of the Controller in `send()` and a process in `recv()`, no process left
without its `EXIT`). So does the violation run
`ZenohPublishers`, for the same reason. Everywhere else a state without a
successor would be an error; `Terminated`, `SysTerminated`, `Decided` and
`Ended` are the ends.

Fairness. `FairSpec` of `Controller` is `WF(Next)`: a single thread that goes on,
with sends that return. `SysFairSpec` has it for each process, and for `send()` once
there is a peer and room, which ZeroMQ's I/O thread provides; for `CameraClosed`
it is what `VideoEnds` of `CameraStream` shows, from `WF(Process)` and `WF(Proceeds)`:
every change of state ends and a playing pipeline passes on the end of the stream.
That is an assumption on GStreamer, as the code has no timeout there; an error that
left a change of state pending would hold the destructor in
`gst_element_get_state()` (`src/src/utils/camera_stream.h:35`) for ever. `Recording` has `WF(Ends(w))` once
a process has left its loop and `WF(Leave(w))` as long as neither has failed:
`EXIT` reaches a process (`AllExit`) and `disconnect()->wait()` returns; nothing is
assumed of the middleware. `Termination` and `AllExit` also need every period to be at
least one tick: with a period of 0 ns-3 never advances (a hazard on the list).
The safety properties and all the proofs allow 0.

`StateSilenceBounded` is a bound in the configuration's own terms: from one report to
the next at most `Interval`, and `Postponed` more by the continuations of an order
or `PostponedByTeleoperation` more by what surrounds teleoperation.

### Disagreements found

1. `startTeleoperation` cancels `next_order_` and clears the route, and
   `stopTeleoperation` has "Restart order simulation", but the continuation
   that `sendOrder` schedules (`agv.cpp:125`) is in no `EventId`. A continuation
   pending at the start begins a *new* order during teleoperation, and afterwards
   there can be two order streams. `OrderStreamsBounded` shows it gets no worse.
2. `json.pop_back();  // Remove trailing ,` removes the `[` when the list is empty:
   every idle state message, the first one included, is malformed.
3. `ue_zenoh` declares a publisher for `teleop_capabilities`, `agv.cpp` publishes
   `teleoperationCapabilities`; with `predeclare_publisher: true`, which
   `ue.yaml` has, `publisher_.at()` throws and the UE ends. The Controller then
   stands in `send()`, and the Base never gets its `EXIT`.
4. A missing parameter is reported ("Missing parameter ..."), and a missing section
   `vda5050` too, but a missing section `teleop` ends the Controller with an uncaught
   `YAML::InvalidNode`, in the VDA5050 scenario as well, because the section is
   always read (`config.cpp:68`).

## 4. What is proved

Eight modules hold theorems; every one of them is for all values of the constants
that satisfy the named assumptions. For every set `Configs` that satisfies
`ConfigsAssumption`:

| theorem | statement | hypothesis |
|---|---|---|
| `TypeCorrect` | `Spec => []TypeOK` | |
| `InStep` | `Spec => []NodesAndEdgesInStep` | |
| `StateStream` | `Spec => []OneStateStream` | |
| `Strays` | `Spec => []StrayStreamsBounded` | |
| `OrderStream` | `Spec => []OneOrderStream` | |
| `OrderStreams` | `Spec => []OrderStreamsBounded` | `StopsAfterStart` |
| `ControlStream` | `Spec => []ControlOnlyWhileTeleoperating` | `StopsAfterStart` |
| `InOrder` | `Spec => []RouteInOrder` | |
| `Backlogs` | `Spec => []BacklogBounded` | |
| `SilenceBounded` | `ReportsSpec => []StateSilenceBounded` | |
| `SessionRefinement` | `Spec => ImplementsTeleopSession` | `StopsAfterStart` |
| `Refinement` | `Spec => ImplementsOrderExecution` | `WithoutTeleop` |

For the system, for every `Configs`, `Setups` and `HighWaterMark` that satisfy
`ConfigsAssumption` and `SetupsAssumption`:

| theorem | statement | hypothesis |
|---|---|---|
| `ControllerInSystem` | `SysSpec => Spec` | |
| `WorkersTyped` | `SysSpec => []WorkersTypeOK` | |
| `CleanExits` | `SysSpec => []CleanExit` | |
| `NobodyWaits` | `SysSpec => []NoStandstill` | |
| `CausesOfCrashes` | `SysSpec => []CrashHasCause` | |
| `NeverCrashes` | `SysSpec => []NoCrash` | `Works` |
| `Bracketed` | `SysSpec => []ControlBracketed` | `StopsAfterStart` |
| `OneCameraEver` | `SysSpec => []OneCamera` | `StopsAfterStart` |
| `VideoFollows` | `SysSpec => []VideoFollowsTeleoperation` | `StopsAfterStart` |

For every set of command sequences (`CameraStream`), for all builds, topics and numbers
of messages (`RecordingAssumption`), and for all files and widths of `uint32_t`
(`ParserAssumption`):

| theorem | statement |
|---|---|
| `BusIsAnswered` | `Spec => []BusAnswers` |
| `CameraRefinement` | `Spec => ImplementsMainLoop` |
| `RecordingTyped` | `Spec => []TypeOK` |
| `Timestamps` | `Spec => []EntriesAreTimestamps` |
| `CompleteFiles` | `Spec => []CsvComplete` |
| `Written` | `Spec => []AcceptedAsWritten` |
| `SoundStart` | `Spec => []SoundFilesStart` |

`WithoutTeleop`: no configuration has scenario TELEOP. With it `OrderExecution` is
not implemented, because `startTeleoperation` drops the route in the middle.
`Works`: no setup is `lossy` and none uses Zenoh with `predeclare_publisher`, the
setting of disagreement 3. `CrashHasCause` allows a crash in a
`lossy` setup and, in the TELEOP scenario, with predeclared publishers, and nowhere else. `StopsAfterStart` is explained with `Controller`
above.

The argument, in the order of the modules:

1. *Types and lockstep* are one invariant (`Lockstep`). Types alone are not
   inductive: that `SubSeq` and `Tail` yield sequences needs the deques to be non-empty
   where the code pops them, which is what lockstep says; and lockstep needs the
   types. `QueueStep` is the lemma behind the event queue: a handler that removes
   its event and adds events at its own time plus a delay, with fresh numbers, keeps
   the queue well formed.
2. *Streams* (`StreamInv`). `OneStateStream` needs `NamesOK`: an `EventId` member
   never names an event of another kind, so that a `Cancel` with a stale id hits
   nothing it should not. `OrderInv` counts tokens: a pending `sendOrder`, or a last leg
   whose final `sendState` will schedule it. `ControlInv` relates the control stream
   to the announcements still pending; a start and a stop each have at
   most one (`TogglesOK`), and the stop is still to come while teleoperating
   (`StopPending`). That the start runs before the stop follows from
   `start_s <= stop_s` and from their numbers, 7 and 8. `Strays` does without: it counts
   the toggles still to come and the streams they may leave together.
3. *Refinement of `OrderExecution`*. `horizon` is the number of planned nodes, `base`
   that of released nodes and edges. Every `sendOrder` is `NewOrder` or `Extend`: when
   nothing is planned, nothing is released either, since on a last leg no
   `sendOrder` is pending (`OneOrderStream`). Every `sendState` is `Travel` or
   a stutter.
4. *Routes* (`RouteInv`). The deques hold at most two orders once the stop of teleoperation
   has restarted them (`Restarted`), and one before. The bound is not inductive by
   itself: it has to be said when a second order can still be added. Two order
   streams, or one stream and a last leg whose end will begin another, exist only
   while at most one order is in the deques (`Crowded`). That orders do not mix is said
   up to the first toggle, whichever comes first (`Untouched`), so that neither
   theorem needs the toggles in their order.
5. *Silence* (`SilenceInv`), in `RouteProofs` as it needs the routes. What a report has
   already been postponed by says nothing about the next step. The invariant bounds
   it together with what is still ahead: every `sendOrder` pays for its delay with
   one of the orders and continuations that can still come (`OrdersAhead`: the
   streams there are share what is planned, and each toggle to come may add an order
   of full length), every toggle with itself (`TogglesAhead`). Without teleoperation the
   bound is finer, and the one stream is in one of three states: nothing has postponed
   the report (`FreshReport`), each continuation falls before the report that the
   one before it scheduled (`Continued`), or the next one falls behind the report
   and will not postpone it (`Overtaken`).
6. *Refinement of `TeleopSession`*. The phase is a function of the toggles and
   announcements still pending and of `next_control_`; what is said is the head of
   `out`. The stop that overtakes the announcement of its start is the case
   the invariant is about: both announcements then find `teleoperating_` false.
7. *Camera* (`CameraInv`). A pipeline that has failed has an error on its bus; the end of
   the stream is sent exactly to one that plays when the destructor has
   passed its first wait. Each step of the detail is a step of `MainLoop` or
   changes nothing the loop can see.
8. *System*. The Controller behaves in the system as alone (`ControllerInSystem`), so
   that all of the above holds there. `CleanExit` needs that after an `EXIT`, in the pipe
   or in `out`, no command for the same process follows. `NobodyWaits` needs the converse:
   as long as a process has not taken its `EXIT`, that command is in its pipe, in
   `out`, or still to be issued by a Controller that runs (`ExitAhead`); and a Controller that
   runs has an event to run, because a set of events has an earliest one
   (`NextThereIs`; the prover's library gives well-foundedness only for finite sets
   under inclusion, from which `LeastNumber` takes it). `Bracketed` relates the commands on
   their way to Base (`pipe["base"] \o out`) to the phase of the session. The
   video theorems (`VideoInvariant`) read the commands still ahead of the UE, where it
   stands and the phase together: the video commands ahead alternate in the way that
   fits the phase (`VideoFits`), wherever the UE is. `CausesOfCrashes` follows what `agv.cpp` sends without
   teleoperation from the handlers through `out` and the pipes (`VdaInv`), and compares
   it with the topics the programs declare.
9. *Recording* (`RecInv`). `EntriesAreTimestamps` needs the same of the messages
   on their way (`Marked`): under `BuiltAlike` a message bears its time exactly if its
   topic is not excluded (`Kept`). That is shown of the sender's rule
   (`StampedTopics`) and of each receiver's own (`RecordedTopics`), library by library; `CsvComplete` needs that files are written only of
   processes whose clients are all stopped (`Written`), as a stopped client
   stays so and neither sends nor records.
10. *Configuration* (`ReadInv`). After `read` calls of `getValue()` the members set are
    exactly those of the first `read` parameters, each as converted, and all of them
    were found and could be converted. With `read` at its end these are all the members of
    the three structures, which is where a parameter that `parseConfig` forgot would
    show. `SoundStart` adds that no step of a sound file throws; what it
    concludes of the result is what `ConfigsAssumption` asks of a configuration.

Only model-checked is liveness: `Termination`, `AllExit`, `EndsOrStalls`, `AllWritten` and
`VideoEnds` (fairness is beyond the prover). Every invariant of a passing run and
every refinement has a theorem.

## 5. Not modelled

- The text of messages: what a timestamp written over the first 26 characters
  destroys (of `teleop_state`, 23 or 24 characters long, and of `control` all of it), and the
  JSON beyond its lists. Nothing in the repository reads a message again but for
  its time.
- Duplicates by the middleware, and the one message with quality of service 1
  (`connection`), which is treated like the others; it is subscribed to with 0.
- The configuration files of UE, Base and of the Zenoh session: a few addresses and flags.
- Broker, Zenoh routers, the 5G network, Docker files: external.
- `eval/`: statistics and plots over recorded files.
- More than one UE: `main()` makes one.
- `ShowProgress` and the two seconds `main()` sleeps after its `EXIT` commands.

## 6. Plan

Done, the most important behaviour first: `Controller` with its
streams, `OrderExecution` and its refinement, their proofs, `MainLoop` and `System`,
`Recording` with its proofs, `ConfigParser`, `CameraStream`, `StateReports`,
`TeleopSession`, and the proofs of routes, silence, session, camera, system and
configuration.

What would come next:

1. `System` and `Recording` composed: a process that fails in `stop()` or `publish`
   and what the Controller, standing in `send()`, makes of it. Today `Recording` has the
   failure and its files, `System` the Controller's side of it.
2. Payloads in `Recording` as header and content, should anything come to read the
   content.
