# Smart City: a verification project

The repository is a small "smart city": sensors that measure temperature and
humidity, relays that switch things, a gateway that keeps a list of them and
passes commands on, and clients. This directory holds TLA+ models of the parts
that run concurrently and fail independently and of the code that puts messages
into bytes, the TLC configurations that check them, and theorems about them
that TLAPS checks.

    tlc -workers 2 -config SensorCommand_safety.cfg MCSensorCommand
    tlapm SensorCommand_proofs.tla

All paths below are relative to the root of the repository.

## 1. The system

| Component | Source | State | Operations |
|---|---|---|---|
| Gateway | `src/gateway/smart_city_gateway.py` | `connected_devices` (under `device_lock`), `mqtt_responses` (under `mqtt_response_lock`), the MQTT client | a thread for each TCP connection (`handle_tcp_connection`: register a device, or serve a client's request), the MQTT thread (`on_message`), the discovery thread, and `main`, which cleans up every second |
| Java sensor | `src/devices/com/smartcity/sensors/TemperatureHumiditySensor.java` | `currentStatus`, `captureIntervalSeconds`, `scheduler`, `mqttClient` | start-up, command handler (the MQTT library's thread), readings (the scheduler's thread) |
| Sensor board | `esp8266-projects/temperature-sensor-board/temperature-sensor-board.ino` | `currentStatus`, `captureIntervalMs`, `gatewayFound`, `deviceRegistered` | `setup` and one `loop` |
| Java relay | `src/devices/actuators/RelayActuator.java` | `currentStatus`, the gateway's address | discovery thread, a thread for each command, announcements every 5 s |
| Relay board | `esp8266-projects/relay-actuator-board/relay-actuator-board.ino` | `lampStatus`, `gatewayDiscovered` | `setup` and one `loop` |
| Actuator bridge | `src/grpc_server/actuator_bridge_server.py` | a pool of ten threads | three gRPC methods, each one TCP exchange with a relay |
| HTTP API | `src/api/src/api_server.py` | a pool of threads, a connection for each request | endpoints that pass a request on to the gateway |
| Web page | `src/front-end/smart-city-front/src` | `devices`, `loading`, `sensorState`, the `_toggleRelay` each lamp left behind | buttons, effects, answers |
| Command line | `src/client-test/smart_city_client.py` | none | one request, one result |
| nanopb and lengths | `pb_encode.c`, `pb_decode.c` of the boards, the `*_delimited_*` functions of each program | a stream | encode, decode, frame |
| MQTT broker, paho | external | queues, subscriptions, sessions | delivery |

How they interact. The gateway announces itself by multicast every 10 seconds.
A device that hears it sends its `DeviceInfo` over TCP and is entered in
`connected_devices`; a relay repeats that every 5 seconds, a sensor does not.
A sensor publishes a reading every 5 seconds over MQTT (QoS 0), which refreshes
its `last_seen`; whoever was silent for 15 seconds is removed. A client sends the
gateway a request over TCP. A command to a sensor is published (QoS 1) under a
fresh `request_id`, and the thread polls `mqtt_responses` for ten seconds; a
command to a relay is a gRPC call to the bridge, which sends it over TCP. The
page and the command line reach the gateway through the HTTP API. On UDP,
TCP and MQTT the contents are protobuf (readings: JSON), on TCP behind a length.

What is hard about it:

* many threads of the gateway, two locks, and state that is read under a lock
  and used after it (`send_command_to_device` holds a response and writes the
  status later; the response handler has two critical sections);
* two threads in the Java sensor, and any number in the Java relay, that share
  `currentStatus` without a lock;
* pools of threads, which may be full (bridge, API);
* a page that shows what it asked for, with several requests at a time;
* messages that break off, longer than the buffer, or of a newer version;
* messages that are lost, late or repeated; connections that break at both ends;
* timeouts of different length around one another (5, 10 and 15 seconds), and
  clocks of different machines that are compared;
* restarts: of a device, and of the gateway, which forgets everything.

`PROJECT.json` lists each of these hazards at the line where it bites, with the
properties that watch it.

What makes each component correct:

* command path: one answer for each request, from its own device; SUCCESS only
  if the device carried the command out; the wait ends; nothing is left behind;
* registry: who works is listed, who is gone is not, whoever restarted;
* status: the list shows the status the device has;
* sensor: IDLE is silent; a reconnection restores what a connection gave;
* relay and bridge: the answer is a state the relay really had while the call
  was open; no command is carried out late over a newer one; every call ends;
* API and clients: the result is the gateway's answer to that command and no
  other; the page shows only what was commanded; nothing waits for ever;
* codec: both sides agree on the contents, in the whole, in parts and with
  unknown fields; nothing is written or read beyond a buffer; a message that was
  cut is not obeyed.

## 2. Plan

| Step | Module | Subject | Abstract specification, composition | Runs | Theorems | State |
|---|---|---|---|---|---|---|
| 1 | `SensorCommand` | a command to a sensor and back | implements `DeviceCall` | safety, liveness, status; three divergences | types, answers, responses, statuses, refinement | done |
| 2 | `DeviceRegistry` | who is listed | - | presence; two divergences | types, working sensors are kept | done |
| 3 | `ActuatorCommand` | gateway, bridge and relay: two lookups, five-second timeout, relay threads without a lock | implements `DeviceCall`, too | one run | types, answers, late commands, refinement | done |
| 4 | `SensorCommand` | LIST_DEVICES against GET_DEVICE_STATUS | - | - | - | no property holds, see section 9 |
| 5 | `DeviceRegistry` | intervals that SET_FREQ changes, answers that are lost | - | in presence | in step 2's, for any longest interval | done |
| 6 | `Varint`, `Framing`, `WireFormat`; `Nanopb`, `BoardCodec` | bytes of messages and of lengths | reference definitions of merging, fitting and varints; `BoardCodec` contains `WireFormat` | one run | varints, frames, what fits, buffers, merging, round trips, unknown fields, cuts | done |
| 7 | `ClientPath` | page, command line and API over the gateway | uses `DeviceCall` below, implements it above: composes with 1 and 3 | one run | types, answers, what is shown, refinement | done |

## 3. SensorCommand

One variable for each piece of state that two parties share.

| Model | Code |
|---|---|
| `connected_devices[s]` | the entry of sensor `s`: `status` and, once a reading has arrived, the status in `last_data`; `None` when there is no entry |
| `mqtt_responses[c]` | the response stored under the request_id `c` |
| `callback` | the MQTT thread between the two critical sections of `handle_mqtt_command_response` |
| `calls[c]` | the thread that serves request `c`: waiting in the loop of `send_mqtt_command` ("polling"), holding a response ("update"), or done with an outcome |
| `outbox`, `gatewayUp` | paho's queue of QoS 1 messages and its connection |
| `cmds`, `replies`, `link` | the broker: commands on their way to a sensor, its messages on their way back, its connection and subscription |
| `sensor`, `reading` | `currentStatus`, whether the interval is zero seconds, whether the scheduler lives; the reading a scheduler thread is making |
| `verdicts` | history: what the sensors answered to each call |
| `now`, `faults` | the gateway's clock; the faults so far |

A call *is* its `request_id`, since `uuid4` never repeats. Actions are what one
thread does between two points at which others can see it. `SendCommand` covers
the lookup and the publication, since nothing in between touches shared state;
`PopResponse`, `GiveUp` and `UpdateDevice` are the rest of the thread.
`HandleCommandResponse` and `ApplyResponseStatus` are the two halves of the
response handler; `HandleSensorData` is the other handler. `CleanResponses` and
`RemoveOffline` are the two clean-ups of `main`. `HandleCommand` is the whole
handler of a sensor, response included (the Java sensor replaces its scheduler before
it sets `currentStatus`; what the scheduler's thread can see between the two, it can
see before or after them, so that one step is enough); `HandleCommandOffline` is the same with
a connection that breaks before the response (the board reconnects and tries once
more, the Java sensor does not). `CheckStatus`, `BuildReading` and
`PublishReading` are the three points at which the Java sensor's scheduler
thread reads or shows shared state, one reading of a sensor at a time; the board's `LoopPublish` is one step. paho
and the broker are external and modelled from how the code uses them: QoS 1 with
repetition after a lost acknowledgement (`BrokerAcceptAckLost`), clean sessions,
QoS 0 subscriptions of the gateway, a message that stays queued when
`publish` returns an error.

`Lag[s]` is the difference between the gateway's clock and the clock with which
`s` stamps: zero or a few seconds for a Java sensor, unbounded for a board, which
stamps its uptime. A `SET_FREQ` is abstracted to three kinds: a valid interval, one below a
second, which the Java sensor rounds to zero and `scheduleAtFixedRate` rejects,
and one that is not accepted. `RemoveOffline` may happen at any moment, which
includes the moments at which the code does it; when it does is the subject of
`DeviceRegistry`.

`DeviceCall` says what a client may rely on, whatever carries its command:
one answer, and SUCCESS only after the device accepted. `SensorCommand` implements
it under the mapping at its end (`stage` from a thread's `pc` and
`outcome`, `accepted` from `verdicts`). It promises nothing about FAILED because the
code does not: a command that failed may have been, or may still be, carried out.

### Properties and runs

| Run | Instance | Properties |
|---|---|---|
| `command_safety` | 2 calls (symmetric), one Java sensor 5 s slow, 1 fault, 2 messages in flight, clock to 4 | `TypeOK`, `AnswerIsTheSensors`, `FreshResponseKept`, `ImplementsDeviceCall` |
| `command_liveness` | 1 call, TURN_IDLE or a SET_FREQ below a second, to a board or to a Java sensor that publishes, 1 fault, clock to 4 | `EveryCallReturns`, `OrphansCollected`, `ActiveIsListed` |
| `command_status` | 2 calls to a board that publishes, no fault, clock to 4 | `StatusSettles` |
| `command_uptime` | 1 call to a board that stamps its uptime | `FreshResponseKept` is violated |
| `command_idle` | TURN_IDLE to a Java sensor that publishes | `IdleIsSilent` is violated |
| `command_reconnect` | 1 fault, fairness | `ReconnectionRestoresCommands` is violated |

A unit of time is five seconds: `Timeout` = 2, `ResponseTTL` = 3. Two calls are
enough for a response of one to meet the thread of the other, two messages in
flight for a repeated command and for a reading that overtakes nothing but is
late; one fault is enough for each kind of loss. The clock's bound (`MaxNow`) exceeds the time in which a
response of a call expires. A call is not started so late that the clock would
stop before its timeout; faults, messages and time are the only bounds.
Deadlock is not checked, because the bounded system may stop.
`TypeOK` includes that responses are stored under the `request_id` of a call only: a
gateway that stored the one that has lost its `request_id`, too (the mutant,
`HandleAnyResponse`), would break it. The answer without a `request_id` comes from a
SET_FREQ below a second, in `command_safety` and in `command_liveness`.

`StatusSettles` says that the list has a board's status right once nothing of the
board is on its way (`SettledStatus`), as long as no connection breaks, no sensor
restarts and no two threads wait for the same board (`Undisturbed`). The last
condition is needed: two threads that hold responses of one board may apply
them in either order. What the condition leaves in is what is hard about it:
a call that timed out leaves behind a command that is carried out later, and a
response that nobody pops, while the next call is already open. It is stated for
boards only: a board has one thread, so its readings and responses leave in the
order in which they were made. The Java sensor may publish the old status last,
and what then holds is the weaker, temporal `ActiveIsListed`.

Fairness (`FairSpec`): the threads of the gateway, the clean-up, time, the
broker, reconnection at both ends, and a sensor with a live scheduler. The code
runs each in an endless loop or retries for ever (paho's `loop_start`,
`setAutomaticReconnect`, `connectToMQTT`). Nothing makes a client send,
a device go silent or a fault happen.

What the violations show:

* `command_uptime`: the gateway deletes the board's responses as old
  (`time.time()` minus an uptime) if `main` runs between their arrival and the
  next poll, a tenth of a second later. The command then counts as a timeout.
* `command_idle`: a reading tested before TURN_IDLE is published after it.
* `command_reconnect`: a Java sensor that lost its connection once gets no command
  until it is restarted.

## 4. DeviceRegistry

Everything here depends on time, and the state keeps how long ago things
happened instead of when: `silence[d]` is the time since `last_seen`, `timer[d]`
since the last reading or renewal, `interval[d]` how long that may be,
`readings[s]` the ages of its readings on their way, the oldest first. A device's `phase` is how far its
start-up has come: searching for a gateway, found, running, or stranded (a board
whose only registration failed). `infos[d]` counts the threads of the gateway
that hold a `DeviceInfo` they have not yet entered. `steady[s]` is a history
variable: since the gateway last heard from `s`, it has been running, connected
and ACTIVE, and none of its readings was lost (`LoseReadings`: all that are on
their way, when the gateway's connection breaks).

`HandleDeviceInfo`, `HandleReading`, `Commanded` and `CommandActuator` are what
refreshes `last_seen`; `CommandSensor` (TURN_ACTIVE and TURN_IDLE) and
`SetFrequency` are the commands that change when a sensor publishes, and
`Reschedule` is the new scheduler that they start in a Java sensor;
`SweepOffline` is the clean-up, `GatewayStart` and `GatewayStop` are the
process. `DiscoverSensor` and `Register` are the start-up of a sensor;
`DiscoverActuator` and `Renew` are a relay's answers to the multicast and its
periodic announcements. `Register` has an argument for whether the registration
was sent and one for what the Java sensor's connection attempt left. A `Tick` is
five seconds; it waits for a reading that is due and for one that is at its
latest. A command and its answer, if it is not lost, are one step. `Longest`
bounds the intervals that clients set.

| Run | Instance | Properties |
|---|---|---|
| `registry_presence` | a Java sensor with a reading every 10 s, which clients change to 5 s and back, a relay, delays up to 5 s, two readings on their way, one `DeviceInfo` thread for each device | `TypeOK`, `SteadySensorsKept`, `GhostsLeave`, `ActuatorsReturn` |
| `registry_return` | a board with a reading every 5 s, fairness | `SensorsReturn` is violated |
| `registry_idle` | the same | `IdleSensorsKept` is violated |

The interval of 10 seconds with a delay of 5 is the largest pair the theorem
allows. A new scheduler that waited for its interval before the first reading
(the mutant) would add the old interval to the new one, and the property fails.
Nothing bounds the run but the ages that still make a difference (`Older`), the
number of threads, and the number of a sensor's readings on their way: with two,
an interval of 5 seconds and a delay of 5, the next reading leaves before the
last one has arrived. That a delay may be longer than several intervals is left to the
theorem, which has no such bound. Restarts and faults are not bounded at all.

Fairness: time passes (strongly: it is enabled again and again, and nothing may
starve it), the clean-up, the handlers, publications and reconnections happen;
of infinitely many attempts of a relay to reach a running gateway one succeeds,
which the code justifies by repeating both the multicast and the renewal for
ever. `GhostsLeave` and `ActuatorsReturn` speak of devices that stay off or on
for good, since nothing else can be promised.

What the violations show:

* `registry_return`: sensors register once. A gateway that is restarted ignores
  their readings ("dispositivo não registrado") until someone restarts them.
* `registry_idle`: an IDLE sensor is silent, so it is removed, and the command
  that should make it ACTIVE is refused because it is not in the list. The documents
  disagree: section 6 of `README_DISCOVERY.md` has the gateway put a sensor in IDLE
  until it is ACTIVE again, while its section 7 and `README_FALHAS.md` remove
  whoever is silent and make no exception for IDLE.

## 5. ActuatorCommand

| Model | Code |
|---|---|
| `connected_devices[a]`, `infos[a][st]` | the status in the entry of relay `a`; the gateway's threads that hold a `DeviceInfo` with the status `st` |
| `calls[c]` | the thread of `send_command_to_device`: "found" between the two lookups, "waiting" for the bridge, or its outcome |
| `bridgeUp`, `rpc[c]` | the bridge's process; its worker for call `c`: queued in the pool (or "lost", without an address), connecting, reading, or its answer |
| `relay[a]`, `gatewayKnown[a]` | `currentStatus` or `lampStatus`; whether the relay has the gateway's address |
| `backlog[a]` | the board's connections that wait for its loop |
| `handler[c]` | the Java relay's thread for the connection of `c`, and its `oldStatus` |
| `boards` | which relays are boards; the others are Java |
| `stray[c]` | whether the bridge's worker for `c` outlived `server.stop(0)` ("connecting") and has sent its command since |
| `executed`, `held[c]`, `before[c]` | history: calls carried out; the statuses the relay had since `c` began; the calls that were over when `c`, to a board, began |

`FindDevice` and `CallBridge` are the two lookups of the gateway, `FinishCall` the
rest of `send_grpc_command`. `StartWorker`, `Connect`, `GiveUp` are the worker of
the bridge; its answer, `AnswerTo`, is ON after TURN_ON whatever the relay's
`DeviceUpdate` says, as in the code. The board carries a command out and answers in
one loop (`BoardCommand`) or closes the connection (`BoardDrop`); in the Java
relay each read and each write of `currentStatus` in `handleTcpCommand` is a step,
as are the comparison and the announcement of a change, which needs the gateway's
address by then. An announcement may fail, which the relays only log: `Discover`
and `AnnounceChange` have an argument for whether it was sent, and a renewal that
fails does nothing. `RelayRestart` and `BridgeStop` are the faults. A
registration and an answer write the status of the entry on threads of their own.

When the bridge stops (`server.stop(0)`), the gateway's open calls end in an error, but the
threads of the pool run on. `BridgeStop` chooses those that will still connect;
`StrayConnect` is the command that one of them sends then, of which the gateway learns
nothing. (What a thread does that has sent its command already, or that never will, nobody
sees.)

| Run | Instance | Properties |
|---|---|---|
| `actuator_all` | one relay of either kind, 2 calls with TURN_ON or TURN_OFF, one worker, one `DeviceInfo` of each status on its way, 1 fault | `TypeOK`, `AnswerWasTrue`, `LateCommandsNeverOverride`, `ImplementsDeviceCall`, `EveryCallReturns`, `StatusConverges` |

Two calls are what it takes for a thread of the relay to test a status that
another then sets, for the pool to be full, and for a command given up by the bridge
to meet a newer one. GET_STATUS is left out of the run, to save time; the
theorems cover it. `AnswerWasTrue` is why the bridge may ignore the status it is
sent: the relay was in that state while the call was open, although perhaps no
longer at its end. `LateCommandsNeverOverride` speaks of boards, whose connections are
a queue, and leaves out the commands of workers that outlived the bridge
(`stray`): such a worker may connect when a later command has been carried out, and
undo it. In a Java relay, too, the thread of a command that has FAILED may be
overtaken by a later command and then undo it. Nothing in the repository promises
otherwise, and TLC finds both as soon as the property is stated without the exceptions.

Fairness: the threads of the gateway, the bridge and the relays run; time passes
for a worker that waits on its socket (`GiveUp` is the five-second timeout);
discovery and renewals come round for ever, and one of many announcements of a
relay is sent. `StartWorker` is strongly fair: a
pool of one thread is free again and again, not always, and the pool's queue is
first in, first out. Nothing is asked of clients, of the relay's answers, or of the start
and the stop of the bridge. `StatusConverges` says that registrations and answers
that overtake each other are repaired by the renewals.

## 6. ClientPath

| Model | Code |
|---|---|
| `stage`, `accepted` | the gateway and the devices, as `DeviceCall` describes them |
| `action[c]` | what a user does: a command of the command line, a button of the page with the status it asks for, the first fetch of a sensor; and what the user sees in the end |
| `shown[d]`, `loading[d]` | the status the page shows, whether the buttons of the component are disabled |
| `captured[d]` | the status for which `_toggleRelay` of the lamp was made |
| `http[c]`, `conn[c]` | the API's thread for the request, and its connection to the gateway |

`ToggleRelay`, `ToggleSensorState`, `UpdateFrequency`, `TurnAll`, `Mount` and
`SendDeviceCommand` start actions; `RenderEffect` is the effect that renews
`_toggleRelay`. `CommandSettled` and `FetchSettled` are what follows the
answer, the `finally` blocks included. `StartThread`, `Connect`, `ConnectFails`,
`TimeOut` and `Receive` are an endpoint. The gateway's actions are those of
`DeviceCall`, and go on after the API has given up; the connection may end
after all of an answer or a part of it.

| Run | Instance | Properties |
|---|---|---|
| `client_all` | a lamp and a sensor, 2 actions of any kind, one thread of the API | `ClientTypeOK`, `AnswerIsTheGateways`, `ShownWasCommanded`, `ClientImplementsDeviceCall`, `EveryActionEnds` |

Two actions overlap on a lamp or a sensor in every way the page allows, and
share the only thread, so that one has to wait for the other's five seconds.

`DeviceCall` appears twice: the gateway's variables are an instance of it, and
`ClientImplementsDeviceCall` maps the command line's result onto another one. With
`SensorCommand` and `ActuatorCommand`, which implement the lower one, this
composes the whole way from a device to a user: success only after the device
carried the command out, whatever breaks or times out in between.

Fairness: the API's threads run and their sockets time out, the browser gets the
answer of the API. Nothing is asked of the gateway, which may never answer, or
of users: that every action ends says nothing of the gateway's own thread, which a gRPC
call without a deadline can hold for ever (section 9).

What the model has that a reader of the page may not expect:

* a 200 whose body says FAILED counts as done: the page shows what was commanded
  (`DeviceStatus.js:86`); so does a 200 with an empty status, which the API
  gives when the gateway's answer breaks off after the message type;
* "Desligar Todas" calls the `_toggleRelay` of before the last effect, so that
  between a render and its effect it sends TURN_ON;
* after TURN_IDLE the page fetches the sensor's data, gets the status of the last
  reading, which is ACTIVE, and offers TURN_IDLE again.

## 7. Codec

Five modules, each on top of the one before:

| Module | Models |
|---|---|
| `Varint` | `pb_decode_varint`, `pb_decode_varint32` and their writers |
| `Framing` | a length and a message on a TCP connection, as the gateway, the bridge, the API and the relay board each write and read it |
| `WireFormat` | what is read: any bytes as a varint, or the first bytes of a framed message |
| `Nanopb` (on `Varint`) | the rest of nanopb as far as the boards' messages use it, driven by the descriptors (`Fields`) as the C code is |
| `BoardCodec` (on `Nanopb` and `WireFormat`) | the messages and what happens to them |

`Varint` and `Framing` write a loop over bytes as what it has computed after each
byte (`Results[i]`, `Digit(value, i)`, the `End` of a varint), and bits as
arithmetic: `<<` is a multiplication by `Pow2`, the `|` of bits that do not
overlap a sum. `board_read` has the sum of a length in a `size_t` (`% Max32`). Its buffer of 128
bytes, into which `readBytes` writes any length, is left out (section 9).

In `Nanopb` a structure in memory is flat: a field has the sequence of the tags
that lead to it as its address, the message around it a place, and a structure has the
values by address, the optional submessages that are there (`has`), and for each
place the member of its oneof (`which`). pb_encode and pb_decode call themselves for
submessages. `Encoded` is a recursive function from the places, and the sizes of
streams, to streams; a submessage is encoded twice as in the code, once to count and
once into the room that was counted. `DecodeStep` is one round of pb_decode_inner,
with the messages it is in as a stack, and `Decoding` takes enough of them for all
bytes. Nothing here is a recursive operator, so that theorems can be proved about it.

A behavior of `BoardCodec` encodes a message into a buffer of some size, may
append a second message to the same envelope, add a field of a newer `.proto`,
cut the bytes off or change one of them, and decodes the rest; what was accepted is
encoded and decoded once more. Or it is one of `WireFormat`, of which it has the
variables and, as one disjunct of `Next`, the steps.

The C code zeroes a oneof's memory only when the new member is a submessage; `Prepared`
makes the others empty whenever the member changes. A scalar or a string is written
over in whole, and the members that are not there are read by nobody, so that
nothing can tell the two apart. Of the oneof in `DeviceUpdate` only `frequency_ms` is
there: no board sets or reads the others. In the run all char arrays have the same
size; the code has two (33 and 65), and the proofs are about any descriptors.

What may go in is what the programs have: structures that start as `_init_zero` and
are filled in, so that nothing has contents but what is there (`Consistent`), although
a string may be too long for its array; unknown fields that another program has
encoded (`UnknownField`: a tag the envelope does not have, and the contents its wire
type promises). A message whose bytes a `size_t` cannot count is none of them: the
steps that make longer ones ask for less than `Max32` bytes.

A byte holds `GroupBits` bits of a value and the integers have `Bits32` and
`Bits64`. The code has 7, 32 and 64; the run has 6, 8 and 19: enough for every tag
and wire type, and a uint32_t has two bytes, a uint64_t four. As in the code,
the last byte of either integer is only partly used and there are whole bytes
between the two (`WidthAssumption`), which is what the sign extension and
the overflow checks are about. The varints of the run are
all strings of up to four of twelve bytes: the smallest and the largest numbers of
a byte, with and without another byte to follow. The proofs need no bound (section 8).

| Run | Property | What could be wrong |
|---|---|---|
| `codec` | `DecodedFitsC` | a string without its end, a number out of its type, two members of a oneof |
| | `BufferRespected` | a byte beyond the buffer, or a message refused that would fit |
| | `PartsMerge` | a message changed on its way; submessages of two parts replaced instead of merged |
| | `ReencodedTheSame` | an empty command (`has_command`) lost, a default value sent or missed |
| | `UnknownFieldsSkipped` | a skip of the wrong length |
| | `CutIsNotObeyed` | half of a message taken for a whole one |
| | `VarintsAgree` | the 32-bit reader's sign extension, refusals |
| | `FramesReadWhole` | a message that broke off handed to the decoder; lengths written differently |

Bounds: strings of zero, two and three bytes (the char arrays hold two), buffers of
0 to 30 bytes and one larger than any message, nine bytes to put in place of each
one of a message, unknown fields of each wire type in front and behind; payloads
whose lengths take one or two bytes, on both sides of the border. The run does not
check deadlock, since a behavior ends when the bytes are decoded.

`Framing` shows that the API, unlike the gateway and the bridge, hands a message that
broke off to the decoder. The board reads a length with what has arrived at its
first look and perhaps a byte of an array that was never written (`junk`, any
value); lengths of one byte, which all its commands have, are safe.

## 8. Proofs

The theorems hold for every number of sensors, relays, calls and threads, every
interval, timeout and bound. They rest on the assumptions declared with the
constants: which sets include which, that numbers are numbers, that `None` is no
value of anything else, (`ClientPath`) that the calls are finitely many, and
(`Varint`) how the widths of bytes and integers lie to one another.

`SensorCommand_proofs`. `TypeOK` and `AnswerIsTheSensors` are not inductive: a
thread knows only the response it took. The invariant `IInv` adds that every
response that exists, on its way, stored, half applied or held by a thread, is
*genuine* (the sensor the call was addressed to did give that verdict on the call
in its `request_id`, and stamped it after the call was sent), that every command
on its way belongs to a call that was sent to that very sensor, and that a stored
or held response is filed under its own `request_id`. From it:

* `TypeCorrect`: `Spec => []TypeOK`;
* `AnswersAreTheSensors`: `Spec => []AnswerIsTheSensors`;
* `FreshResponsesAreKept`: `FreshResponseKept` whenever
  `Lag[s] + Timeout <= ResponseTTL` for each sensor. With the constants of the code
  a sensor's clock may be up to five seconds slow. The board violates it by any
  amount, as `command_uptime` shows;
* `Refinement`: `Spec => ImplementsDeviceCall`.

In the same module, on top of this: `SettledStatus` says something only of the
moments at which nothing is on its way, so the invariant `SInv` says what the last
word is at any other: the newest message of a board, or else the response the
MQTT thread is applying, or else the entry carries the status of the board. The
other writer of the entry is the thread of a call. What it may yet apply is
current because the command of an open call is the last one to its
sensor: no command follows it in paho's queue or at the broker, and once it has
been answered there is none at all. The invariant is kept by steps that begin and
end `Undisturbed`. From it:

* `StatusesSettle`: `Spec => StatusSettles`.

`DeviceRegistry_proofs`. `SteadySensorsKept` needs to know how long a steady
sensor can have been silent. `IInv` says: no longer than its `timer`, if no
reading is on its way, and no longer than `Longest[s]` plus the age of the
oldest reading, if any is. The interval in force would not do: SET_FREQ may have shortened
it after the reading was sent. A tick makes both sides older; a publication turns one case
into the other, because it happens when the timer has reached the interval;
a delivery makes the silence zero, whatever follows it. From it:

* `TypeCorrect`: `Spec => []TypeOK`;
* `SteadySensorsAreKept`: `SteadySensorsKept` whenever
  `Longest[s] + Delay <= OfflineAfter`, whenever clients change the interval. With the 15 seconds of the code, a sensor
  that publishes every 5 seconds tolerates delays of 10; the API lets clients set
  intervals up to 60 seconds, with which the sensor is removed between readings.

`ActuatorCommand_proofs`. `AnswerWasTrue` needs to know, for each place in which a
thread can be, what has been seen of the relay: `CallOK` says that the status of an open
call's relay is among those in `held`, that a worker's answer is, too, and that a
thread of the Java relay that has passed its test has carried the command out, or
found the relay in the state it asks for. `LateCommandsNeverOverride` needs the
queues: `QueueOK` says that a board's backlog holds no call behind a later one, and
none that was over before an executed call began, except those that a worker brought
which outlived the bridge. From `IInv`, the types and both:

* `TypeCorrect`: `Spec => []TypeOK`; `AnswersWereTrue`: `Spec => []AnswerWasTrue`;
* `LateCommands`: `Spec => LateCommandsNeverOverride`;
* `Refinement`: `Spec => ImplementsDeviceCall`.

`ClientPath_proofs`. `CallOK` follows a verdict from the user's result back through the
HTTP answer and the connection to the gateway's `stage`. From it:

* `TypeCorrect`: `Spec => []ClientTypeOK`, and with it that the pool is never exceeded;
* `AnswersAreTheGateways`: `Spec => []AnswerIsTheGateways`;
* `ShownByCommand`: `Spec => ShownWasCommanded`;
* `Refinement`: `Spec => ClientImplementsDeviceCall`.

`WireFormat_proofs`, on `Varint_proofs`. The theorems hold for all
widths that `WidthAssumption` allows, those of the code among them, for
strings of bytes of any length, and for every message shorter than `Max32`. The
properties need no inductive invariant, since a behavior of `WireSpec` is one step;
what has to be proved is what loops over bytes compute, for any
number of bytes. The library's induction theorems take a predicate and cannot be
used, so `Varint_proofs` begins with one about sets from the well-foundedness of `<`:
a set that has zero, and with each number the next, has all (`SetInduction`). From
it follow that a recursive function satisfies its definition (`RecursionUpTo`,
`RecursionOnNat`) and the arithmetic of division with nonlinear terms that the
provers do not find (`DivUnique`, `Regroup`, `Positional`).

It then takes a varint as a number written in base `Group`: what is
read after `i` bytes is below `Pow2[GroupBits * i]` (`ResultsBound`) and, if the
bytes are the digits of `v`, is `v % Pow2[GroupBits * i]` (`ResultsOfDigits`). That
`pb_decode_varint` accepts just what fits is `WideFits`. For `pb_decode_varint32`
`NarrowInWide` says that what it accepts the other one accepts, and `SmallAccepted` and
`NegativeAccepted` that it refuses no uint32_t and no negative int32_t: such
a number lacks less than `Pow2[Bits32 - 1]` of the one with all bits set, what is
missing never shrinks from byte to byte (`MissingGrows`), and so the bytes above the
fourth can be nothing else than a sign extension (`NegativeBytes`).

* `VarintsReadAlike`: `WireSpec => []VarintsAgree`;
* `FramesAreReadWhole`: `WireSpec => []FramesReadWhole`;
* `BoardsWriteTheSame`: `pb_encode_varint(v) = encode_varint(v)` for every `v < Max64`,
  although the one shifts two words and mends the byte between them;
* `WrittenIsRead`: `pb_decode_varint(pb_encode_varint(v))` is `v`, and nothing is left.

The run checks the two properties on `BoardCodec`, whose steps to the stages "varint"
and "frame" are those of `WireSpec` (`OnlyWireSteps`); `FramesReadWholeToo` and
`VarintsReadAlikeToo` state them of its `Spec`.

`BoardCodec_proofs`, on `WireFormat_proofs`. Besides the widths, the descriptors are
any that `FieldsAssumption` allows: a tag takes 29 bits and is used once in a message,
messages are inside one another at most `Depth` deep, a submessage is
optional or the member of a oneof. `MessagesAssumption` says that the programs put values of
the right type into the fields that are there, that a buffer's size is a `size_t`, and
that an unknown field is one. The messages, the bytes and the sizes of buffers
are any. (`EnvelopeAssumption` is used for cut messages only, see below.)

The inductive invariant `CodecInv` says that what travels is a string of bytes; that a
message still whole is what pb_encode made of a structure and a buffer, and its stage
whether that succeeded; and that what was decoded is a structure that fits. (TLC
finds it true in the run.) Two arguments make it inductive and strong enough.

Decoding: the set `Decoders` has the decoders whose structure fits (`FitsC`), whose
stack is a chain of messages one inside the other, and in which every oneof and every
optional submessage around the innermost message says that it is there (`Present`). The
last is what the others need: a value may only be stored where the structure
has its field. Every step of `DecodeStep` stays in the set (`StepDecodes`), by one lemma
for each of what it can do: go on, enter, leave, fail, prepare a field
(`PreparedFits`, with `ClearedFits` when a oneof changes its member), store what
was read (`BasicFieldFits`). That the bytes are any makes this hold for truncated and
mangled messages as well.

Encoding: `Wrote(s, t, allowed, b)` says that from stream `s` to `t` the bytes `b` were
appended if `allowed` and if there was room, and that otherwise `t` has an error. Writing
one after the other is of this kind again (`WritesBoth`), so that a whole message is, for
bytes that do not depend on the stream. For a submessage (`SubmessageWrites`) this is
what makes the second run write just what the first one counted. Since
`Encoded` is defined by recursion over places, it has to be shown that there is such
a function: encoding with the submessages of the round before changes nothing after
`Depth` + 1 rounds (`SameSubmessages`, `EncodedDefined`). What allows a message is
that the strings in it have room for their ends (`WrittenIfStringsFit`), from the
innermost messages outwards. `EncodeIsExact` puts this together.

* `DecodedMessagesFit`: `Spec => []DecodedFitsC`;
* `BuffersAreRespected`: `Spec => []BufferRespected`.

`RoundTrip_proofs`, on top of that, says what one direction makes of the bytes of the
other. `Sent(m)` are the fields of `m` that pb_encode writes: those with all the
messages around them there, and not `Absent`. When the fields `D` of them have been decoded
into a structure `s`, it is `Mix(s, m, D)`: `m` where `D` says so, nothing in the members
of a oneof that `D` has replaced, and `s` everywhere else. A field that arrives takes
`Mix(s, m, D)` to `Mix(s, m, D \cup {a})` (`PreparedMix`, `MixStep`); that no
field of a oneof's other members can come after its member has is where it matters that one
structure is encoded and not any sequence of fields.

`Fills(m, p, A, b)` says that the decoder, with the message at `p` open, gets through the
bytes `b` in at most `2 * Len(b)` rounds, and that they add the fields `A`, whatever
was decoded before, whatever is on the stack and whatever bytes follow. Bytes that
fill in one thing and then another fill in both (`FillsBoth`); a varint, an integer, a
string and a length read what was written (`WrittenIsRead`, `ContentsRead`) and nothing of
what follows (`VarintBefore`); a submessage costs one round to enter and one to leave, both
paid for by its key and its length (`SubmessageFills`). On the side of the encoder,
`Filled` says of two streams that what the second has more fills in `A`; it is shown of
each field (`FieldFilled`), of the fields in turn (`FieldsFill`), and of messages from the
innermost outwards (`MessagesFill`). `Fills` is why none of this needs an induction
over bytes: what is still to be read is a variable of the statement.

After the last field `Mix(s, m, Sent(m))` is `MergeInto(s, m)` (`MixEnds`): this is
where the code's oneofs, defaults and optional submessages meet the rules of protobuf.
An unknown field fills in nothing (`UnknownFills`). What fits is merged into an empty
structure as it is (`MergedIntoZero`) and has only strings that can be encoded
(`FitsIsWritten`), so that with `DecodeFits` whatever was decoded goes round once more.
`TripInv` remembers of what the bytes on their way were made. (TLC finds it true in
the run.)

* `PartsAreMerged`: `Spec => []PartsMerge`;
* `ReencodingChangesNothing`: `Spec => []ReencodedTheSame`;
* `UnknownFieldsAreSkipped`: `Spec => []UnknownFieldsSkipped`.

`Fills` is about bytes that are all there. For those that break off `RoundTrip_proofs`
shows the opposite, that the decoder refuses them in one step, whatever it has open.
What reads a whole varint does not look behind it, so it would read the whole
already from a proper beginning, and nothing could be left (`VarintCut`); a length
promises bytes that a beginning does not have (`DelimitedCut`); the key of a field is a
varint, too (`KeyedCut`). A field is `Whole` if every beginning of it but the empty one
is refused. This is not so of every field at every place: a submessage ends where
its bytes end, and whether what is left of two fields decodes depends on where they
were cut. What makes it true of messages is the envelope: `EnvelopeAssumption` says that
the outermost message is `SmartCityMessage`, an enum and then one oneof of submessages, so
that the bytes are those of a type, which may be absent, and of one member, each `Whole`
(`EnvelopeBytes`). Cut anywhere, nothing is left, or something is refused, or it was
cut behind the type, and then the structure has that and nothing else
(`CutDecoded`).

* `CutsAreNotObeyed`: `Spec => []CutIsNotObeyed`.

These proofs found two mistakes in earlier versions of the model, which the bounds of
the run had hidden: the cases of `MergeInto` overlapped for a callback that is the
member of a oneof, and messages could be longer than a `size_t` counts.

Every invariant the runs check is a theorem. Only model-checked are the liveness
properties, all of which rest on fairness: liveness and `ENABLED` are out of the
prover's reach.

## 9. Not modelled

* LIST_DEVICES against GET_DEVICE_STATUS: the first shows the status of the
  entry, the second that of the last reading. They differ for as long as an
  IDLE sensor stays listed, by construction, so that nothing is left to check.
* A host that vanishes without closing its connections. The gateway's gRPC call
  and the clients' HTTP requests have no deadline and would wait for ever.
* Stale reads of `currentStatus`, which is not `volatile`, that the Java memory model
  would allow.
* nanopb beyond the messages of the system: arrays, pointers, extensions, bytes,
  fixed and signed integers, repeated fields other than callbacks. The copies of
  nanopb of the other board and for Linux hold the same code, and
  are not mapped again; they make up most of the lines that no
  definition is mapped to.
* Commands longer than the relay board's buffer of 128 bytes, which no program here sends.
* Google's protobuf library, JSON, gRPC and HTTP themselves.
* Measured and simulated values, log messages, addresses and ports, the layout
  of the page, its first loading of the list, the validation of an interval.
* A program that dies of an exception in its start-up, such as a sensor that
  receives a packet that is not a discovery request, and the WiFi of the boards.
* `temperature_sensor_commands.py`, which imports a class that does not exist and
  cannot run; generated code, which is not in the repository.
