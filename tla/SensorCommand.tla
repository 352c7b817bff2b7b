---------------------------- MODULE SensorCommand ----------------------------
(***************************************************************************)
(* A client's command to a sensor, from the gateway's TCP thread that      *)
(* received it, over MQTT to the sensor, and back.                         *)
(*                                                                         *)
(*   client thread     send_command_to_device, send_mqtt_command           *)
(*   paho, broker      the outgoing queue, delivery, lost connections      *)
(*   sensor            handleMqttCommand (Java), processCommand (ESP8266), *)
(*                     and the periodic publication of readings            *)
(*   gateway callback  handle_mqtt_command_response, handle_mqtt_sensor_data *)
(*   gateway main      the clean-up of old responses and offline devices   *)
(*                                                                         *)
(* Each action is what one thread does between two points at which another *)
(* thread can be seen: one critical section of device_lock or of           *)
(* mqtt_response_lock, one publication, one callback.                      *)
(*                                                                         *)
(* A call stands for the request and for its request_id (a fresh uuid4).   *)
(* When a device goes offline is the subject of DeviceRegistry: here the   *)
(* clean-up may remove a device at any moment, so last_seen is not kept.   *)
(***************************************************************************)
EXTENDS Integers, Sequences, FiniteSets

CONSTANTS
    Sensors,        \* the MQTT sensors
    JavaSensors,    \* those that run TemperatureHumiditySensor.java; the
                    \* others run temperature-sensor-board.ino
    Publishers,     \* the sensors whose periodic readings are modelled
    Calls,          \* the requests clients make; a call is its request_id
    Requests,       \* the command types clients use
    Lag,            \* gateway clock minus the clock a sensor stamps with
    Timeout,        \* send_mqtt_command gives up after this long (10 s)
    ResponseTTL,    \* a response older than this is cleaned up (15 s)
    MaxNow,         \* bound: the clock stops here
    MaxQueue,       \* bound: messages in flight to, and from, a sensor
    MaxFaults,      \* bound: connections lost and sensors power-cycled
    None            \* no value

CommandTypes == {"TURN_ACTIVE", "TURN_IDLE", "SET_FREQ", "SET_FREQ_SUBSECOND",
                 "SET_FREQ_INVALID", "GET_STATUS", "OTHER"}
Statuses == {"ACTIVE", "IDLE"}

ASSUME SetsAssumption ==
    /\ JavaSensors \subseteq Sensors
    /\ Publishers \subseteq Sensors
    /\ Requests \subseteq CommandTypes
ASSUME TimeAssumption ==
    /\ Lag \in [Sensors -> Int]
    /\ Timeout \in Nat /\ ResponseTTL \in Nat /\ MaxNow \in Nat
ASSUME BoundAssumption == MaxQueue \in Nat /\ MaxFaults \in Nat

VARIABLES
    connected_devices,  \* gateway: the registry entry of each sensor, or None
    mqtt_responses,     \* gateway: the response stored under each request_id
    callback,           \* gateway: the response whose status the MQTT thread
                        \* has still to apply, or None
    calls,              \* gateway: the thread that serves each call
    outbox,             \* paho: QoS 1 messages not acknowledged by the broker
    gatewayUp,          \* paho: connected to the broker
    cmds,               \* broker: commands on their way to each sensor
    replies,            \* broker: messages of each sensor to the gateway
    link,               \* sensor: "down", "connected" or "subscribed"
    sensor,             \* sensor: currentStatus, capture interval, scheduler
    reading,            \* sensor: the reading its scheduler thread is making
    verdicts,           \* history: what sensors answered to each call
    now,                \* the gateway's clock
    faults              \* the number of faults so far

vars == <<connected_devices, mqtt_responses, callback, calls, outbox, gatewayUp,
          cmds, replies, link, sensor, reading, verdicts, now, faults>>

gatewayVars == <<connected_devices, mqtt_responses, callback, calls>>
mqttVars    == <<outbox, gatewayUp, cmds, replies, link>>
sensorVars  == <<sensor, reading, verdicts>>
boundVars   == <<now, faults>>

-----------------------------------------------------------------------------
(* Types                                                                   *)

Entries  == [status : Statuses] \cup [status : Statuses, last_data : Statuses]
Commands == [request_id : Calls, device_id : Sensors, command_type : CommandTypes]
Responses ==
    [topic : {"response"}, request_id : Calls \cup {None}, device_id : Sensors,
     success : BOOLEAN, status : Statuses, timestamp : Int]
Readings == [topic : {"data"}, device_id : Sensors, status : Statuses]
Outcomes == {"SUCCESS", "not found", "not sent", "sensor error", "timeout"}
Threads  ==
    [pc : {"idle", "polling", "update", "done"},
     device_id : Sensors \cup {None}, command_type : CommandTypes \cup {None},
     start_time : Int, response : Responses \cup {None},
     outcome : Outcomes \cup {None}]
SensorStates == [status : Statuses, interval : {"ok", "zero"}, scheduled : BOOLEAN]

ASSUME NoneAssumption ==
    /\ None \notin Sensors /\ None \notin Calls /\ None \notin Statuses
    /\ None \notin Outcomes /\ None \notin Responses /\ None \notin Entries

TypeOK ==
    /\ connected_devices \in [Sensors -> Entries \cup {None}]
    /\ mqtt_responses \in [Calls -> Responses \cup {None}]
    /\ callback \in Responses \cup {None}
    /\ calls \in [Calls -> Threads]
    /\ outbox \in Seq(Commands)
    /\ gatewayUp \in BOOLEAN
    /\ cmds \in [Sensors -> Seq(Commands)]
    /\ replies \in [Sensors -> Seq(Responses \cup Readings)]
    /\ link \in [Sensors -> {"down", "connected", "subscribed"}]
    /\ sensor \in [Sensors -> SensorStates]
    /\ reading \in [Sensors -> {"none", "checked"} \cup Statuses]
    /\ verdicts \in [Calls -> SUBSET (Sensors \X BOOLEAN)]
    /\ now \in Nat
    /\ faults \in Nat

-----------------------------------------------------------------------------
(* The sensor when start() or setup() has finished: registered, connected, *)
(* subscribed, ACTIVE and publishing every 5 seconds.                      *)

StartedSensor == [status |-> "ACTIVE", interval |-> "ok", scheduled |-> TRUE]
\* register_device: there is no last_data before the first reading.
RegisteredEntry(st) == [status |-> st]

Init ==
    /\ connected_devices = [s \in Sensors |-> RegisteredEntry("ACTIVE")]
    /\ mqtt_responses = [c \in Calls |-> None]
    /\ callback = None
    /\ calls = [c \in Calls |->
          [pc |-> "idle", device_id |-> None, command_type |-> None,
           start_time |-> 0, response |-> None, outcome |-> None]]
    /\ outbox = << >>
    /\ gatewayUp = TRUE
    /\ cmds = [s \in Sensors |-> << >>]
    /\ replies = [s \in Sensors |-> << >>]
    /\ link = [s \in Sensors |-> "subscribed"]
    /\ sensor = [s \in Sensors |-> StartedSensor]
    /\ reading = [s \in Sensors |-> "none"]
    /\ verdicts = [c \in Calls |-> {}]
    /\ now = 0
    /\ faults = 0

-----------------------------------------------------------------------------
(* The client's thread in the gateway                                      *)

Registered(s) == connected_devices[s] # None

Finish(c, outcome) == [calls[c] EXCEPT !.pc = "done", !.outcome = outcome]

\* send_command_to_device finds no such device and answers FAILED.
SendToUnknown(c, s) ==
    /\ calls[c].pc = "idle"
    /\ ~Registered(s)
    /\ calls' = [calls EXCEPT ![c] = Finish(c, "not found")]
    /\ UNCHANGED <<connected_devices, mqtt_responses, callback>>
    /\ UNCHANGED <<mqttVars, sensorVars, boundVars>>

\* send_command_to_device finds the sensor and send_mqtt_command publishes.
\* paho keeps the message in both cases; without a connection publish returns
\* MQTT_ERR_NO_CONN and the call fails at once, but the message stays queued.
\* (Nothing between the lookup and the publication touches shared state.)
\* Bound: no call starts so late that the clock stops before its timeout.
SendCommand(c, s, t) ==
    /\ calls[c].pc = "idle"
    /\ Registered(s)
    /\ now + Timeout <= MaxNow
    /\ outbox' = Append(outbox, [request_id |-> c, device_id |-> s, command_type |-> t])
    /\ calls' = [calls EXCEPT ![c] =
          [@ EXCEPT !.pc = IF gatewayUp THEN "polling" ELSE "done",
                    !.outcome = IF gatewayUp THEN None ELSE "not sent",
                    !.device_id = s, !.command_type = t, !.start_time = now]]
    /\ UNCHANGED <<connected_devices, mqtt_responses, callback>>
    /\ UNCHANGED <<gatewayUp, cmds, replies, link>>
    /\ UNCHANGED <<sensorVars, boundVars>>

\* Mutant of PopResponse: the poll takes any response there is.
PopAnyResponse(c) ==
    /\ calls[c].pc = "polling"
    /\ \E d \in Calls :
          /\ mqtt_responses[d] # None
          /\ mqtt_responses' = [mqtt_responses EXCEPT ![d] = None]
          /\ calls' = [calls EXCEPT ![c] =
                IF mqtt_responses[d].success
                THEN [@ EXCEPT !.pc = "update", !.response = mqtt_responses[d]]
                ELSE Finish(c, "sensor error")]
    /\ UNCHANGED <<connected_devices, callback>>
    /\ UNCHANGED <<mqttVars, sensorVars, boundVars>>

\* Mutant of PopResponse: any response is taken for a success.
PopAsSuccess(c) ==
    /\ calls[c].pc = "polling"
    /\ mqtt_responses[c] # None
    /\ mqtt_responses' = [mqtt_responses EXCEPT ![c] = None]
    /\ calls' = [calls EXCEPT ![c] =
          [@ EXCEPT !.pc = "update", !.response = mqtt_responses[c]]]
    /\ UNCHANGED <<connected_devices, callback>>
    /\ UNCHANGED <<mqttVars, sensorVars, boundVars>>

\* The polling loop pops the response to its own request_id.  The loop tests
\* the time before it takes the lock, so it may still do so when the time is
\* over.
PopResponse(c) ==
    /\ calls[c].pc = "polling"
    /\ mqtt_responses[c] # None
    /\ mqtt_responses' = [mqtt_responses EXCEPT ![c] = None]
    /\ calls' = [calls EXCEPT ![c] =
          IF mqtt_responses[c].success
          THEN [@ EXCEPT !.pc = "update", !.response = mqtt_responses[c]]
          ELSE Finish(c, "sensor error")]
    /\ UNCHANGED <<connected_devices, callback>>
    /\ UNCHANGED <<mqttVars, sensorVars, boundVars>>

\* Mutant of GiveUp: the timeout is taken for milliseconds counted in seconds.
GiveUpMuchLater(c) ==
    /\ calls[c].pc = "polling"
    /\ now - calls[c].start_time >= 1000 * Timeout
    /\ calls' = [calls EXCEPT ![c] = Finish(c, "timeout")]
    /\ UNCHANGED <<connected_devices, mqtt_responses, callback>>
    /\ UNCHANGED <<mqttVars, sensorVars, boundVars>>

\* The loop ends.  A response stored since the last poll is left behind.
GiveUp(c) ==
    /\ calls[c].pc = "polling"
    /\ now - calls[c].start_time >= Timeout
    /\ calls' = [calls EXCEPT ![c] = Finish(c, "timeout")]
    /\ UNCHANGED <<connected_devices, mqtt_responses, callback>>
    /\ UNCHANGED <<mqttVars, sensorVars, boundVars>>

\* Writes a status into the registry entry of a sensor, if it still has one.
WithStatus(s, st) ==
    IF Registered(s)
    THEN [connected_devices EXCEPT ![s].status = st]
    ELSE connected_devices

\* send_command_to_device updates the entry, if there still is one, from the
\* response it popped and answers SUCCESS.
UpdateDevice(c) ==
    /\ calls[c].pc = "update"
    /\ connected_devices' = WithStatus(calls[c].device_id, calls[c].response.status)
    /\ calls' = [calls EXCEPT ![c] = Finish(c, "SUCCESS")]
    /\ UNCHANGED <<mqtt_responses, callback>>
    /\ UNCHANGED <<mqttVars, sensorVars, boundVars>>

-----------------------------------------------------------------------------
(* The gateway's MQTT thread: on_message                                   *)

ReceiveFrom(s) ==
    /\ gatewayUp
    /\ callback = None
    /\ replies[s] # << >>
    /\ replies' = [replies EXCEPT ![s] = Tail(@)]

\* Mutant of HandleSensorData: the status of a reading is not applied.
StoreReadingOnly(s) ==
    /\ ReceiveFrom(s)
    /\ Head(replies[s]).topic = "data"
    /\ connected_devices' =
          IF Registered(s)
          THEN [connected_devices EXCEPT ![s] =
                  [status |-> @.status, last_data |-> Head(replies[s]).status]]
          ELSE connected_devices
    /\ UNCHANGED <<mqtt_responses, callback, calls>>
    /\ UNCHANGED <<outbox, gatewayUp, cmds, link>>
    /\ UNCHANGED <<sensorVars, boundVars>>

\* handle_mqtt_sensor_data: only a registered sensor is updated.
HandleSensorData(s) ==
    /\ ReceiveFrom(s)
    /\ Head(replies[s]).topic = "data"
    /\ connected_devices' =
          IF Registered(s)
          THEN [connected_devices EXCEPT ![s] =
                  [status |-> Head(replies[s]).status,
                   last_data |-> Head(replies[s]).status]]
          ELSE connected_devices
    /\ UNCHANGED <<mqtt_responses, callback, calls>>
    /\ UNCHANGED <<outbox, gatewayUp, cmds, link>>
    /\ UNCHANGED <<sensorVars, boundVars>>

\* Mutant of HandleCommandResponse: the test of the request_id is missing, so
\* that one without it is stored, too.
HandleAnyResponse(s) ==
    /\ ReceiveFrom(s)
    /\ LET m == Head(replies[s]) IN
          /\ m.topic = "response"
          /\ mqtt_responses' =
                [r \in DOMAIN mqtt_responses \cup {m.request_id} |->
                    IF r = m.request_id THEN m ELSE mqtt_responses[r]]
          /\ callback' = m
    /\ UNCHANGED <<connected_devices, calls>>
    /\ UNCHANGED <<outbox, gatewayUp, cmds, link>>
    /\ UNCHANGED <<sensorVars, boundVars>>

\* handle_mqtt_command_response, first critical section: store the response
\* under its request_id, whether or not a thread still waits for it.  One
\* without a request_id is dropped.
HandleCommandResponse(s) ==
    /\ ReceiveFrom(s)
    /\ LET m == Head(replies[s]) IN
          /\ m.topic = "response"
          /\ mqtt_responses' =
                IF m.request_id = None THEN mqtt_responses
                ELSE [mqtt_responses EXCEPT ![m.request_id] = m]
          /\ callback' = IF m.request_id = None THEN None ELSE m
    /\ UNCHANGED <<connected_devices, calls>>
    /\ UNCHANGED <<outbox, gatewayUp, cmds, link>>
    /\ UNCHANGED <<sensorVars, boundVars>>

\* handle_mqtt_command_response, second critical section: apply the status.
ApplyResponseStatus ==
    /\ callback # None
    /\ connected_devices' = WithStatus(callback.device_id, callback.status)
    /\ callback' = None
    /\ UNCHANGED <<mqtt_responses, calls>>
    /\ UNCHANGED <<mqttVars, sensorVars, boundVars>>

-----------------------------------------------------------------------------
(* The gateway's main thread                                               *)

\* Mutants of Expired: fifteen milliseconds; the operands swapped.
ExpiredAtOnce(r) == now - r.timestamp > 0
ExpiredSwapped(r) == r.timestamp - now > ResponseTTL

Expired(r) == now - r.timestamp > ResponseTTL

\* Deletes the old responses.  Their age is counted from the sensor's stamp.
CleanResponses ==
    /\ mqtt_responses' =
          [c \in Calls |->
             IF mqtt_responses[c] # None /\ Expired(mqtt_responses[c])
             THEN None ELSE mqtt_responses[c]]
    /\ UNCHANGED <<connected_devices, callback, calls>>
    /\ UNCHANGED <<mqttVars, sensorVars, boundVars>>

\* Removes a device that has been silent for too long.
RemoveOffline(s) ==
    /\ Registered(s)
    /\ connected_devices' = [connected_devices EXCEPT ![s] = None]
    /\ UNCHANGED <<mqtt_responses, callback, calls>>
    /\ UNCHANGED <<mqttVars, sensorVars, boundVars>>

-----------------------------------------------------------------------------
(* paho's outgoing queue, the broker and the connections (external code)   *)

\* Bound: every fault is counted.
Fault ==
    /\ faults < MaxFaults
    /\ faults' = faults + 1
    /\ UNCHANGED now

\* The broker routes the oldest message of the queue.  Clients connect with a
\* clean session: a sensor without a live subscription never gets it.
\* Bound: at most MaxQueue commands wait for a sensor.
Route(m) ==
    /\ Len(cmds[m.device_id]) < MaxQueue
    /\ cmds' = IF link[m.device_id] = "subscribed"
               THEN [cmds EXCEPT ![m.device_id] = Append(@, m)]
               ELSE cmds

BrokerAccept ==
    /\ gatewayUp
    /\ outbox # << >>
    /\ Route(Head(outbox))
    /\ outbox' = Tail(outbox)
    /\ UNCHANGED <<gatewayUp, replies, link>>
    /\ UNCHANGED <<gatewayVars, sensorVars, boundVars>>

\* The gateway's connection breaks: what is on its way to it is lost, since it
\* subscribes with QoS 0.
LoseGateway ==
    /\ gatewayUp' = FALSE
    /\ replies' = [s \in Sensors |-> << >>]
    /\ Fault

GatewayDisconnect ==
    /\ gatewayUp
    /\ LoseGateway
    /\ UNCHANGED <<outbox, cmds, link>>
    /\ UNCHANGED <<gatewayVars, sensorVars>>

\* The connection breaks after the broker took the message and before its
\* PUBACK: paho sends the message again when it reconnects.
BrokerAcceptAckLost ==
    /\ gatewayUp
    /\ outbox # << >>
    /\ Route(Head(outbox))
    /\ LoseGateway
    /\ UNCHANGED <<outbox, link>>
    /\ UNCHANGED <<gatewayVars, sensorVars>>

\* on_connect subscribes to the data and the response topics again.
GatewayReconnect ==
    /\ ~gatewayUp
    /\ gatewayUp' = TRUE
    /\ UNCHANGED <<outbox, cmds, replies, link>>
    /\ UNCHANGED <<gatewayVars, sensorVars, boundVars>>

\* A sensor's connection breaks: the commands on their way to it are lost.
SensorDisconnect(s) ==
    /\ link[s] # "down"
    /\ link' = [link EXCEPT ![s] = "down"]
    /\ cmds' = [cmds EXCEPT ![s] = << >>]
    /\ Fault
    /\ UNCHANGED <<outbox, gatewayUp, replies>>
    /\ UNCHANGED <<gatewayVars, sensorVars>>

\* The board's connectToMQTT subscribes after every connection.  In the Java
\* sensor the library reconnects by itself, with a clean session, and the
\* subscription made once by connectToMQTT is gone.
SensorReconnect(s) ==
    /\ link[s] = "down"
    /\ link' = [link EXCEPT ![s] = IF s \in JavaSensors THEN "connected" ELSE "subscribed"]
    /\ UNCHANGED <<outbox, gatewayUp, cmds, replies>>
    /\ UNCHANGED <<gatewayVars, sensorVars, boundVars>>

\* A message a sensor publishes.  The gateway has no session at the broker
\* while it is disconnected.  Bound: at most MaxQueue messages are in flight.
Publication(s, m) ==
    /\ Len(replies[s]) < MaxQueue
    /\ replies' = IF gatewayUp THEN [replies EXCEPT ![s] = Append(@, m)] ELSE replies

-----------------------------------------------------------------------------
(* The sensor                                                              *)

\* scheduleAtFixedRate rejects a period of zero seconds, after the previous
\* scheduler has been shut down: handleMqttCommand ends in its catch block.
Throws(s, t) ==
    /\ s \in JavaSensors
    /\ \/ t = "TURN_ACTIVE" /\ sensor[s].interval = "zero"
       \/ t = "SET_FREQ_SUBSECOND" /\ sensor[s].status = "ACTIVE"

Accepts(s, t) == t \notin {"SET_FREQ_INVALID", "OTHER"} /\ ~Throws(s, t)

StatusAfter(s, t) ==
    CASE t = "TURN_IDLE"                     -> "IDLE"
      [] t = "TURN_ACTIVE" /\ ~Throws(s, t)  -> "ACTIVE"
      [] OTHER                               -> sensor[s].status

\* The Java sensor keeps its interval in whole seconds.
IntervalAfter(s, t) ==
    CASE t = "SET_FREQ"                                -> "ok"
      [] t = "SET_FREQ_SUBSECOND" /\ s \in JavaSensors -> "zero"
      [] OTHER                                         -> sensor[s].interval

\* Whether the periodic task lives on; the board needs none.
ScheduledAfter(s, t) ==
    CASE s \notin JavaSensors -> TRUE
      [] Throws(s, t)         -> FALSE
      [] t = "TURN_IDLE"      -> FALSE
      [] t = "TURN_ACTIVE"    -> TRUE
      [] t = "SET_FREQ" /\ sensor[s].status = "ACTIVE" -> TRUE
      [] OTHER                -> sensor[s].scheduled

SensorAfter(s, t) ==
    [status |-> StatusAfter(s, t), interval |-> IntervalAfter(s, t),
     scheduled |-> ScheduledAfter(s, t)]

\* Mutant of ResponseTo: the response is made before the status is set.
ResponseBeforeEffect(s, m) ==
    [topic |-> "response", device_id |-> s, request_id |-> m.request_id,
     success |-> Accepts(s, m.command_type),
     status |-> sensor[s].status,
     timestamp |-> now - Lag[s]]

\* sendMqttResponse, sendCommandResponse: the status is the one after the
\* command, the time is the sensor's; the catch block has lost the request_id.
ResponseTo(s, m) ==
    [topic |-> "response", device_id |-> s,
     request_id |-> IF Throws(s, m.command_type) THEN None ELSE m.request_id,
     success |-> Accepts(s, m.command_type),
     status |-> StatusAfter(s, m.command_type),
     timestamp |-> now - Lag[s]]

\* The effect of the oldest command on the sensor.
Execute(s) ==
    LET m == Head(cmds[s]) IN
    /\ link[s] = "subscribed"
    /\ cmds[s] # << >>
    /\ sensor' = [sensor EXCEPT ![s] = SensorAfter(s, m.command_type)]
    /\ verdicts' =
          IF Throws(s, m.command_type) THEN verdicts
          ELSE [verdicts EXCEPT ![m.request_id] =
                  @ \cup {<<s, Accepts(s, m.command_type)>>}]
    /\ UNCHANGED reading

\* handleMqttCommand, processCommand: execute and respond.  The Java sensor
\* starts or stops its scheduler before it sets currentStatus.  In one step: what
\* the scheduler's thread can see in between, it can see before or afterwards.
HandleCommand(s) ==
    /\ Execute(s)
    /\ Publication(s, ResponseTo(s, Head(cmds[s])))
    /\ cmds' = [cmds EXCEPT ![s] = Tail(@)]
    /\ UNCHANGED <<outbox, gatewayUp, link>>
    /\ UNCHANGED <<gatewayVars, boundVars>>

\* The connection breaks before the response is sent.  The Java sensor sends
\* it only if it is connected.  The board reconnects and tries once more,
\* which may fail again.
HandleCommandOffline(s) ==
    /\ Execute(s)
    /\ cmds' = [cmds EXCEPT ![s] = << >>]
    /\ \/ /\ UNCHANGED replies
          /\ link' = [link EXCEPT ![s] = "down"]
       \/ /\ s \notin JavaSensors
          /\ Publication(s, ResponseTo(s, Head(cmds[s])))
          /\ UNCHANGED link
    /\ Fault
    /\ UNCHANGED <<outbox, gatewayUp>>
    /\ UNCHANGED gatewayVars

\* sendSensorDataMQTT in the Java sensor runs on the scheduler's own thread:
\* it tests the status, reads it again into the message, and publishes.
\* Bound: a sensor makes one reading at a time; a thread that outlives its
\* scheduler is done before the thread of the next one begins.
CheckStatus(s) ==
    /\ s \in Publishers \cap JavaSensors
    /\ sensor[s].scheduled
    /\ sensor[s].status = "ACTIVE"
    /\ reading[s] = "none"
    /\ reading' = [reading EXCEPT ![s] = "checked"]
    /\ UNCHANGED <<sensor, verdicts>>
    /\ UNCHANGED <<gatewayVars, mqttVars, boundVars>>

BuildReading(s) ==
    /\ reading[s] = "checked"
    /\ reading' = [reading EXCEPT ![s] = sensor[s].status]
    /\ UNCHANGED <<sensor, verdicts>>
    /\ UNCHANGED <<gatewayVars, mqttVars, boundVars>>

DataMessage(s, st) == [topic |-> "data", device_id |-> s, status |-> st]

\* Nothing is published without a connection, or when shutdownNow has
\* interrupted the thread in time.
PublishReading(s) ==
    /\ reading[s] \in Statuses
    /\ reading' = [reading EXCEPT ![s] = "none"]
    /\ \/ /\ link[s] # "down"
          /\ Publication(s, DataMessage(s, reading[s]))
       \/ /\ link[s] = "down" \/ ~sensor[s].scheduled
          /\ UNCHANGED replies
    /\ UNCHANGED <<sensor, verdicts>>
    /\ UNCHANGED <<outbox, gatewayUp, cmds, link>>
    /\ UNCHANGED <<gatewayVars, boundVars>>

\* The board's loop does the same in one go, between two commands.
LoopPublish(s) ==
    /\ s \in Publishers \ JavaSensors
    /\ sensor[s].status = "ACTIVE"
    /\ link[s] # "down"
    /\ Publication(s, DataMessage(s, "ACTIVE"))
    /\ UNCHANGED <<outbox, gatewayUp, cmds, link>>
    /\ UNCHANGED <<gatewayVars, sensorVars, boundVars>>

\* A power cycle, with a start-up that succeeds: the sensor is as at first and
\* register_device replaces its entry.
SensorRestart(s) ==
    /\ sensor' = [sensor EXCEPT ![s] = StartedSensor]
    /\ reading' = [reading EXCEPT ![s] = "none"]
    /\ link' = [link EXCEPT ![s] = "subscribed"]
    /\ cmds' = [cmds EXCEPT ![s] = << >>]
    /\ connected_devices' = [connected_devices EXCEPT ![s] = RegisteredEntry("ACTIVE")]
    /\ Fault
    /\ UNCHANGED <<mqtt_responses, callback, calls>>
    /\ UNCHANGED <<outbox, gatewayUp, replies, verdicts>>

\* Bound: the clock stops at MaxNow.
Tick ==
    /\ now < MaxNow
    /\ now' = now + 1
    /\ UNCHANGED faults
    /\ UNCHANGED <<gatewayVars, mqttVars, sensorVars>>

-----------------------------------------------------------------------------

ClientStep(c) == PopResponse(c) \/ GiveUp(c) \/ UpdateDevice(c)
MqttThread ==
    \/ ApplyResponseStatus
    \/ \E s \in Sensors : HandleSensorData(s) \/ HandleCommandResponse(s)
ReadingStep(s) ==
    CheckStatus(s) \/ BuildReading(s) \/ PublishReading(s) \/ LoopPublish(s)

Next ==
    \/ \E c \in Calls, s \in Sensors : SendToUnknown(c, s)
    \/ \E c \in Calls, s \in Sensors, t \in Requests : SendCommand(c, s, t)
    \/ \E c \in Calls : PopResponse(c) \/ GiveUp(c) \/ UpdateDevice(c)
    \/ \E s \in Sensors : HandleSensorData(s) \/ HandleCommandResponse(s)
    \/ ApplyResponseStatus
    \/ CleanResponses
    \/ \E s \in Sensors : RemoveOffline(s)
    \/ BrokerAccept
    \/ BrokerAcceptAckLost
    \/ GatewayDisconnect
    \/ GatewayReconnect
    \/ \E s \in Sensors : SensorDisconnect(s) \/ SensorReconnect(s)
    \/ \E s \in Sensors : HandleCommand(s) \/ HandleCommandOffline(s)
    \/ \E s \in Sensors : CheckStatus(s) \/ BuildReading(s) \/ PublishReading(s)
    \/ \E s \in Sensors : LoopPublish(s)
    \/ \E s \in Sensors : SensorRestart(s)
    \/ Tick

Spec == Init /\ [][Next]_vars

\* The threads of the gateway run, the clean-up comes round every second, time
\* passes, a sensor with a live periodic task publishes, and both ends reconnect
\* (paho, the Paho library and the board's loop retry for ever).  Nothing makes
\* a client send, a device go offline, a sensor restart or a connection break.
Fairness ==
    /\ \A c \in Calls : WF_vars(ClientStep(c))
    /\ WF_vars(MqttThread)
    /\ WF_vars(CleanResponses)
    /\ WF_vars(Tick)
    /\ WF_vars(BrokerAccept)
    /\ WF_vars(GatewayReconnect)
    /\ \A s \in Sensors :
          /\ WF_vars(SensorReconnect(s))
          /\ WF_vars(HandleCommand(s))
          /\ WF_vars(ReadingStep(s))

FairSpec == Spec /\ Fairness

-----------------------------------------------------------------------------
(* Properties                                                              *)

\* A call that is answered SUCCESS was accepted by the sensor it was addressed
\* to, and one that reports the sensor's own error was refused by it: the
\* answer of a call never comes from the response to another call, however
\* responses are delayed, repeated, orphaned or cleaned up
\* (send_mqtt_command, handle_mqtt_command_response).
AnswerIsTheSensors ==
    \A c \in Calls :
        /\ calls[c].outcome = "SUCCESS" =>
              <<calls[c].device_id, TRUE>> \in verdicts[c]
        /\ calls[c].outcome = "sensor error" =>
              <<calls[c].device_id, FALSE>> \in verdicts[c]

\* The clean-up (main, lines 639-647) never deletes a response whose call is
\* still polling for it within its ten seconds: only a PopResponse removes it.
Waiting(c) == calls[c].pc = "polling" /\ now - calls[c].start_time < Timeout
WaitedForIsKept(c) ==
    Waiting(c) /\ mqtt_responses[c] # None /\ mqtt_responses'[c] = None
        => calls'[c].pc # "polling"
FreshResponseKept == [][\A c \in Calls : WaitedForIsKept(c)]_vars

\* Every command sent is answered, whatever is lost (send_mqtt_command returns).
EveryCallReturns == \A c \in Calls : calls[c].pc = "polling" ~> calls[c].pc = "done"

\* A response nobody waits for does not stay in mqtt_responses: it is deleted
\* once it is old (the clock must get that far before it stops at MaxNow), or
\* a repeated, younger response takes its place (main, lines 639-647).
OldEnough(c) ==
    mqtt_responses[c] # None /\ mqtt_responses[c].timestamp + ResponseTTL < MaxNow
OrphansCollected ==
    \A c \in Calls : calls[c].pc = "done" /\ OldEnough(c) ~> ~OldEnough(c)

\* What LIST_DEVICES shows of a sensor that runs the board's program is its
\* status, once nothing from it is on its way: no message, and no status still
\* to be applied.  (Readings and responses of the board leave in the order in
\* which its single thread made them.)
InFlight(s) == replies[s] # << >> \/ (callback # None /\ callback.device_id = s)
SettledStatus ==
    \A s \in Sensors \ JavaSensors :
        ~InFlight(s) /\ Registered(s) => connected_devices[s].status = sensor[s].status

\* It is so as long as no connection broke and no sensor was restarted, and no
\* two threads wait for, or hold, the response of one sensor: a thread that
\* applies the response it popped (send_command_to_device, lines 367-379) then
\* never writes an older status over a newer one, although commands that timed
\* out before may still be carried out and answered.
Waits(c) == calls[c].pc \in {"polling", "update"}
OneAtATime ==
    \A c, d \in Calls :
        Waits(c) /\ Waits(d) /\ calls[c].device_id = calls[d].device_id => c = d
Undisturbed == faults = 0 /\ OneAtATime
StatusSettles == []Undisturbed => []SettledStatus

\* A status that a late reading or a slow thread has made wrong in the registry
\* is repaired: a sensor that stays registered, connected, ACTIVE and scheduled
\* is in the end listed as ACTIVE for good (handle_mqtt_sensor_data,
\* sendSensorDataMQTT).
Publishing(s) ==
    /\ Registered(s) /\ gatewayUp /\ link[s] # "down"
    /\ s \in Publishers /\ sensor[s].status = "ACTIVE" /\ sensor[s].scheduled
ListedActive(s) == Registered(s) /\ connected_devices[s].status = "ACTIVE"
ActiveIsListed ==
    \A s \in Sensors : <>[]Publishing(s) => <>[]ListedActive(s)

\* An IDLE sensor publishes no readings (README_DISCOVERY.md:186).
PublishesData(s) ==
    /\ Len(replies'[s]) > Len(replies[s])
    /\ replies'[s][Len(replies'[s])].topic = "data"
IdleIsSilent ==
    [][\A s \in Sensors : PublishesData(s) => sensor[s].status = "ACTIVE"]_vars

\* A sensor that lost its connection gets its commands again after it has
\* reconnected (README.md:196, README_FALHAS.md:117).
ReconnectionRestoresCommands ==
    \A s \in Sensors : link[s] = "down" ~> link[s] = "subscribed"

\* Each call does what DeviceCall promises: it is answered once, and SUCCESS
\* only after the sensor accepted the command (send_command_to_device).
Stage(c) ==
    IF calls[c].pc = "idle" THEN "idle"
    ELSE IF calls[c].pc # "done" THEN "open"
    ELSE IF calls[c].outcome = "SUCCESS" THEN "SUCCESS" ELSE "FAILED"
Accepted(c) == \E s \in Sensors : <<s, TRUE>> \in verdicts[c]
DeviceCalls == INSTANCE DeviceCall WITH
    stage <- [c \in Calls |-> Stage(c)],
    accepted <- {c \in Calls : Accepted(c)}
ImplementsDeviceCall == DeviceCalls!AbsSpec

=============================================================================
