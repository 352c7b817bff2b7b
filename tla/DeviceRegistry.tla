---------------------------- MODULE DeviceRegistry ----------------------------
(***************************************************************************)
(* Who is in the gateway's connected_devices: discovery by multicast,      *)
(* registration by DeviceInfo over TCP, what refreshes last_seen, and the  *)
(* removal of the devices that have been silent for 15 seconds.            *)
(*                                                                         *)
(*   gateway      multicast_discovery, handle_tcp_connection,              *)
(*                register_device, handle_mqtt_sensor_data, main           *)
(*   sensors      start (Java), setup and loop (ESP8266)                   *)
(*   actuators    RelayActuator (Java), relay-actuator-board (ESP8266)     *)
(*                                                                         *)
(* Time is counted in units of five seconds.  Instead of the times at      *)
(* which things happened, which grow without bound, the state keeps how    *)
(* long ago they did, up to the values that still make a difference.       *)
(*                                                                         *)
(* A command and its answer, if it comes, are one step here; SensorCommand *)
(* is about what happens in between.                                       *)
(***************************************************************************)
EXTENDS Integers, Sequences

CONSTANTS
    Sensors,        \* the MQTT sensors
    JavaSensors,    \* those that run TemperatureHumiditySensor.java
    Actuators,      \* the relays
    Interval,       \* the period of each device's readings or renewals, at first
    Longest,        \* the longest interval that clients set (60 s)
    Delay,          \* the longest a reading is on its way
    OfflineAfter,   \* a device silent for longer is removed (15 s)
    MaxThreads,     \* bound: DeviceInfo messages of a device being handled
    MaxReadings,    \* bound: readings of a sensor on their way
    None            \* no value

Devices == Sensors \cup Actuators

ASSUME DevicesAssumption ==
    JavaSensors \subseteq Sensors /\ Sensors \cap Actuators = {}
ASSUME TimeAssumption ==
    /\ Interval \in [Devices -> Nat \ {0}] /\ Longest \in [Devices -> Nat]
    /\ \A d \in Devices : Interval[d] <= Longest[d]
    /\ Delay \in Nat /\ OfflineAfter \in Nat /\ MaxThreads \in Nat
    /\ MaxReadings \in Nat \ {0}
ASSUME NoneAssumption == None \notin Int

VARIABLES
    gatewayUp,  \* the gateway's process runs
    silence,    \* gateway: the time since last_seen of each device in
                \* connected_devices, None for the others
    infos,      \* gateway: threads that have still to register a DeviceInfo
    phase,      \* device: how far its start-up has come
    link,       \* sensor: its connection to the broker
    status,     \* sensor: currentStatus
    interval,   \* device: captureIntervalSeconds, captureIntervalMs
    timer,      \* device: time since its last reading or renewal
    readings,   \* broker: the ages of a sensor's readings on their way, in order
    steady      \* history: since the gateway last heard from the sensor, it
                \* has been running, connected and ACTIVE, and no reading lost

vars == <<gatewayUp, silence, infos, phase, link, status, interval, timer, readings, steady>>
deviceVars == <<phase, link, status, interval, timer>>

Silences == (0 .. OfflineAfter + 1) \cup {None}
Phases == {"off", "searching", "found", "running", "stranded"}
Links == {"dead", "down", "connected", "subscribed"}

TypeOK ==
    /\ gatewayUp \in BOOLEAN
    /\ silence \in [Devices -> Silences]
    /\ infos \in [Devices -> 0 .. MaxThreads]
    /\ phase \in [Devices -> Phases]
    /\ link \in [Sensors -> Links]
    /\ status \in [Sensors -> {"ACTIVE", "IDLE"}]
    /\ interval \in [Devices -> Nat \ {0}]
    /\ timer \in [Devices -> Nat]
    /\ \A d \in Devices : interval[d] <= Longest[d] /\ timer[d] <= Longest[d]
    /\ readings \in [Sensors -> Seq(0 .. Delay)]
    /\ steady \in [Sensors -> BOOLEAN]

Init ==
    /\ gatewayUp = FALSE
    /\ silence = [d \in Devices |-> None]
    /\ infos = [d \in Devices |-> 0]
    /\ phase = [d \in Devices |-> "off"]
    /\ link = [s \in Sensors |-> "dead"]
    /\ status = [s \in Sensors |-> "ACTIVE"]
    /\ interval = Interval
    /\ timer = [d \in Devices |-> 0]
    /\ readings = [s \in Sensors |-> << >>]
    /\ steady = [s \in Sensors |-> FALSE]

Listed(d) == silence[d] # None
Linked(s) == link[s] \in {"connected", "subscribed"}
Publishing(s) == phase[s] = "running" /\ status[s] = "ACTIVE"
OnLine(s) == gatewayUp /\ Publishing(s) /\ Linked(s)

-----------------------------------------------------------------------------
(* The gateway                                                             *)

\* main: connected_devices starts empty, and is kept nowhere else.
GatewayStart ==
    /\ ~gatewayUp
    /\ gatewayUp' = TRUE
    /\ UNCHANGED <<silence, infos, readings, steady, deviceVars>>

\* The process ends, with its threads and its subscriptions.
GatewayStop ==
    /\ gatewayUp
    /\ gatewayUp' = FALSE
    /\ silence' = [d \in Devices |-> None]
    /\ infos' = [d \in Devices |-> 0]
    /\ readings' = [s \in Sensors |-> << >>]
    /\ steady' = [s \in Sensors |-> FALSE]
    /\ UNCHANGED deviceVars

\* Makes last_seen of a device the present time.
Seen(d) == silence' = [silence EXCEPT ![d] = 0]
SteadyNow(d) ==
    steady' = IF d \in Sensors THEN [steady EXCEPT ![d] = OnLine(d)] ELSE steady

\* handle_tcp_connection, register_device: one thread for every connection.
HandleDeviceInfo(d) ==
    /\ infos[d] > 0
    /\ infos' = [infos EXCEPT ![d] = @ - 1]
    /\ Seen(d)
    /\ SteadyNow(d)
    /\ UNCHANGED <<gatewayUp, readings, deviceVars>>

\* handle_mqtt_sensor_data: a sensor that is not registered is ignored.
HandleReading(s) ==
    /\ readings[s] # << >>
    /\ readings' = [readings EXCEPT ![s] = Tail(@)]
    /\ IF Listed(s) THEN Seen(s) /\ SteadyNow(s) ELSE UNCHANGED <<silence, steady>>
    /\ UNCHANGED <<gatewayUp, infos, deviceVars>>

\* Mutant of SweepOffline: a device is marked as offline and not removed.
SweepMarks ==
    /\ silence' = [d \in Devices |->
          IF Listed(d) /\ silence[d] > OfflineAfter THEN -1 ELSE silence[d]]
    /\ UNCHANGED <<gatewayUp, infos, readings, steady, deviceVars>>

\* Mutant of SweepOffline: the 15 seconds are taken for milliseconds.
SweepMuchLater ==
    /\ silence' = [d \in Devices |->
          IF Listed(d) /\ silence[d] > 1000 * OfflineAfter THEN None ELSE silence[d]]
    /\ UNCHANGED <<gatewayUp, infos, readings, steady, deviceVars>>

\* main: removes the offline devices, in one critical section.
SweepOffline ==
    /\ silence' = [d \in Devices |->
          IF Listed(d) /\ silence[d] > OfflineAfter THEN None ELSE silence[d]]
    /\ UNCHANGED <<gatewayUp, infos, readings, steady, deviceVars>>

\* send_command_to_device and handle_mqtt_command_response, for a command that
\* the sensor carries out.  The answer refreshes last_seen, if it is not lost.
Commanded(s, answered, publishing) ==
    /\ Listed(s)
    /\ phase[s] \in {"running", "stranded"} /\ link[s] = "subscribed"
    /\ IF answered THEN Seen(s) ELSE UNCHANGED silence
    /\ steady' = [steady EXCEPT ![s] = publishing /\ (answered \/ @)]
    /\ UNCHANGED <<gatewayUp, infos, phase, link, readings>>

\* Mutant of Reschedule: the new scheduler waits for an interval first.
RescheduleLater(s, i) == timer' = [timer EXCEPT ![s] = 0]
\* The Java sensor's new scheduler publishes at once.
Reschedule(s, i) ==
    timer' = [timer EXCEPT ![s] = IF @ < i THEN i ELSE @]

\* TURN_ACTIVE, TURN_IDLE.  The new scheduler may find the old status, if its
\* thread is faster than the assignment of currentStatus, and then waits for an
\* interval.  Other commands leave the status and the timer alone.
CommandSensor(s, st, answered) ==
    /\ Commanded(s, answered, phase[s] = "running" /\ st = "ACTIVE")
    /\ status' = [status EXCEPT ![s] = st]
    /\ \/ st = "ACTIVE" /\ s \in JavaSensors /\ Reschedule(s, interval[s])
       \/ /\ st = "ACTIVE" /\ s \in JavaSensors /\ status[s] = "IDLE"
          /\ timer' = [timer EXCEPT ![s] = 0]
       \/ /\ st = "ACTIVE" /\ s \in JavaSensors => st = status[s]
          /\ UNCHANGED timer
    /\ UNCHANGED interval

\* SET_FREQ with a valid interval.  An ACTIVE Java sensor starts a scheduler;
\* the board counts the new interval from its last reading.  (SensorCommand has
\* the intervals that are not valid.)
SetFrequency(s, i, answered) ==
    /\ Commanded(s, answered, Publishing(s))
    /\ interval' = [interval EXCEPT ![s] = i]
    /\ IF s \in JavaSensors /\ status[s] = "ACTIVE" THEN Reschedule(s, i) ELSE UNCHANGED timer
    /\ UNCHANGED status

-----------------------------------------------------------------------------
(* Start-up and registration                                               *)

\* Mutant of SendDeviceInfo: only a device that starts announces itself.
SendDeviceInfoOnce(d, sent) ==
    /\ sent => gatewayUp /\ infos[d] < MaxThreads
    /\ infos' = IF sent /\ phase[d] # "running"
                THEN [infos EXCEPT ![d] = @ + 1] ELSE infos

\* sendDeviceInfo, registerWithGateway, sendDiscoveryResponse: a connection is
\* made and a thread of the gateway receives the DeviceInfo; or there is none,
\* and nobody notices.
\* Bound: at most MaxThreads threads hold a DeviceInfo of the device.
SendDeviceInfo(d, sent) ==
    /\ sent => gatewayUp /\ infos[d] < MaxThreads
    /\ infos' = IF sent THEN [infos EXCEPT ![d] = @ + 1] ELSE infos

\* Switched on: the ESP8266's setup, the Java programs' main.
PowerOn(d) ==
    /\ phase[d] = "off"
    /\ phase' = [phase EXCEPT ![d] = "searching"]
    /\ UNCHANGED <<gatewayUp, silence, infos, readings, steady, link, status, interval, timer>>

PowerOff(d) ==
    /\ phase[d] # "off"
    /\ phase' = [phase EXCEPT ![d] = "off"]
    /\ interval' = [interval EXCEPT ![d] = Interval[d]]
    /\ timer' = [timer EXCEPT ![d] = 0]
    /\ IF d \in Sensors
       THEN /\ link' = [link EXCEPT ![d] = "dead"]
            /\ status' = [status EXCEPT ![d] = "ACTIVE"]
            /\ steady' = [steady EXCEPT ![d] = FALSE]
       ELSE UNCHANGED <<link, status, steady>>
    /\ UNCHANGED <<gatewayUp, silence, infos, readings>>

\* A sensor listens for the first discovery packet and then never again.
DiscoverSensor(s) ==
    /\ gatewayUp
    /\ phase[s] = "searching"
    /\ phase' = [phase EXCEPT ![s] = "found"]
    /\ UNCHANGED <<gatewayUp, silence, infos, readings, steady, link, status, interval, timer>>

\* The one registration of a sensor's start-up.  The Java sensor has connected
\* to the broker before, or failed to, at some step of connectToMQTT, and
\* publishes in any case; the board connects later, and publishes only if the
\* registration was sent.
Register(s, sent, l) ==
    /\ phase[s] = "found"
    /\ SendDeviceInfo(s, sent)
    /\ phase' = [phase EXCEPT ![s] =
          IF sent \/ s \in JavaSensors THEN "running" ELSE "stranded"]
    /\ l \in IF s \in JavaSensors THEN Links ELSE {"down"}
    /\ link' = [link EXCEPT ![s] = l]
    /\ timer' = [timer EXCEPT ![s] = interval[s]]
    /\ UNCHANGED <<gatewayUp, silence, readings, steady, status, interval>>

\* An actuator answers every discovery packet.
DiscoverActuator(a, sent) ==
    /\ gatewayUp
    /\ phase[a] \in {"searching", "running"}
    /\ SendDeviceInfo(a, sent)
    /\ phase' = [phase EXCEPT ![a] = "running"]
    /\ UNCHANGED <<gatewayUp, silence, readings, steady, link, status, interval, timer>>

\* send_grpc_command, when the actuator answered the bridge.  A Java relay that
\* changes its status announces itself first (handleTcpCommand).
CommandActuator(a, sent) ==
    /\ Listed(a)
    /\ phase[a] \in {"searching", "running"}
    /\ sent => phase[a] = "running"
    /\ SendDeviceInfo(a, sent)
    /\ Seen(a)
    /\ UNCHANGED <<gatewayUp, readings, steady, deviceVars>>

\* startStatusScheduler; loop of the relay board.
Renew(a, sent) ==
    /\ phase[a] = "running"
    /\ timer[a] >= interval[a]
    /\ SendDeviceInfo(a, sent)
    /\ timer' = [timer EXCEPT ![a] = 0]
    /\ UNCHANGED <<gatewayUp, silence, readings, steady, phase, link, status, interval>>

-----------------------------------------------------------------------------
(* Readings, connections and time                                          *)

\* sendSensorDataMQTT, readSensorData.  Without a connection the Java sensor
\* skips the reading; the board's loop waits in connectToMQTT.
Due(s) ==
    /\ Publishing(s)
    /\ timer[s] >= interval[s]
    /\ Linked(s) \/ s \in JavaSensors

\* Bound: at most MaxReadings readings of a sensor are on their way.
Publish(s) ==
    /\ Due(s)
    /\ Len(readings[s]) < MaxReadings
    /\ timer' = [timer EXCEPT ![s] = 0]
    /\ readings' = [readings EXCEPT ![s] = IF Linked(s) /\ gatewayUp THEN Append(@, 0) ELSE @]
    /\ steady' = [steady EXCEPT ![s] = @ /\ Linked(s)]
    /\ UNCHANGED <<gatewayUp, silence, infos, phase, link, status, interval>>

\* The gateway's own connection to the broker is down for a moment: what is on
\* its way is lost.
LoseReadings(s) ==
    /\ readings[s] # << >>
    /\ readings' = [readings EXCEPT ![s] = << >>]
    /\ steady' = [steady EXCEPT ![s] = FALSE]
    /\ UNCHANGED <<gatewayUp, silence, infos, deviceVars>>

Disconnect(s) ==
    /\ Linked(s)
    /\ link' = [link EXCEPT ![s] = "down"]
    /\ steady' = [steady EXCEPT ![s] = FALSE]
    /\ UNCHANGED <<gatewayUp, silence, infos, readings, phase, status, interval, timer>>

\* The board subscribes again, the Java sensor does not.  The Java library
\* reconnects only a client that was connected once.
Reconnect(s) ==
    /\ phase[s] \in {"running", "stranded"}
    /\ link[s] = "down"
    /\ link' = [link EXCEPT ![s] = IF s \in JavaSensors THEN "connected" ELSE "subscribed"]
    /\ UNCHANGED <<gatewayUp, silence, infos, readings, steady, phase, status, interval, timer>>

\* Bound: silence is not counted beyond what makes a device offline.
Older(x) == IF x = None \/ x > OfflineAfter THEN x ELSE x + 1

\* A unit of time passes.  A reading that is due is published before, and one
\* that is Delay old is delivered, or lost, before.
Tick ==
    /\ \A s \in Sensors : ~Due(s) /\ \A i \in DOMAIN readings[s] : readings[s][i] < Delay
    /\ silence' = [d \in Devices |-> Older(silence[d])]
    /\ timer' = [d \in Devices |-> IF timer[d] < Longest[d] THEN timer[d] + 1 ELSE timer[d]]
    /\ readings' = [s \in Sensors |-> [i \in DOMAIN readings[s] |-> readings[s][i] + 1]]
    /\ UNCHANGED <<gatewayUp, infos, phase, link, status, interval, steady>>

-----------------------------------------------------------------------------

Next ==
    \/ GatewayStart
    \/ GatewayStop
    \/ SweepOffline
    \/ Tick
    \/ \E d \in Devices : HandleDeviceInfo(d) \/ PowerOn(d) \/ PowerOff(d)
    \/ \E s \in Sensors :
          \/ HandleReading(s) \/ LoseReadings(s) \/ Publish(s)
          \/ Disconnect(s) \/ Reconnect(s) \/ DiscoverSensor(s)
    \/ \E s \in Sensors, answered \in BOOLEAN :
          \/ \E st \in {"ACTIVE", "IDLE"} : CommandSensor(s, st, answered)
          \/ \E i \in 1 .. Longest[s] : SetFrequency(s, i, answered)
    \/ \E s \in Sensors, sent \in BOOLEAN, l \in Links :
          Register(s, sent, l)
    \/ \E a \in Actuators, sent \in BOOLEAN :
          CommandActuator(a, sent) \/ DiscoverActuator(a, sent) \/ Renew(a, sent)

Spec == Init /\ [][Next]_vars

\* Time passes, whatever else happens, and what runs goes on running.  Discovery
\* packets are sent for ever and a running gateway is reached by one of many
\* attempts.  Nothing makes anything start, stop, fail or be commanded.
Fairness ==
    /\ SF_vars(Tick)
    /\ WF_vars(SweepOffline)
    /\ \A d \in Devices : WF_vars(HandleDeviceInfo(d))
    /\ \A s \in Sensors :
          WF_vars(HandleReading(s)) /\ WF_vars(Publish(s)) /\ WF_vars(Reconnect(s))
    /\ \A a \in Actuators : SF_vars(DiscoverActuator(a, TRUE)) /\ SF_vars(Renew(a, TRUE))

FairSpec == Spec /\ Fairness

-----------------------------------------------------------------------------
(* Properties                                                              *)

\* The clean-up (main, lines 627-637) never removes a sensor that has been
\* running, connected and ACTIVE since it was last heard from, as long as the
\* longest interval and the delay of its readings stay within the 15 seconds: also
\* when SET_FREQ changes the interval while a reading is due or on its way, and
\* the answer is lost.
Removed(d) == Listed(d) /\ gatewayUp' /\ silence'[d] = None
SteadySensorsKept == [][\A s \in Sensors : Removed(s) => ~steady[s]]_vars

\* A device that has been switched off for good is in the end not listed any
\* more: no late thread or reading brings it back for good (register_device,
\* handle_mqtt_sensor_data, main).
GhostsLeave ==
    \A d \in Devices : <>[](phase[d] = "off") => <>[]~Listed(d)

\* An actuator that stays on is listed again and again while the gateway runs,
\* whichever of the two started first or was restarted (startStatusScheduler
\* and listenForDiscoveryRequests; loop of the relay board).
ActuatorsReturn ==
    \A a \in Actuators : <>[](gatewayUp /\ phase[a] # "off") => []<>Listed(a)

\* The same of a sensor that publishes its readings (README.md:194,
\* README_FALHAS.md:61).
SensorsReturn ==
    \A s \in Sensors : <>[]OnLine(s) => []<>Listed(s)

\* A sensor that is made IDLE stays in the list, so that it can be made ACTIVE
\* again (README_DISCOVERY.md:184-186).
IdleSensorsKept ==
    [][\A s \in Sensors :
        Removed(s) => ~(phase[s] = "running" /\ Linked(s) /\ status[s] = "IDLE")]_vars

=============================================================================
