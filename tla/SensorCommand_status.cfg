\* Two clients command a board that publishes; nothing is lost, time passes.
CONSTANTS
    java = java
    esp = esp
    c1 = c1
    c2 = c2
    None = None
    Sensors = {esp}
    JavaSensors = {}
    Publishers = {esp}
    Calls = {c1, c2}
    Requests = {"TURN_IDLE", "TURN_ACTIVE"}
    Lag <- Synchronised
    Timeout = 2
    ResponseTTL = 3
    MaxNow = 4
    MaxQueue = 2
    MaxFaults = 0
SPECIFICATION Spec
PROPERTY
    StatusSettles
CHECK_DEADLOCK FALSE
