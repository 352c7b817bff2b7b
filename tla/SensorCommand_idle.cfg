\* A client makes a Java sensor IDLE while it publishes readings.
CONSTANTS
    java = java
    esp = esp
    c1 = c1
    c2 = c2
    None = None
    Sensors = {java}
    JavaSensors = {java}
    Publishers = {java}
    Calls = {c1}
    Requests = {"TURN_IDLE"}
    Lag <- Synchronised
    Timeout = 2
    ResponseTTL = 3
    MaxNow = 2
    MaxQueue = 2
    MaxFaults = 0
SPECIFICATION Spec
PROPERTIES
    IdleIsSilent
CHECK_DEADLOCK FALSE
