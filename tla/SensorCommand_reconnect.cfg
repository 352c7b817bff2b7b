\* A Java sensor loses its connection to the broker once.
CONSTANTS
    java = java
    esp = esp
    c1 = c1
    c2 = c2
    None = None
    Sensors = {java}
    JavaSensors = {java}
    Publishers = {}
    Calls = {c1}
    Requests = {"TURN_ACTIVE"}
    Lag <- Synchronised
    Timeout = 2
    ResponseTTL = 3
    MaxNow = 2
    MaxQueue = 1
    MaxFaults = 1
SPECIFICATION FairSpec
PROPERTIES
    ReconnectionRestoresCommands
CHECK_DEADLOCK FALSE
