\* A client makes a sensor IDLE, or gives it an interval that rounds to zero, whose
\* answer has no request_id; the Java sensor publishes; one fault; the clock
\* outlasts the clean-up.
CONSTANTS
    java = java
    esp = esp
    c1 = c1
    c2 = c2
    None = None
    Sensors = {java, esp}
    JavaSensors = {java}
    Publishers = {java}
    Calls = {c1}
    Requests = {"TURN_IDLE", "SET_FREQ_SUBSECOND"}
    Lag <- Synchronised
    Timeout = 2
    ResponseTTL = 3
    MaxNow = 4
    MaxQueue = 1
    MaxFaults = 1
SPECIFICATION FairSpec
PROPERTIES
    EveryCallReturns
    OrphansCollected
    ActiveIsListed
CHECK_DEADLOCK FALSE
