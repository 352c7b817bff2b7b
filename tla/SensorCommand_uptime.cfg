\* The board stamps its responses with its uptime.
CONSTANTS
    java = java
    esp = esp
    c1 = c1
    c2 = c2
    None = None
    Sensors = {esp}
    JavaSensors = {}
    Publishers = {}
    Calls = {c1}
    Requests = {"GET_STATUS"}
    Lag <- BoardStampsUptime
    Timeout = 2
    ResponseTTL = 3
    MaxNow = 4
    MaxQueue = 2
    MaxFaults = 0
SPECIFICATION Spec
PROPERTIES
    FreshResponseKept
CHECK_DEADLOCK FALSE
