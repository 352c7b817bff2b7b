\* Two clients command a Java sensor whose clock is 5 s slow; one fault.
CONSTANTS
    java = java
    esp = esp
    c1 = c1
    c2 = c2
    None = None
    Sensors = {java}
    JavaSensors = {java}
    Publishers = {}
    Calls = {c1, c2}
    Requests = {"TURN_ACTIVE", "SET_FREQ_SUBSECOND", "OTHER"}
    Lag <- SlowClock
    Timeout = 2
    ResponseTTL = 3
    MaxNow = 4
    MaxQueue = 2
    MaxFaults = 1
SPECIFICATION Spec
SYMMETRY CallSymmetry
INVARIANTS
    TypeOK
    AnswerIsTheSensors
PROPERTIES
    FreshResponseKept
    ImplementsDeviceCall
CHECK_DEADLOCK FALSE
