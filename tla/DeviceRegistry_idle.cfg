\* A client makes a sensor IDLE.
CONSTANTS
    java = java
    esp = esp
    relay = relay
    None = None
    Sensors = {esp}
    JavaSensors = {}
    Actuators = {}
    Interval <- FiveSeconds
    Longest <- FiveSeconds
    Delay = 1
    OfflineAfter = 3
    MaxThreads = 1
    MaxReadings = 1
SPECIFICATION Spec
PROPERTIES
    IdleSensorsKept
CHECK_DEADLOCK FALSE
