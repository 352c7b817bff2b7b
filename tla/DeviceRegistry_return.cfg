\* The gateway is restarted under a sensor.
CONSTANTS
    java = java
    esp = esp
    relay = relay
    None = None
    Sensors = {esp}
    JavaSensors = {}
    Actuators = {}
    Interval <- FiveSeconds
    Longest <- FiveSeconds
    Delay = 1
    OfflineAfter = 3
    MaxThreads = 1
    MaxReadings = 1
SPECIFICATION FairSpec
PROPERTIES
    SensorsReturn
CHECK_DEADLOCK FALSE
