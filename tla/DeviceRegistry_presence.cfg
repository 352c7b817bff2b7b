\* A Java sensor and a relay come and go; so does the gateway.  The sensor may
\* make its next reading while one is on its way.
CONSTANTS
    java = java
    esp = esp
    relay = relay
    None = None
    Sensors = {java}
    JavaSensors = {java}
    Actuators = {relay}
    Interval <- TenSeconds
    Longest <- TenSeconds
    Delay = 1
    OfflineAfter = 3
    MaxThreads = 1
    MaxReadings = 2
SPECIFICATION FairSpec
INVARIANTS
    TypeOK
PROPERTIES
    SteadySensorsKept
    GhostsLeave
    ActuatorsReturn
CHECK_DEADLOCK FALSE
