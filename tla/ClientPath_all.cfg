\* Two calls of any kind share the only thread of the API.
CONSTANTS
    c1 = c1
    c2 = c2
    lamp = lamp
    sensor = sensor
    Calls = {c1, c2}
    Relays = {lamp}
    Sensors = {sensor}
    Listed <- AllOff
    Threads = 1
SPECIFICATION FairSpec
INVARIANTS
    ClientTypeOK
    AnswerIsTheGateways
PROPERTIES
    ShownWasCommanded
    ClientImplementsDeviceCall
    EveryActionEnds
CHECK_DEADLOCK FALSE
