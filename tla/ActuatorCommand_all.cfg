\* Two clients command a relay, of either kind, through a bridge with one
\* thread; one fault.
CONSTANTS
    relay1 = relay1
    c1 = c1
    c2 = c2
    None = None
    Actuators = {relay1}
    Calls = {c1, c2}
    Requests = {"TURN_ON", "TURN_OFF"}
    Workers = 1
    MaxInfos = 1
    MaxFaults = 1
SPECIFICATION FairSpec
INVARIANTS
    TypeOK
    AnswerWasTrue
PROPERTIES
    LateCommandsNeverOverride
    ImplementsDeviceCall
    EveryCallReturns
    StatusConverges
CHECK_DEADLOCK FALSE
