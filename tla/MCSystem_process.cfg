SPECIFICATION FairSystem
CONSTANTS
    Ifaces = {i1}
    Addrs = {}
    Bridges = {}
    Chassis = chassis
    Deaf = {i1}
    FdLimit = 3
    None = none
    MaxFaults = 0
    MaxRefusals = 0
    Odd = {}
    MaxHandlerFaults = 2
INVARIANTS
    AnsweredPortsAreConfigured
    CrashNeedsCause
    ContextBalanced
PROPERTIES
    RequestsAnswered
    DeafPortSilencesHandlers
