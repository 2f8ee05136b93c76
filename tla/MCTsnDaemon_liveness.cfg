SPECIFICATION FairSpec
CONSTANTS
    Ifaces = {i1, i2}
    Addrs = {a1}
    Bridges = {}
    Chassis = chassis
    Deaf = {i2}
    FdLimit = 2
    None = none
    MaxFaults = 0
    MaxRefusals = 1
PROPERTIES
    AddressesPublished
    DeafPortSilencesDaemon
