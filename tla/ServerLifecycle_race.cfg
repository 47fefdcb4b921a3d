SPECIFICATION Spec
CONSTANTS
    MaxRequests = 1
    HangingServers = {}
    Configs <- SomeConfigs
CHECK_DEADLOCK FALSE
PROPERTIES
    ShutdownEnds
