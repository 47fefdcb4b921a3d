SPECIFICATION Spec
CONSTANTS
    MaxRequests = 1
    HangingServers = {"metrics", "rest"}
    Configs <- SomeConfigs
CHECK_DEADLOCK FALSE
INVARIANTS
    NeverServingAgain
    CleanExit
    ReadableWhileAnswered
PROPERTIES
    ShutdownEndsWhenUp
