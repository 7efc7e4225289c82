SPECIFICATION Spec
CONSTANTS
    MaxThreads = 1
    MaxBacklog = 1
    MaxSockets = 1
    StopPolicy = "any"
INVARIANTS
    NeverKilled
CHECK_DEADLOCK FALSE
