SPECIFICATION BusySpec
CONSTANTS
    MaxThreads = 1
    MaxBacklog = 1
    MaxSockets = 1
    StopPolicy = "any"
PROPERTIES
    StopReturns
CHECK_DEADLOCK FALSE
