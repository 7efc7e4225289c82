SPECIFICATION FairSpec
CONSTANTS
    MaxThreads = 1
    MaxBacklog = 1
    MaxSockets = 1
    StopPolicy = "settled"
PROPERTIES
    StopReturns
