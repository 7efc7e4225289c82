SPECIFICATION FairSpec
CONSTANTS
    MaxThreads = 2
    MaxBacklog = 1
    MaxSockets = 1
    StopPolicy = "settled"
INVARIANTS
    NeverKilled
PROPERTIES
    StopHangsOnlyInAccept
    EveryWorkerTicks
