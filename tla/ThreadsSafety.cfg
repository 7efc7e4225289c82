SPECIFICATION Spec
CONSTANTS
    MaxThreads = 2
    MaxBacklog = 1
    MaxSockets = 2
    StopPolicy = "any"
INVARIANTS
    TypeOK
    TickerAtFront
    NoThreadLeftBehind
    SocketOutlivesWorkers
    TickNotLost
PROPERTIES
    TickerNeverSignalsItself
    ListStableWhileWalked
    ImplementsPool
CHECK_DEADLOCK FALSE
