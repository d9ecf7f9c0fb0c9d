\* The engine may hang on a plugin that died in its set-up: no deadlock check.
CONSTANTS
    TypeA = TypeA
    TypeB = TypeB
    NumInternal = 2
    NumExternal = 0
    PublishPort = 5559
    SubscribePort = 5560
    PluginId <- DistinctIds
    TcpPort <- OwnPorts
    ForeignPorts <- None
    Faulty <- All
    Refusable <- None
    EventType = {TypeA, TypeB}
    Subscriptions <- MCSubscriptions
    Covers <- OwnFilters
    PubLimit = 2
    SubLimit = 2
    MaxEvents = 2
SPECIFICATION Spec
INVARIANTS
    NoInitialMessageMissed
CHECK_DEADLOCK FALSE
