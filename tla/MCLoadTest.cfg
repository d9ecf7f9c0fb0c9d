\* A load test that misses an event never ends: no deadlock check.
CONSTANTS
    NumInternal = 3
    NumExternal = 0
    PublishPort = 5559
    SubscribePort = 5560
    PluginId <- DistinctIds
    TcpPort <- NoPorts
    ForeignPorts <- None
    Faulty <- All
    Refusable <- None
    EventType = {"InitialMsgString", "OperatorMsg"}
    Subscriptions <- LoadTestSubscriptions
    Covers <- OwnFilters
    PubLimit = 2
    SubLimit = 1
    MaxEvents = 3
    NumMessages = 3
    MinSize = 1
    MaxSize = 2
    IntMax = 3
SPECIFICATION LoadTestSpec
INVARIANTS
    SizesGoRound
    TotalIsSum
    StuckMeansMissed
PROPERTIES
    EndsUnlessMissed
    TakenInTheEnd
CHECK_DEADLOCK FALSE
