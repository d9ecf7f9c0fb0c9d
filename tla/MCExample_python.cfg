\* An application that misses an event never ends: no deadlock check.
CONSTANTS
    NumInternal = 2
    NumExternal = 1
    PublishPort = 5559
    SubscribePort = 5560
    PluginId <- DistinctIds
    TcpPort <- PyPort
    ForeignPorts <- None
    Faulty <- None
    Refusable <- None
    EventType = {"TypeA", "TypeB", "TypeC"}
    Subscriptions <- ExampleSubscriptions
    Covers <- OwnFilters
    PubLimit = 10
    SubLimit = 10
    MaxEvents = 3
    Messages = 3
    HeaderCut = 5
SPECIFICATION ExampleSpec
INVARIANTS
    GoodbyeComesLast
    OkMeansComplete
    StuckMeansMissed
PROPERTIES
    EndsUnlessMissed
CHECK_DEADLOCK FALSE
