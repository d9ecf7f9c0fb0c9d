\* An application that misses an event never ends: no deadlock check.
CONSTANTS
    NumInternal = 2
    NumExternal = 0
    PublishPort = 5559
    SubscribePort = 5560
    PluginId <- DistinctIds
    TcpPort <- PyPort
    ForeignPorts <- None
    Faulty <- None
    Refusable <- None
    EventType = {"TypeA", "TypeB", "TypeC"}
    Subscriptions <- ExampleSubscriptions
    Covers <- OwnFilters
    PubLimit = 10
    SubLimit = 10
    MaxEvents = 5
    Messages = 5
    HeaderCut = 4
SPECIFICATION ExampleSpec
PROPERTIES
    ProgramTerminates
CHECK_DEADLOCK FALSE
