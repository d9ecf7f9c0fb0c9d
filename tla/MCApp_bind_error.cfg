CONSTANTS
    NumInternal = 1
    NumExternal = 0
    PublishPort = 5559
    SubscribePort = 5560
    PluginId <- DistinctIds
    TcpPort <- OwnPorts
    ForeignPorts <- BusyPorts
    Faulty <- None
    Refusable <- None
SPECIFICATION Spec
INVARIANTS
    BindErrorNamesPort
