\* The first two plugins have one id; external plugins want each other's port and
\* the engine's.  A thread that dies in its set-up makes the engine hang: no
\* deadlock check.
CONSTANTS
    NumInternal = 1
    NumExternal = 3
    PublishPort = 5559
    SubscribePort = 5560
    PluginId <- SharedIds
    TcpPort <- ClashingPorts
    ForeignPorts <- BusyPorts
    Faulty <- All
    Refusable <- All
SPECIFICATION Spec
INVARIANTS
    ErrMeansNoneStarted
    PortsAreExclusive
CHECK_DEADLOCK FALSE
