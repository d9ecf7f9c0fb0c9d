\* Any plugin may fail, any port of the engine and of the first external plugin may
\* be taken.  A thread that dies in its set-up makes the engine hang: no
\* deadlock check.
CONSTANTS
    NumInternal = 2
    NumExternal = 2
    PublishPort = 5559
    SubscribePort = 5560
    PluginId <- DistinctIds
    TcpPort <- OwnPorts
    ForeignPorts <- BusyPorts
    Faulty <- All
    Refusable <- All
SPECIFICATION FairSpec
INVARIANTS
    TypeOK
    StartBarrier
    CrashShutsBarrier
    ReplyMeetsRequest
    OkMeansAllExited
PROPERTIES
    BarrierOpens
    ImplementsBarrier
    RunEndsAfterPlugins
CHECK_DEADLOCK FALSE
