\* One process that never dies, but calls get_next_msg with a timeout.
CONSTANTS
    MaxProcesses = 1
    MaxArrivals = 1
    MaxPublished = 1
    SubLimit = 1
SPECIFICATION FairSpec
PROPERTIES
    ThreadEndsWithPlugin
CHECK_DEADLOCK FALSE
