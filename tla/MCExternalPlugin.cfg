\* With timeouts; processes die and are started again.  A process may end or stay
\* dead, and its thread may wait for ever: no deadlock check.
CONSTANTS
    MaxProcesses = 3
    MaxArrivals = 3
    MaxPublished = 2
    SubLimit = 3
SPECIFICATION FairSpec
INVARIANTS
    TypeOK
    ReplyFitsCall
    OneLossPerProcess
    PublishedAsConfirmed
PROPERTIES
    ImplementsLog
    AnsweredInTheEnd
    QuitsInTheEnd
CHECK_DEADLOCK FALSE
