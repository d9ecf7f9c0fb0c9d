\* Plugins may all exit: TLC must not report that as a deadlock.
CONSTANTS
    p1 = p1
    p2 = p2
    A = A
    AB = AB
    Peer = {p1, p2}
    EventType = {A, AB}
    Subscriptions <- PrefixReaders
    Covers <- PrefixFilters
    PubLimit = 1
    SubLimit = 1
    MaxEvents = 2
SPECIFICATION Spec
INVARIANTS
    TypeOK
    CausalOrder
    PublisherOrder
PROPERTIES
    ImplementsLog
CHECK_DEADLOCK FALSE
