\* Six commands, one untyped; a service that may exceed the limit by one.
SPECIFICATION FairSpec
CONSTANTS
    Commands = {1, 2, 3, 4, 5, 6}
    Backlog <- MCBacklog
    Untyped = {5}
    NoCommand = NoCommand
    QueueCapacity = 1
    MaxConcurrent = 2
    maxPollBatchSize = 25
    SlotLimit = 2
    Overflow = 1
INVARIANTS
    ResidentBound
    ConservedAndCounted
PROPERTIES
    ShutdownIsClean
    BackpressureEnds
    LeasesSpec
