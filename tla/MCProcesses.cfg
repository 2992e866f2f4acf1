\* Two children and their loss, two parent signals; three commands on one
\* child; one companion.  A companion that has stopped stays so.
SPECIFICATION MCSpec
CONSTANTS
    InitialDelay = 1
    MaxDelay = 3
    MaxGen = 5
    MaxSignals = 2
    managedCloudflareRetryAttempts = 3
INVARIANTS
    OnlyTheLiveChildCounts
    StopLeavesNothing
PROPERTIES
    ChildEventsAreHandled
    SharedCommandsFinish
    StopEndsCompanion
CHECK_DEADLOCK FALSE
