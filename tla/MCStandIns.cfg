\* Two callers of the local proxy, one that streams and one whose POST may time
\* out.  Servers are closed and callers leave.
SPECIFICATION MCSpec
CONSTANTS
    MCPCallers = {"c1", "c2"}
    StreamCallers = {"c1"}
    Buffer = 1
    MaxNotify = 2
    PostTimeouts = {"c2"}
INVARIANT
    NothingIsLost
PROPERTIES
    HealthEndpointIsRobust
    StandInsAreReliable
CHECK_DEADLOCK FALSE
