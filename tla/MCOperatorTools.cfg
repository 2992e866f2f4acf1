\* Two commands at once on two aliases, one process ID that is handed out again;
\* two callers of the app-server; three handlers and one event stream.
\* Commands, handlers and children end.
SPECIFICATION MCSpec
CONSTANTS
    Commands = {c1, c2}
    Aliases = {"a", "b"}
    TunnelsOf <- tunnelsOf
    Pids = {1}
    Births = {1, 2, 3}
    LegacyAliases = {"b"}
    ProfileCommands = {c1, c2}
    Profiles = {1, 2}
    Default = 1
    Settings = {}
    FromEnv = "e"
    ProfileAliases = {"a"}
    Callers = {"c1", "c2"}
    MaxStarts = 2
    Handlers = {"a", "b", "c"}
    Scenarios <- scenarios
    Injects = {"a", "b"}
    Streams = {"s"}
    HistorySize = 2
    SubBuffer = 1
    MaxEvents = 3
SYMMETRY Symmetry
INVARIANTS
    Accounted
    InstallIsReported
    ReferencedExists
    BridgeLeavesNobody
    SessionIsSound
    RecentIsNewest
CHECK_DEADLOCK FALSE
