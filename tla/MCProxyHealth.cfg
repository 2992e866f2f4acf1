\* Four routes of which two are sampled, and four checks.
SPECIFICATION Spec
CONSTANTS
    RouteConfigs <- MCRouteConfigs
    Environments <- MCEnvironments
    maxHealthRoutes = 2
    maxHistoryEntries = 1
    MaxChecks = 4
INVARIANT ReportedRouteIsEffective
CHECK_DEADLOCK FALSE
