\* Two concurrent polls, two shard tokens, three policy revisions; two timed
\* polls behind a proxy; every combination of layers of one slice of settings;
\* four proxy routes of which two are sampled, and four checks.
\* Loading a configuration ends, and so do the checks.
SPECIFICATION MCSpec
CONSTANTS
    c1 = c1  c2 = c2  t1 = t1  t2 = t2
    NoToken = NoToken
    Callers = {c1, c2}
    Tokens = {t1, t2}
    Revisions = {0, 1, 2}
    MaxGeneration = 12
    Polls = {p1, p2}
    Durations = {1, 3, 8, 12, 20}
    Cutoffs = {7, 9, 13, 40}
    Elapsed = {3, 6, 7, 8, 9, 11, 13, 15, 19, 22}
    Jitter = 2
    MinTimeout = 6
    MinMargin = 6
    Milli = 2
    MaxDeadline = 30
    MaxGuardrail = 13
    maxHealthRoutes = 2
    maxHistoryEntries = 1
    MaxChecks = 4
SYMMETRY Symmetry
INVARIANTS
    BootstrapBound
    LearnedBelowCutoff
    LoadingIsFaithful
    ProxyStatusIsHonest
PROPERTIES
    RoutingIsFenced
CHECK_DEADLOCK FALSE
