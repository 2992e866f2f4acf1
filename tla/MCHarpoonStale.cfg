\* The same registry and calls; one property.
SPECIFICATION MCSpec
CONSTANTS
  Offered <- MCOffered
  Waiters = {w1}
  Limit = 3
  CatalogBudget = 3
  ExplainCacheLimit = 1
  AllowPlaintext = TRUE
  Calls = {c1, c2}
  Arguments <- MCArguments
  Urls <- MCUrls
  Links <- MCLinks
  MaxRedirects = 2
  CallBufferSize = 2
  Conns = {"k1", "k2"}
  Commands = {"x", "y", "n"}
  Forwards = {"x", "n"}
  Notifications = {"n"}
SYMMETRY Symmetry
INVARIANT ExplanationIsCurrent
CHECK_DEADLOCK FALSE
