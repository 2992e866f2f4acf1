SPECIFICATION FairSpec
CONSTANTS
  Later = {l1}
  BusCapacity = 1
INVARIANTS
  FirstPollSeesCatalog
  DigestIsStartupCatalog
PROPERTIES
  StartupCompletes
  StopReleasesAll
CHECK_DEADLOCK FALSE
