SPECIFICATION FairSpec
CONSTANTS
  Process = {p1, p2}
  Server = {p1}
  MaxEvents = 2
  MaxReads = 1
  MaxFaults = 1
  OneEntry = TRUE
CHECK_DEADLOCK FALSE
INVARIANTS TypeOK NoEventVanishes SettledCacheIsCurrent ClosedBranchTakesNoOrders
PROPERTIES EventsAreConsumed StaleEntriesGo
