SPECIFICATION FairSpec
CONSTANTS
  Event = {1, 2, 3, 4}
  Worker = {w1, w2}
  BatchSize = 2
  MaxRedo = 1
CHECK_DEADLOCK FALSE
INVARIANTS TypeOK DispatchedWasPublished DuplicatesComeFromFaults
PROPERTIES ImplementsChannel EventuallyDispatched
