SPECIFICATION FairSpec
CONSTANTS
  order = order
  item = item
  earning = earning
  again = again
  Worker = {w1, w2}
  BatchSize = 1
  MaxYear = 2
  MaxVersion = 2
  MaxFaults = 1
  Row <- SmallRow
  TableOf <- SmallTableOf
  Parent <- SmallParent
  KeyOf <- SmallKeyOf
CHECK_DEADLOCK FALSE
INVARIANTS TypeOK SweptChildrenFirst OnlyRacingWritesAreLost
PROPERTIES ImplementsShelf OldRowsLeaveHot
